-------------------------- MODULE IpAddressProofs --------------------------
(***************************************************************************)
(* That requests for the neighbours' addresses are tended and answered by  *)
(* what the neighbours announced (arp.c), and that the device's own lease  *)
(* is kept to (dhcp.c).                                                    *)
(***************************************************************************)
EXTENDS IpAddresses, CommonLemmas

----------------------------------------------------------------------------
(* ARP. *)

Requests == [ip : Ips, start : Nat, retries : 0 .. ArpMaxRetries]

\* A list of requests, one for an address at most.
RequestList(s) ==
    /\ s \in Seq(Requests) /\ Len(s) <= CacheSize
    /\ \A k, j \in 1 .. Len(s) : k # j => s[k].ip # s[j].ip

\* No request has waited too long.
Tended(s, now) == \A k \in 1 .. Len(s) : now - s[k].start <= RequestTimeout

\* An announcement backs the use of an address up to some time.
Backed(ip, mac, until) ==
    \E t \in 0 .. arpTicks : <<ip, mac, t>> \in announced /\ until <= t + Lifetime

EntryOK(e) ==
    /\ "valid" \in DOMAIN e /\ e.valid \in BOOLEAN
    /\ e.valid => e.ip \in Ips /\ e.mac \in Macs /\ e.expire \in Nat
    /\ e.valid /\ arpTicks < e.expire => Backed(e.ip, e.mac, e.expire)

ArpInv ==
    /\ arpTicks \in Nat
    /\ DOMAIN arp_cache = Entries /\ \A i \in Entries : EntryOK(arp_cache[i])
    /\ RequestList(arp_pending)
    /\ Tended(arp_pending, arpTicks)
    /\ AnswersAnnounced

----------------------------------------------------------------------------
(* DHCP. *)

\* The client's record at some time.
ClientOK(d, now) ==
    /\ DOMAIN d = {"state", "message_type", "done", "offer", "address", "start", "t1", "t2",
                   "expiry", "listening", "ticking"}
    /\ d.state \in DhcpStates /\ d.message_type \in {0, 2, 5} /\ d.done \in BOOLEAN
    /\ d.offer \in Addresses \union {NoAddress} /\ d.address \in Addresses \union {NoAddress}
    /\ d.start \in 0 .. now /\ d.t1 \in Nat /\ d.t2 \in Nat /\ d.expiry \in Nat
    /\ d.listening \in BOOLEAN /\ d.ticking \in BOOLEAN

DhcpTypes ==
    /\ ClientOK(dhcp, uptime)
    /\ uptime \in Nat /\ since \in 0 .. uptime
    /\ starting \in {"idle", "discover", "request"}
    /\ kept \in BOOLEAN
    /\ starting = "idle" /\ ~dhcp.ticking => ~dhcp.listening

RepliesOK ==
    \A m \in replies : /\ m.type \in {2, 5} /\ m.address \in Addresses \ {NoAddress}
                       /\ m.type = 5 => m.lease \in Leases

\* What holds of a lease left to the tick: once the tick is installed the lease
\* is within the time of its state, and before that dhcp_start is under way,
\* and ends before the lease would have to be rebound.
LeaseKept ==
    kept =>
        /\ dhcp.state \in {"INIT", "BOUND", "RENEWING", "REBINDING", "EXPIRED"}
        /\ dhcp.state \in {"BOUND", "RENEWING", "REBINDING"} =>
             dhcp.t1 + 1 < dhcp.t2 /\ dhcp.t2 < dhcp.expiry /\ StartTimeout < dhcp.t2
        /\ starting # "idle" => dhcp.done
        /\ dhcp.ticking =>
             /\ dhcp.state = "BOUND" => uptime - dhcp.start <= dhcp.t1
             /\ dhcp.state = "RENEWING" => uptime - dhcp.start < dhcp.t2
             /\ dhcp.state = "REBINDING" => uptime - dhcp.start < dhcp.expiry
        /\ ~dhcp.ticking =>
             /\ starting # "idle" /\ dhcp.state # "REBINDING"
             /\ dhcp.state = "BOUND" => uptime = dhcp.start /\ dhcp.message_type # 0
             /\ dhcp.state = "RENEWING" =>
                  /\ uptime - dhcp.start <= StartTimeout
                  /\ starting = "discover" => since <= dhcp.start

DhcpInv == DhcpTypes /\ RepliesOK /\ LeaseMatchesState /\ LeaseKept

AddressesInv == ArpInv /\ DhcpInv

\* The times of a lease that was accepted lie two ticks apart at least.
LEMMA LeaseTimes ==
    ASSUME NEW l \in Leases, Acceptable(l)
    PROVE  /\ l.t1 * DHCP_TICK_HZ \in Nat /\ l.t2 * DHCP_TICK_HZ \in Nat
           /\ l.lease * DHCP_TICK_HZ \in Nat
           /\ l.t1 * DHCP_TICK_HZ + 1 < l.t2 * DHCP_TICK_HZ
           /\ l.t2 * DHCP_TICK_HZ < l.lease * DHCP_TICK_HZ
           /\ StartTimeout < l.t2 * DHCP_TICK_HZ
<1>1. l.lease \in Nat /\ l.t1 \in Nat /\ l.t2 \in Nat
  BY DhcpAssumption
<1>2. l.t1 < l.t2 /\ l.t2 < l.lease
  BY <1>1 DEF Acceptable
<1>3. ASSUME NEW a \in Nat, NEW b \in Nat, NEW h \in Nat \ {0, 1}, a < b
      PROVE  a * h \in Nat /\ b * h \in Nat /\ a * h + 1 < b * h
  <2>1. PICK d \in Nat \ {0} : b = a + d
    <3>1. b - a \in Nat \ {0} /\ b = a + (b - a)
      BY <1>3
    <3>2. QED
      BY <3>1
  <2>2. b * h = a * h + d * h /\ d * h >= h
    BY <2>1
  <2>3. a * h \in Nat /\ b * h \in Nat /\ d * h \in Nat
    BY <2>1
  <2>4. QED
    BY <2>2, <2>3
<1>4. DHCP_TICK_HZ \in Nat \ {0, 1}
  BY DhcpAssumption
<1>5. QED
  BY <1>1, <1>2, <1>3, <1>4, DhcpAssumption

\* BeginStart keeps the invariant: the lease is no longer left to the tick.
LEMMA BeginStartStep ==
    ASSUME DhcpInv, BeginStart
    PROVE  DhcpInv'
<1> DEFINE d == [dhcp EXCEPT !.state = "SELECTING", !.done = FALSE, !.message_type = 0,
                             !.offer = NoAddress, !.listening = TRUE]
<1>1. DhcpTypes'
  <2>1. /\ uptime' = uptime /\ uptime \in Nat /\ since' \in 0 .. uptime /\ kept' = FALSE
        /\ starting = "idle"
    BY DEF BeginStart, DhcpInv, DhcpTypes
  <2>2. /\ DOMAIN d = DOMAIN dhcp /\ d.state = "SELECTING" /\ d.done = FALSE
        /\ d.message_type = 0 /\ d.offer = NoAddress /\ d.listening = TRUE
        /\ d.address = dhcp.address /\ d.start = dhcp.start /\ d.ticking = dhcp.ticking
        /\ d.t1 = dhcp.t1 /\ d.t2 = dhcp.t2 /\ d.expiry = dhcp.expiry
    BY DEF DhcpInv, DhcpTypes, ClientOK
  <2>3. \/ dhcp' = d /\ starting' = "discover"
        \/ dhcp' = Failed(d) /\ starting' = starting
        \/ dhcp' = [d EXCEPT !.listening = FALSE] /\ starting' = starting
    BY DEF BeginStart
  <2> HIDE DEF d
  <2>4. ClientOK(d, uptime)
    BY Zenon, <2>2 DEF DhcpInv, DhcpTypes, ClientOK, DhcpStates
  <2>5. CASE dhcp' = d /\ starting' = "discover"
    BY Zenon, <2>1, <2>4, <2>5 DEF DhcpInv, DhcpTypes, ClientOK
  <2>6. CASE dhcp' = Failed(d) /\ starting' = starting
    BY Zenon, <2>1, <2>4, <2>6 DEF DhcpInv, DhcpTypes, ClientOK, DhcpStates, Failed
  <2>7. CASE dhcp' = [d EXCEPT !.listening = FALSE] /\ starting' = starting
    BY Zenon, <2>1, <2>4, <2>7 DEF DhcpInv, DhcpTypes, ClientOK
  <2>8. QED
    BY <2>3, <2>5, <2>6, <2>7
<1>2. RepliesOK'
  BY DEF DhcpInv, RepliesOK, BeginStart, Offers, AtMostOne
<1>3. LeaseMatchesState'
  BY Zenon DEF DhcpInv, DhcpTypes, ClientOK, BeginStart, Failed, LeaseMatchesState
<1>4. LeaseKept'
  BY DEF BeginStart, LeaseKept
<1>5. QED
  BY <1>1, <1>2, <1>3, <1>4 DEF DhcpInv

\* What a request leaves alone, and the answers it may have.
LEMMA AskStep ==
    ASSUME DhcpInv, NEW address \in Addresses \union {NoAddress}, NEW state, NEW d,
           Ask(d, address, state)
    PROVE  RepliesOK'
  BY DEF DhcpInv, RepliesOK, Ask, Grants, AtMostOne

\* The end of the first wait.
LEMMA EndDiscoverStep ==
    ASSUME DhcpInv, EndDiscover
    PROVE  DhcpInv'
<1>1. CASE /\ dhcp.message_type = 2
           /\ Ask(dhcp, dhcp.offer, dhcp.state)
           /\ starting' = "request" /\ since' = uptime
           /\ UNCHANGED kept
  <2>1. DOMAIN dhcp' = DOMAIN dhcp /\ uptime' = uptime /\ \A f \in DOMAIN dhcp : dhcp'[f] = dhcp[f]
    BY <1>1 DEF Ask, DhcpInv, DhcpTypes, ClientOK, EndDiscover
  <2>2. DhcpTypes'
    BY <2>1, <1>1 DEF DhcpInv, DhcpTypes, ClientOK
  <2>3. RepliesOK'
    BY <1>1, AskStep DEF DhcpInv, DhcpTypes, ClientOK
  <2>4. LeaseMatchesState'
    BY <2>1 DEF DhcpInv, DhcpTypes, ClientOK, LeaseMatchesState
  <2>5. LeaseKept'
    BY <2>1, <1>1 DEF DhcpInv, DhcpTypes, ClientOK, LeaseKept, EndDiscover
  <2>6. QED
    BY <2>2, <2>3, <2>4, <2>5 DEF DhcpInv
<1>2. CASE /\ dhcp' = Failed(dhcp)
           /\ starting' = "idle" /\ kept' = FALSE
           /\ UNCHANGED <<since, replies>>
  <2>1. uptime' = uptime
    BY DEF EndDiscover
  <2>2. DhcpTypes'
    BY Zenon, <2>1, <1>2 DEF DhcpInv, DhcpTypes, ClientOK, Failed, DhcpStates
  <2>3. RepliesOK'
    BY <1>2 DEF DhcpInv, RepliesOK
  <2>4. LeaseMatchesState'
    BY <2>1, <1>2 DEF DhcpInv, DhcpTypes, ClientOK, LeaseMatchesState, Failed
  <2>5. LeaseKept'
    BY <1>2 DEF LeaseKept
  <2>6. QED
    BY <2>2, <2>3, <2>4, <2>5 DEF DhcpInv
<1>3. QED
  BY Zenon, <1>1, <1>2 DEF EndDiscover

\* The end of the second wait: the tick is installed while the lease is young.
LEMMA EndRequestStep ==
    ASSUME DhcpInv, EndRequest
    PROVE  DhcpInv'
<1>1. RepliesOK' /\ uptime' = uptime /\ since' = since /\ kept' = kept /\ starting' = "idle"
  BY DEF DhcpInv, RepliesOK, EndRequest
<1>2. CASE dhcp.done
  <2>1. dhcp' = [dhcp EXCEPT !.ticking = TRUE]
    BY <1>2 DEF EndRequest
  <2>2. DhcpTypes'
    BY <2>1, <1>1 DEF DhcpInv, DhcpTypes, ClientOK
  <2>3. LeaseMatchesState'
    BY <2>1, <1>1 DEF DhcpInv, DhcpTypes, ClientOK, LeaseMatchesState
  <2>4. LeaseKept'
    BY <2>1, <1>1, DhcpAssumption DEF DhcpInv, DhcpTypes, ClientOK, LeaseKept, EndRequest
  <2>5. QED
    BY <1>1, <2>2, <2>3, <2>4 DEF DhcpInv
<1>3. CASE ~dhcp.done
  <2>1. dhcp' = [dhcp EXCEPT !.listening = FALSE]
    BY <1>3 DEF EndRequest
  <2>2. DhcpTypes'
    BY <2>1, <1>1 DEF DhcpInv, DhcpTypes, ClientOK
  <2>3. LeaseMatchesState'
    BY <2>1, <1>1 DEF DhcpInv, DhcpTypes, ClientOK, LeaseMatchesState
  <2>4. kept = FALSE
    BY <1>3 DEF DhcpInv, DhcpTypes, ClientOK, LeaseKept, EndRequest
  <2>5. LeaseKept'
    BY <1>1, <2>4 DEF LeaseKept
  <2>6. QED
    BY <1>1, <2>2, <2>3, <2>5 DEF DhcpInv
<1>4. QED
  BY <1>2, <1>3

\* A message: an offer, or an acknowledgement that is applied or refused.
LEMMA ReceiveStep ==
    ASSUME DhcpInv, NEW m \in replies, dhcp_receive(m)
    PROVE  DhcpInv'
<1>1. RepliesOK' /\ uptime' = uptime /\ since' = since /\ starting' = starting
  BY DEF DhcpInv, RepliesOK, dhcp_receive
<1>2. m.address \in Addresses \ {NoAddress} /\ dhcp.listening
  BY DEF DhcpInv, RepliesOK, dhcp_receive
<1>3. CASE /\ m.type = 2 /\ dhcp.message_type = 0
           /\ dhcp' = [dhcp EXCEPT !.offer = m.address, !.message_type = 2]
           /\ UNCHANGED kept
  <2>1. DhcpTypes'
    BY Zenon, <1>1, <1>2, <1>3 DEF DhcpInv, DhcpTypes, ClientOK
  <2>2. LeaseMatchesState'
    BY <1>3 DEF DhcpInv, DhcpTypes, ClientOK, LeaseMatchesState
  <2>3. LeaseKept'
    BY <1>1, <1>3 DEF DhcpInv, DhcpTypes, ClientOK, LeaseKept
  <2>4. QED
    BY <1>1, <2>1, <2>2, <2>3 DEF DhcpInv
<1>4. CASE /\ m.type = 5 /\ Acceptable(m.lease)
           /\ dhcp' = [dhcp_apply_ack(dhcp, m) EXCEPT !.message_type = 5, !.done = TRUE]
           /\ kept' = (kept \/ Acceptable(m.lease))
  <2> DEFINE a == m.lease.t1 * DHCP_TICK_HZ
             b == m.lease.t2 * DHCP_TICK_HZ
             c == m.lease.lease * DHCP_TICK_HZ
  <2>1. dhcp' = [[dhcp EXCEPT !.start = uptime, !.t1 = a, !.t2 = b, !.expiry = c,
                              !.address = m.address, !.state = "BOUND"]
                   EXCEPT !.message_type = 5, !.done = TRUE]
    BY <1>4 DEF dhcp_apply_ack
  <2>2. a \in Nat /\ b \in Nat /\ c \in Nat /\ a + 1 < b /\ b < c /\ StartTimeout < b
    <3>1. m.lease \in Leases
      BY <1>4 DEF DhcpInv, RepliesOK
    <3>2. QED
      BY <3>1, <1>4, LeaseTimes, Zenon
  <2>3. kept' = TRUE
    BY Zenon, <1>4
  <2> HIDE DEF a, b, c
  <2>4. DhcpTypes'
    <3>1. /\ DOMAIN dhcp' = DOMAIN dhcp /\ dhcp'.state = "BOUND" /\ dhcp'.done = TRUE
          /\ dhcp'.message_type = 5 /\ dhcp'.offer = dhcp.offer /\ dhcp'.listening = dhcp.listening
          /\ dhcp'.address = m.address /\ dhcp'.start \in 0 .. uptime /\ dhcp'.ticking = dhcp.ticking
          /\ dhcp'.t1 = a /\ dhcp'.t2 = b /\ dhcp'.expiry = c
      BY <2>1 DEF DhcpInv, DhcpTypes, ClientOK
    <3>2. QED
      <4>1. ClientOK(dhcp', uptime)
        BY Zenon, <1>2, <2>2, <3>1 DEF DhcpInv, DhcpTypes, ClientOK, DhcpStates
      <4>2. QED
        BY <1>1, <1>2, <2>3, <3>1, <4>1 DEF DhcpInv, DhcpTypes
  <2>5. LeaseMatchesState'
    BY <1>2, <2>1, <2>2 DEF DhcpInv, DhcpTypes, ClientOK, LeaseMatchesState
  <2>6. LeaseKept'
    BY <1>1, <1>2, <2>1, <2>2, DhcpAssumption DEF DhcpInv, DhcpTypes, ClientOK, LeaseKept
  <2>7. QED
    BY <1>1, <2>4, <2>5, <2>6 DEF DhcpInv
<1>5. CASE /\ m.type = 5 /\ ~Acceptable(m.lease)
           /\ dhcp' = [dhcp_apply_ack(dhcp, m) EXCEPT !.message_type = 5, !.done = TRUE]
           /\ kept' = (kept \/ Acceptable(m.lease))
  <2>1. dhcp' = [dhcp EXCEPT !.message_type = 5, !.done = TRUE] /\ kept' = kept
    BY <1>5 DEF dhcp_apply_ack, DhcpInv, DhcpTypes, ClientOK
  <2>2. DhcpTypes'
    BY <1>1, <2>1 DEF DhcpInv, DhcpTypes, ClientOK
  <2>3. LeaseMatchesState'
    BY <2>1 DEF DhcpInv, DhcpTypes, ClientOK, LeaseMatchesState
  <2>4. LeaseKept'
    BY <1>1, <2>1 DEF DhcpInv, DhcpTypes, ClientOK, LeaseKept
  <2>5. QED
    BY <1>1, <2>2, <2>3, <2>4 DEF DhcpInv
<1>6. QED
  BY <1>3, <1>4, <1>5 DEF dhcp_receive

\* A lease renewed by hand: what was left to the tick stays so before t2.
LEMMA RenewStep ==
    ASSUME DhcpInv, dhcp_renew
    PROVE  DhcpInv'
<1>1. /\ uptime' = uptime /\ since' = since /\ starting' = starting
      /\ dhcp' = [[dhcp EXCEPT !.message_type = 0] EXCEPT !.state = "RENEWING"]
      /\ kept' = (kept /\ uptime - dhcp.start < dhcp.t2)
      /\ dhcp.address # NoAddress
  BY DEF dhcp_renew, Ask
<1>2. RepliesOK'
  BY AskStep DEF dhcp_renew, DhcpInv, DhcpTypes, ClientOK
<1>3. DhcpTypes'
  BY <1>1 DEF DhcpInv, DhcpTypes, ClientOK, DhcpStates
<1>4. LeaseMatchesState'
  BY <1>1 DEF DhcpInv, DhcpTypes, ClientOK, LeaseMatchesState
<1>5. LeaseKept'
  <2>1. SUFFICES ASSUME kept' PROVE LeaseKept'
    BY DEF LeaseKept
  <2>2. /\ dhcp'.state = "RENEWING" /\ dhcp'.done = dhcp.done /\ dhcp'.start = dhcp.start
        /\ dhcp'.ticking = dhcp.ticking /\ dhcp'.t1 = dhcp.t1 /\ dhcp'.t2 = dhcp.t2
        /\ dhcp'.expiry = dhcp.expiry
    BY <1>1 DEF DhcpInv, DhcpTypes, ClientOK
  <2>3. kept /\ uptime - dhcp.start < dhcp.t2
    BY Zenon, <1>1, <2>1
  <2>4. dhcp.state \in {"BOUND", "RENEWING", "REBINDING"}
    BY <1>1, <2>3 DEF DhcpInv, LeaseKept, LeaseMatchesState
  <2>5. QED
    BY <1>1, <2>2, <2>3, <2>4, DhcpAssumption DEF DhcpInv, DhcpTypes, ClientOK, LeaseKept
<1>6. QED
  BY <1>2, <1>3, <1>4, <1>5 DEF DhcpInv

\* A lease given back.
LEMMA ReleaseStep ==
    ASSUME DhcpInv, dhcp_release
    PROVE  DhcpInv'
<1>1. /\ uptime' = uptime /\ since' = since /\ starting' = starting /\ kept' = kept
      /\ dhcp' = [dhcp EXCEPT !.address = NoAddress, !.state = "INIT", !.expiry = 0]
  BY DEF dhcp_release
<1>2. RepliesOK'
  BY DEF dhcp_release, DhcpInv, RepliesOK
<1>3. DhcpTypes'
  BY <1>1 DEF DhcpInv, DhcpTypes, ClientOK, DhcpStates
<1>4. LeaseMatchesState'
  BY <1>1 DEF DhcpInv, DhcpTypes, ClientOK, LeaseMatchesState
<1>5. LeaseKept'
  BY <1>1 DEF DhcpInv, DhcpTypes, ClientOK, LeaseKept
<1>6. QED
  BY <1>2, <1>3, <1>4, <1>5 DEF DhcpInv

\* The tick: the lease passes from state to state before the time of each ends.
LEMMA DhcpTickStep ==
    ASSUME DhcpInv, DhcpTick
    PROVE  DhcpInv'
<1>1. /\ uptime' = uptime + 1 /\ since' = since /\ starting' = starting /\ kept' = kept
      /\ ~WaitEnded
  BY DEF DhcpTick
<1>2. uptime \in Nat /\ dhcp.start \in 0 .. uptime /\ Elapsed = (uptime + 1) - dhcp.start
  BY DEF DhcpInv, DhcpTypes, ClientOK, Elapsed
<1>3. CASE dhcp.ticking /\ dhcp.expiry # 0
  <2>1. CASE dhcp.state = "BOUND" /\ Elapsed >= dhcp.t1
    <3>1. Ask(dhcp, dhcp.address, "RENEWING")
      BY <1>3, <2>1 DEF DhcpTick, dhcp_tick
    <3>2. dhcp' = [dhcp EXCEPT !.state = "RENEWING"]
      BY <3>1 DEF Ask
    <3>3. RepliesOK'
      BY <3>1, AskStep DEF DhcpInv, DhcpTypes, ClientOK
    <3>4. DhcpTypes'
      BY <1>1, <3>2 DEF DhcpInv, DhcpTypes, ClientOK, DhcpStates
    <3>5. LeaseMatchesState'
      BY <3>2 DEF DhcpInv, DhcpTypes, ClientOK, LeaseMatchesState
    <3>6. LeaseKept'
      BY <1>1, <1>3, <2>1, <3>2 DEF DhcpInv, DhcpTypes, ClientOK, LeaseKept
    <3>7. QED
      BY <3>3, <3>4, <3>5, <3>6 DEF DhcpInv
  <2>2. CASE dhcp.state = "RENEWING" /\ Elapsed >= dhcp.t2
    <3>1. Ask(dhcp, dhcp.offer, "REBINDING")
      BY <1>3, <2>2 DEF DhcpTick, dhcp_tick
    <3>2. dhcp' = [dhcp EXCEPT !.state = "REBINDING"]
      BY <3>1 DEF Ask
    <3>3. RepliesOK'
      BY <3>1, AskStep DEF DhcpInv, DhcpTypes, ClientOK
    <3>4. DhcpTypes'
      BY <1>1, <3>2 DEF DhcpInv, DhcpTypes, ClientOK, DhcpStates
    <3>5. LeaseMatchesState'
      BY <3>2 DEF DhcpInv, DhcpTypes, ClientOK, LeaseMatchesState
    <3>6. LeaseKept'
      BY <1>1, <1>3, <2>2, <3>2 DEF DhcpInv, DhcpTypes, ClientOK, LeaseKept
    <3>7. QED
      BY <3>3, <3>4, <3>5, <3>6 DEF DhcpInv
  <2>3. CASE ~(dhcp.state = "BOUND" /\ Elapsed >= dhcp.t1)
             /\ ~(dhcp.state = "RENEWING" /\ Elapsed >= dhcp.t2) /\ Ends
    <3>1. /\ dhcp' = [dhcp EXCEPT !.address = NoAddress, !.state = "EXPIRED", !.expiry = 0]
          /\ replies' = replies
      BY <1>3, <2>3 DEF DhcpTick, dhcp_tick
    <3>2. RepliesOK'
      BY <3>1 DEF DhcpInv, RepliesOK
    <3>3. DhcpTypes'
      BY <1>1, <3>1 DEF DhcpInv, DhcpTypes, ClientOK, DhcpStates
    <3>4. LeaseMatchesState'
      BY <3>1 DEF DhcpInv, DhcpTypes, ClientOK, LeaseMatchesState
    <3>5. LeaseKept'
      BY <1>1, <1>3, <3>1 DEF DhcpInv, DhcpTypes, ClientOK, LeaseKept
    <3>6. QED
      BY <3>2, <3>3, <3>4, <3>5 DEF DhcpInv
  <2>4. CASE ~(dhcp.state = "BOUND" /\ Elapsed >= dhcp.t1)
             /\ ~(dhcp.state = "RENEWING" /\ Elapsed >= dhcp.t2) /\ ~Ends
    <3>1. dhcp' = dhcp /\ replies' = replies
      BY <1>3, <2>4 DEF DhcpTick, dhcp_tick
    <3>2. RepliesOK'
      BY <3>1 DEF DhcpInv, RepliesOK
    <3>3. DhcpTypes'
      BY <1>1, <3>1 DEF DhcpInv, DhcpTypes, ClientOK, DhcpStates
    <3>4. LeaseMatchesState'
      BY <3>1 DEF DhcpInv, LeaseMatchesState
    <3>5. LeaseKept'
      BY <1>1, <1>2, <1>3, <2>4, <3>1 DEF DhcpInv, DhcpTypes, ClientOK, LeaseKept, Ends, Renewing
    <3>6. QED
      BY <3>2, <3>3, <3>4, <3>5 DEF DhcpInv
  <2>5. QED
    BY <2>1, <2>2, <2>3, <2>4
<1>4. CASE ~(dhcp.ticking /\ dhcp.expiry # 0)
  <2>1. dhcp' = dhcp /\ replies' = replies
    BY <1>4 DEF DhcpTick
  <2>2. RepliesOK'
    BY <2>1 DEF DhcpInv, RepliesOK
  <2>3. DhcpTypes'
    BY <1>1, <2>1 DEF DhcpInv, DhcpTypes, ClientOK
  <2>4. LeaseMatchesState'
    BY <2>1 DEF DhcpInv, LeaseMatchesState
  <2>5. LeaseKept'
    BY <1>1, <1>2, <1>4, <2>1, DhcpAssumption DEF DhcpInv, DhcpTypes, ClientOK, LeaseKept, WaitEnded
  <2>6. QED
    BY <2>2, <2>3, <2>4, <2>5 DEF DhcpInv
<1>5. QED
  BY <1>3, <1>4

----------------------------------------------------------------------------
(* ARP: the list of requests. *)

\* The last request takes the place of one given up or answered.
LEMMA SwapOutIs ==
    ASSUME NEW S, NEW s \in Seq(S), NEW k \in 1 .. Len(s)
    PROVE  /\ SwapOut(s, k) \in Seq(S) /\ Len(SwapOut(s, k)) = Len(s) - 1
           /\ \A j \in 1 .. Len(s) - 1 :
                SwapOut(s, k)[j] = IF j = k THEN s[Len(s)] ELSE s[j]
<1> DEFINE f == [s EXCEPT ![k] = s[Len(s)]]
<1>1. f \in Seq(S) /\ Len(f) = Len(s) /\ Len(s) \in Nat \ {0}
  OBVIOUS
<1>2. \A j \in 1 .. Len(s) : f[j] = IF j = k THEN s[Len(s)] ELSE s[j]
  OBVIOUS
<1> HIDE DEF f
<1>3. Len(s) - 1 \in 0 .. Len(f)
  BY <1>1
<1>4. /\ SubSeq(f, 1, Len(s) - 1) \in Seq(S) /\ Len(SubSeq(f, 1, Len(s) - 1)) = Len(s) - 1
      /\ \A n \in 1 .. Len(s) - 1 : SubSeq(f, 1, Len(s) - 1)[n] = f[n]
  BY <1>1, <1>3, FrontPart, Zenon
<1>5. SwapOut(s, k) = SubSeq(f, 1, Len(s) - 1)
  BY DEF SwapOut, f
<1>6. \A j \in 1 .. Len(s) - 1 : j \in 1 .. Len(s)
  BY <1>1
<1>7. QED
  BY <1>2, <1>4, <1>5, <1>6, Zenon

\* Without one of its requests a list is a list still.
LEMMA ShorterList ==
    ASSUME NEW s, RequestList(s), NEW k \in 1 .. Len(s)
    PROVE  /\ RequestList(SwapOut(s, k)) /\ Len(SwapOut(s, k)) = Len(s) - 1
           /\ \A j \in 1 .. Len(s) - 1 :
                SwapOut(s, k)[j] = IF j = k THEN s[Len(s)] ELSE s[j]
<1>1. s \in Seq(Requests) /\ Len(s) \in Nat \ {0} /\ Len(s) <= CacheSize /\ CacheSize \in Nat
  BY ArpAssumption DEF RequestList
<1> DEFINE t == SwapOut(s, k)
<1>2. /\ t \in Seq(Requests) /\ Len(t) = Len(s) - 1
      /\ \A j \in 1 .. Len(s) - 1 : t[j] = IF j = k THEN s[Len(s)] ELSE s[j]
  BY <1>1, SwapOutIs
<1> HIDE DEF t
<1>3. ASSUME NEW i \in 1 .. Len(t), NEW j \in 1 .. Len(t), i # j
      PROVE  t[i].ip # t[j].ip
  <2>1. t[i] = (IF i = k THEN s[Len(s)] ELSE s[i]) /\ t[j] = (IF j = k THEN s[Len(s)] ELSE s[j])
    BY <1>2
  <2>2. i \in 1 .. Len(s) /\ j \in 1 .. Len(s) /\ i # Len(s) /\ j # Len(s) /\ Len(s) \in 1 .. Len(s)
    BY <1>1, <1>2
  <2>3. QED
    BY <2>1, <2>2, <1>3 DEF RequestList
<1>4. RequestList(t)
  BY <1>1, <1>2, <1>3 DEF RequestList
<1>5. QED
  BY <1>2, <1>4 DEF t

\* A request is put on the list, if there is room and none for the address.
LEMMA AwaitStep ==
    ASSUME ArpInv, NEW ip \in Ips
    PROVE  RequestList(Await(ip)) /\ Tended(Await(ip), arpTicks)
<1>1. CASE Await(ip) = arp_pending
  BY <1>1 DEF ArpInv
<1>2. CASE Await(ip) # arp_pending
  <2> DEFINE q == [ip |-> ip, start |-> arpTicks, retries |-> 0]
             n == Len(arp_pending)
  <2>1. /\ Await(ip) = Append(arp_pending, q) /\ ~ n >= CacheSize
        /\ \A k \in DOMAIN arp_pending : arp_pending[k].ip # ip
    BY <1>2 DEF Await
  <2>2. arp_pending \in Seq(Requests) /\ arpTicks \in Nat /\ n \in Nat /\ CacheSize \in Nat
    BY ArpAssumption DEF ArpInv, RequestList
  <2>3. q \in Requests /\ q.ip = ip /\ q.start = arpTicks
    BY <2>2, ArpAssumption DEF Requests
  <2> HIDE DEF q
  <2>4. /\ Await(ip) \in Seq(Requests) /\ Len(Await(ip)) = n + 1
        /\ \A k \in 1 .. n : Await(ip)[k] = arp_pending[k]
        /\ Await(ip)[n + 1] = q
    BY <2>1, <2>2, <2>3
  <2>5. \A k \in 1 .. n : arp_pending[k].ip # ip
    BY <2>1, <2>2
  <2>6. /\ \A k, j \in 1 .. n : k # j => arp_pending[k].ip # arp_pending[j].ip
        /\ \A k \in 1 .. n : arpTicks - arp_pending[k].start <= RequestTimeout
    BY DEF ArpInv, RequestList, Tended
  <2> DEFINE a == Await(ip)
  <2>7. \A k \in 1 .. n + 1 : k \in 1 .. n \/ k = n + 1
    BY <2>2
  <2> HIDE DEF a, n
  <2>8. \A k, j \in 1 .. n + 1 : k # j => a[k].ip # a[j].ip
    BY <2>3, <2>4, <2>5, <2>6, <2>7, ZenonT(60) DEF a
  <2>9. \A k \in 1 .. n + 1 : arpTicks - a[k].start <= RequestTimeout
    <3>1. arpTicks - q.start <= RequestTimeout
      BY <2>2, <2>3, ArpAssumption
    <3>2. QED
      BY <2>4, <2>6, <2>7, <3>1, Zenon DEF a
  <2>10. n + 1 <= CacheSize
    BY <2>1, <2>2 DEF n
  <2>11. QED
    BY <2>4, <2>8, <2>9, <2>10 DEF RequestList, Tended, a
<1>3. QED
  BY <1>1, <1>2

\* The loop of arp_poll after n turns, at place i of list s: the requests passed
\* are tended, and those ahead are fewer than the turns left.
PollOK(p, n) ==
    /\ RequestList(p[1]) /\ p[2] \in 1 .. Len(p[1]) + 1
    /\ \A k \in 1 .. Len(p[1]) : k < p[2] => arpTicks + 1 - p[1][k].start <= RequestTimeout
    /\ p[2] <= Len(p[1]) => Len(p[1]) + 1 - p[2] <= CacheSize - n

\* A request that may be repeated is one after it.
LEMMA RepeatedRequest ==
    ASSUME NEW q \in Requests, q.retries < ArpMaxRetries, arpTicks \in Nat
    PROVE  Repeated(q) \in Requests /\ Repeated(q).ip = q.ip /\ Repeated(q).start = arpTicks + 1
<1>1. q.ip \in Ips /\ q.retries + 1 \in 0 .. ArpMaxRetries /\ arpTicks + 1 \in Nat
  BY ArpAssumption DEF Requests
<1>2. QED
  BY <1>1 DEF Repeated, Requests

\* A turn of the loop passes a request, repeats it or gives it up.
LEMMA PollTurn ==
    ASSUME NEW p, NEW n \in Nat, PollOK(p, n), arpTicks \in Nat
    PROVE  PollOK(PollStep(p), n + 1)
<1> DEFINE s == p[1]
           i == p[2]
           l == Len(s)
<1>1. /\ RequestList(s) /\ s \in Seq(Requests) /\ l \in Nat /\ i \in 1 .. l + 1
      /\ l <= CacheSize /\ CacheSize \in Nat /\ RequestTimeout \in Nat /\ ArpMaxRetries \in Nat
      /\ \A k \in 1 .. l : k < i => arpTicks + 1 - s[k].start <= RequestTimeout
      /\ i <= l => l + 1 - i <= CacheSize - n
  BY ArpAssumption DEF PollOK, RequestList
<1>2. CASE i > l
  <2>1. PollStep(p) = p
    BY <1>2 DEF PollStep
  <2>2. QED
    BY <2>1, <1>1, <1>2 DEF PollOK
<1>3. CASE ~ i > l /\ arpTicks + 1 - s[i].start <= RequestTimeout
  <2>1. PollStep(p) = <<s, i + 1>>
    BY <1>3 DEF PollStep
  <2>2. <<s, i + 1>>[1] = s /\ <<s, i + 1>>[2] = i + 1
    OBVIOUS
  <2>3. i + 1 \in 1 .. l + 1 /\ (i + 1 <= l => l + 1 - (i + 1) <= CacheSize - (n + 1))
    <3> HIDE DEF i, l
    <3>1. QED
      BY <1>1, <1>3
  <2>4. \A k \in 1 .. l : k < i + 1 => arpTicks + 1 - s[k].start <= RequestTimeout
    <3>1. \A k \in 1 .. l : k < i + 1 => k < i \/ k = i
      BY <1>1
    <3> HIDE DEF i, l, s
    <3>2. QED
      BY <1>1, <1>3, <3>1, Zenon
  <2>5. QED
    BY <1>1, <2>1, <2>2, <2>3, <2>4, Zenon DEF PollOK
<1>4. CASE ~ i > l /\ ~ (arpTicks + 1 - s[i].start <= RequestTimeout) /\ s[i].retries < ArpMaxRetries
  <2> DEFINE q == Repeated(s[i])
             u == [s EXCEPT ![i] = q]
  <2>1. PollStep(p) = <<u, i + 1>>
    BY <1>4 DEF PollStep
  <2>2. <<u, i + 1>>[1] = u /\ <<u, i + 1>>[2] = i + 1
    OBVIOUS
  <2>3. i + 1 \in 1 .. l + 1 /\ (i + 1 <= l => l + 1 - (i + 1) <= CacheSize - (n + 1)) /\ i \in 1 .. l
    <3> HIDE DEF i, l
    <3>1. QED
      BY <1>1, <1>4
  <2>4. s[i] \in Requests
    <3>1. s \in Seq(Requests) /\ i \in 1 .. Len(s)
      BY <1>1, <2>3, Zenon
    <3> HIDE DEF s, i
    <3>2. QED
      BY <3>1
  <2>5. q \in Requests /\ q.ip = s[i].ip /\ q.start = arpTicks + 1
    BY <2>4, <1>4, RepeatedRequest
  <2> HIDE DEF q
  <2>6. u \in Seq(Requests) /\ Len(u) = l /\ \A k \in 1 .. l : u[k] = IF k = i THEN q ELSE s[k]
    <3> HIDE DEF i, s
    <3>1. QED
      BY SMTT(30), <1>1, <2>3, <2>5
  <2> HIDE DEF u
  <2>7. \A k, j \in 1 .. l : k # j => u[k].ip # u[j].ip
    <3>1. \A k, j \in 1 .. l : k # j => s[k].ip # s[j].ip
      BY <1>1 DEF RequestList
    <3>2. \A k \in 1 .. l : u[k].ip = s[k].ip
      BY <2>5, <2>6
    <3>3. QED
      BY <3>1, <3>2, Zenon
  <2>8. \A k \in 1 .. l : k < i + 1 => arpTicks + 1 - u[k].start <= RequestTimeout
    <3>1. \A k \in 1 .. l : k < i + 1 => k < i \/ k = i
      BY <1>1
    <3>2. arpTicks + 1 - q.start <= RequestTimeout
      BY <1>1, <2>5
    <3> HIDE DEF i, l, s
    <3>3. \A k \in 1 .. l : k = i => u[k] = q
      BY <2>6
    <3>4. \A k \in 1 .. l : k # i => u[k] = s[k]
      BY <2>6
    <3>5. ASSUME NEW k \in 1 .. l, k < i + 1 PROVE arpTicks + 1 - u[k].start <= RequestTimeout
      <4>1. CASE k = i
        BY <4>1, <3>2, <3>3, Zenon
      <4>2. CASE k # i
        <5>1. k < i
          BY <3>1, <3>5, <4>2, Zenon
        <5>2. arpTicks + 1 - s[k].start <= RequestTimeout
          BY <5>1, <1>1, Zenon
        <5>3. QED
          BY <5>2, <3>4, <4>2, Zenon
      <4>3. QED
        BY <4>1, <4>2
    <3>6. QED
      BY <3>5
  <2>9. RequestList(u)
    BY <1>1, <2>6, <2>7 DEF RequestList
  <2>10. PollOK(<<u, i + 1>>, n + 1)
    <3> HIDE DEF i, l, s
    <3>1. QED
      BY <2>2, <2>3, <2>6, <2>8, <2>9, Zenon DEF PollOK
  <2>11. QED
    BY <2>1, <2>10
<1>5. CASE ~ i > l /\ ~ (arpTicks + 1 - s[i].start <= RequestTimeout) /\ ~ s[i].retries < ArpMaxRetries
  <2> DEFINE u == SwapOut(s, i)
  <2>1. PollStep(p) = <<u, i>>
    BY <1>5 DEF PollStep
  <2>2. <<u, i>>[1] = u /\ <<u, i>>[2] = i
    OBVIOUS
  <2>3. i \in 1 .. l /\ i \in 1 .. (l - 1) + 1
        /\ (i <= l - 1 => (l - 1) + 1 - i <= CacheSize - (n + 1))
    <3> HIDE DEF i, l
    <3>1. QED
      BY <1>1, <1>5
  <2>4. /\ RequestList(u) /\ Len(u) = l - 1
        /\ \A j \in 1 .. l - 1 : u[j] = IF j = i THEN s[l] ELSE s[j]
    BY <1>1, <2>3, ShorterList, Zenon
  <2> HIDE DEF u, i, l, s
  <2>5. \A k \in 1 .. l - 1 : k < i => arpTicks + 1 - u[k].start <= RequestTimeout
    <3>1. ASSUME NEW k \in 1 .. l - 1, k < i PROVE u[k] = s[k] /\ k \in 1 .. l
      BY <3>1, <1>1, <2>4
    <3>2. QED
      BY <3>1, <1>1
  <2>6. PollOK(<<u, i>>, n + 1)
    BY <2>2, <2>3, <2>4, <2>5, Zenon DEF PollOK
  <2>7. QED
    BY <2>1, <2>6
<1>6. QED
  BY <1>2, <1>3, <1>4, <1>5

\* The values the loop passes through.
LEMMA PollValues ==
    \A n \in Nat : PollLoop[n] = IF n = 0 THEN <<arp_pending, 1>> ELSE PollStep(PollLoop[n - 1])
<1> DEFINE Turn(v, n) == PollStep(v)
<1>1. NatInductiveDefHypothesis(PollLoop, <<arp_pending, 1>>, Turn)
  BY DEF NatInductiveDefHypothesis, PollLoop
<1>2. NatInductiveDefConclusion(PollLoop, <<arp_pending, 1>>, Turn)
  BY Zenon, <1>1, NatInductiveDef
<1>3. QED
  BY <1>2 DEF NatInductiveDefConclusion

\* arp_poll leaves a list whose requests have not waited too long.
LEMMA PollTends ==
    ASSUME ArpInv
    PROVE  RequestList(arp_poll) /\ Tended(arp_poll, arpTicks + 1)
<1>1. arpTicks \in Nat /\ CacheSize \in Nat /\ RequestList(arp_pending)
  BY ArpAssumption DEF ArpInv
<1> DEFINE S == {n \in Nat : PollOK(PollLoop[n], n)}
<1>2. 0 \in S
  <2>1. PollLoop[0] = <<arp_pending, 1>>
    BY PollValues
  <2>2. <<arp_pending, 1>>[1] = arp_pending /\ <<arp_pending, 1>>[2] = 1
    OBVIOUS
  <2>3. Len(arp_pending) \in Nat /\ Len(arp_pending) <= CacheSize
    BY <1>1 DEF RequestList
  <2>4. PollOK(<<arp_pending, 1>>, 0)
    BY <1>1, <2>2, <2>3 DEF PollOK
  <2>5. QED
    BY <2>1, <2>4
<1>3. ASSUME NEW n \in 0 .. CacheSize - 1, n \in S PROVE n + 1 \in S
  <2>1. n \in Nat /\ n + 1 \in Nat /\ n + 1 # 0 /\ (n + 1) - 1 = n
    BY <1>1
  <2>2. PollLoop[n + 1] = PollStep(PollLoop[n])
    BY <2>1, PollValues
  <2>3. PollOK(PollStep(PollLoop[n]), n + 1)
    BY <1>1, <1>3, <2>1, PollTurn, Zenon
  <2>4. QED
    BY <2>1, <2>2, <2>3
<1>4. PollOK(PollLoop[CacheSize], CacheSize)
  <2> HIDE DEF S
  <2>1. \A n \in 0 .. CacheSize : n \in S
    BY <1>1, <1>2, <1>3, UpTo
  <2>2. CacheSize \in S
    BY <1>1, <2>1
  <2>3. QED
    BY <2>2 DEF S
<1> DEFINE s == PollLoop[CacheSize][1]
           i == PollLoop[CacheSize][2]
<1>5. /\ RequestList(s) /\ i \in 1 .. Len(s) + 1
      /\ \A k \in 1 .. Len(s) : k < i => arpTicks + 1 - s[k].start <= RequestTimeout
      /\ i <= Len(s) => Len(s) + 1 - i <= CacheSize - CacheSize
  BY <1>4, Zenon DEF PollOK
<1> HIDE DEF s, i
<1>6. \A k \in 1 .. Len(s) : k < i
  <2>1. Len(s) \in Nat
    BY <1>5 DEF RequestList
  <2>2. i = Len(s) + 1
    BY <1>1, <1>5, <2>1
  <2>3. QED
    BY <2>1, <2>2
<1>7. Tended(s, arpTicks + 1)
  <2>1. \A k \in 1 .. Len(s) : s[k] \in Requests
    BY <1>5 DEF RequestList
  <2>2. \A k \in 1 .. Len(s) : s[k].start \in Nat
    BY <2>1 DEF Requests
  <2>3. ASSUME NEW k \in 1 .. Len(s) PROVE (arpTicks + 1) - s[k].start <= RequestTimeout
    <3>1. arpTicks + 1 - s[k].start <= RequestTimeout /\ s[k].start \in Nat
      BY <1>5, <1>6, <2>2, Zenon
    <3>2. QED
      BY <3>1, <1>1
  <2>4. QED
    BY <2>3, Zenon DEF Tended
<1>8. QED
  BY <1>5, <1>7 DEF arp_poll, s

----------------------------------------------------------------------------
(* ARP: the steps. *)

\* The least element of a set of places is one.
LEMMA LeastPlace ==
    ASSUME NEW S, S \subseteq Nat, S # {}
    PROVE  LeastIn(S) \in S
<1>1. \E i \in S : \A j \in S : i <= j
  BY LeastNatural, Zenon
<1>2. QED
  BY <1>1, Zenon DEF LeastIn

\* arp_resolve gives what an announcement backs.
LEMMA ResolveStep ==
    ASSUME ArpInv, NEW ip \in Ips, arp_resolve(ip)
    PROVE  ArpInv'
<1>1. arpTicks' = arpTicks /\ announced' = announced /\ arpTicks \in Nat /\ CacheSize \in Nat
  BY ArpAssumption DEF arp_resolve, ArpInv
<1>2. arp_cache' = Pruned(ip)
  BY DEF arp_resolve
<1>3. /\ DOMAIN arp_cache' = Entries
      /\ \A i \in Entries : EntryOK(arp_cache[i])
  BY <1>2 DEF Pruned, ArpInv
<1>4. ASSUME NEW i \in Entries PROVE EntryOK(arp_cache[i])'
  <2>1. arp_cache'[i] = arp_cache[i] \/ arp_cache'[i] = [arp_cache[i] EXCEPT !.valid = FALSE]
    BY <1>2 DEF Pruned
  <2>2. CASE arp_cache'[i] = arp_cache[i]
    BY <2>2, <1>1, <1>3 DEF EntryOK, Backed
  <2>3. CASE arp_cache'[i] = [arp_cache[i] EXCEPT !.valid = FALSE]
    <3>1. arp_cache'[i].valid = FALSE /\ "valid" \in DOMAIN arp_cache'[i]
      BY <2>3, <1>3 DEF EntryOK
    <3>2. QED
      BY Zenon, <3>1 DEF EntryOK
  <2>4. QED
    BY <2>1, <2>2, <2>3
<1>5. CASE arp_cache_lookup(ip) # CacheSize
  <2> DEFINE i == arp_cache_lookup(ip)
  <2>1. answer' = [ip |-> ip, mac |-> arp_cache[i].mac] /\ arp_pending' = arp_pending
    BY <1>5 DEF arp_resolve
  <2>2. Live(ip) # {} /\ i = LeastIn(Live(ip))
    BY <1>5 DEF arp_cache_lookup
  <2>3. Live(ip) \subseteq Nat
    BY <1>1 DEF Live, Matches, Entries
  <2>4. i \in Live(ip)
    BY <2>2, <2>3, LeastPlace, Zenon
  <2> HIDE DEF i
  <2>5. i \in Entries /\ arp_cache[i].valid /\ arp_cache[i].ip = ip /\ arpTicks < arp_cache[i].expire
    BY <2>4 DEF Live, Matches
  <2>6. Backed(ip, arp_cache[i].mac, arp_cache[i].expire)
    <3>1. EntryOK(arp_cache[i])
      BY <1>3, <2>5
    <3>2. QED
      BY <3>1, <2>5 DEF EntryOK
  <2>7. PICK t \in 0 .. arpTicks : <<ip, arp_cache[i].mac, t>> \in announced
    BY <2>6 DEF Backed
  <2>8. AnswersAnnounced'
    <3> DEFINE a == <<ip, arp_cache[i].mac, t>>
    <3>1. a \in announced' /\ a[1] = answer'.ip /\ a[2] = answer'.mac
      BY <1>1, <2>1, <2>7
    <3>2. QED
      BY <3>1 DEF AnswersAnnounced
  <2>9. RequestList(arp_pending)' /\ Tended(arp_pending, arpTicks)'
    BY <1>1, <2>1 DEF ArpInv, RequestList, Tended
  <2>10. QED
    BY <1>1, <1>3, <1>4, <2>8, <2>9 DEF ArpInv
<1>6. CASE arp_cache_lookup(ip) = CacheSize
  <2>1. answer' = NoAnswer /\ arp_pending' = Await(ip)
    BY <1>6 DEF arp_resolve
  <2>2. RequestList(arp_pending)' /\ Tended(arp_pending, arpTicks)'
    BY <1>1, <2>1, AwaitStep
  <2>3. AnswersAnnounced'
    BY <2>1 DEF AnswersAnnounced, NoAnswer
  <2>4. QED
    BY <1>1, <1>3, <1>4, <2>2, <2>3 DEF ArpInv
<1>7. QED
  BY <1>5, <1>6

\* A reply is announced, and backs the entry made for it.
LEMMA InputStep ==
    ASSUME ArpInv, NEW ip \in Ips, NEW mac \in Macs, arp_input(ip, mac)
    PROVE  ArpInv'
<1>1. arpTicks' = arpTicks /\ arpTicks \in Nat /\ CacheSize \in Nat /\ Lifetime \in Nat
  BY ArpAssumption DEF arp_input, ArpInv
<1>2. announced' = {a \in announced : a[1] # ip \/ a[2] # mac} \union {<<ip, mac, arpTicks>>}
  BY DEF arp_input
<1>3. ASSUME NEW i, NEW m, NEW until \in Nat, Backed(i, m, until)
      PROVE  Backed(i, m, until)'
  <2>1. PICK t \in 0 .. arpTicks : <<i, m, t>> \in announced /\ until <= t + Lifetime
    BY <1>3 DEF Backed
  <2>2. <<i, m, t>>[1] = i /\ <<i, m, t>>[2] = m
    OBVIOUS
  <2>3. CASE i # ip \/ m # mac
    <3>1. <<i, m, t>> \in announced'
      BY <1>2, <2>1, <2>2, <2>3
    <3>2. QED
      BY <3>1, <2>1, <1>1 DEF Backed
  <2>4. CASE i = ip /\ m = mac
    <3>1. <<i, m, arpTicks>> \in announced'
      BY <1>2, <2>4
    <3>2. arpTicks \in 0 .. arpTicks /\ until <= arpTicks + Lifetime
      BY <1>1, <2>1
    <3>3. QED
      BY <3>1, <3>2, <1>1 DEF Backed
  <2>5. QED
    BY <2>3, <2>4
<1>4. ASSUME NEW e, EntryOK(e) PROVE EntryOK(e)'
  BY <1>1, <1>3, <1>4 DEF EntryOK
<1> DEFINE free == {i \in Entries : ~arp_cache[i].valid}
           made == [valid |-> TRUE, ip |-> ip, mac |-> mac, expire |-> arpTicks + Lifetime]
<1>5. EntryOK(made)'
  <2>1. <<ip, mac, arpTicks>> \in announced' /\ arpTicks \in 0 .. arpTicks'
    BY <1>1, <1>2
  <2>2. Backed(ip, mac, arpTicks + Lifetime)'
    BY <1>1, <2>1 DEF Backed
  <2>3. QED
    BY <1>1, <2>2 DEF EntryOK
<1>6. DOMAIN arp_cache' = Entries /\ \A i \in Entries : EntryOK(arp_cache[i])'
  <2>1. DOMAIN arp_cache = Entries /\ \A i \in Entries : EntryOK(arp_cache[i])
    BY DEF ArpInv
  <2>2. arp_cache' = IF free = {} THEN arp_cache ELSE [arp_cache EXCEPT ![LeastIn(free)] = made]
    BY DEF arp_input
  <2> HIDE DEF free, made
  <2>3. ASSUME NEW i \in Entries PROVE arp_cache'[i] = arp_cache[i] \/ arp_cache'[i] = made
    BY <2>1, <2>2
  <2>4. DOMAIN arp_cache' = Entries
    BY <2>1, <2>2
  <2>5. ASSUME NEW i \in Entries PROVE EntryOK(arp_cache[i])'
    <3>1. CASE arp_cache'[i] = arp_cache[i]
      <4>1. EntryOK(arp_cache[i])
        BY <2>1
      <4>2. QED
        BY <4>1, <3>1, <1>4 DEF EntryOK, Backed
    <3>2. CASE arp_cache'[i] = made
      BY <3>2, <1>1, <1>5 DEF EntryOK, Backed, made
    <3>3. QED
      BY <2>3, <3>1, <3>2
  <2>6. QED
    BY <2>4, <2>5
<1>7. RequestList(arp_pending)' /\ Tended(arp_pending, arpTicks)'
  <2>1. CASE FirstFor(ip) = {}
    <3>1. arp_pending' = arp_pending
      BY <2>1 DEF arp_input
    <3>2. QED
      BY <1>1, <3>1 DEF ArpInv, RequestList, Tended
  <2>2. CASE FirstFor(ip) # {}
    <3> DEFINE k == LeastIn(FirstFor(ip))
    <3>1. arp_pending' = SwapOut(arp_pending, k)
      BY <2>2 DEF arp_input
    <3>2. RequestList(arp_pending) /\ Tended(arp_pending, arpTicks)
      BY DEF ArpInv
    <3>3. Len(arp_pending) \in Nat /\ DOMAIN arp_pending = 1 .. Len(arp_pending)
      BY <3>2 DEF RequestList
    <3>4. k \in 1 .. Len(arp_pending)
      <4>1. FirstFor(ip) \subseteq Nat /\ FirstFor(ip) \subseteq 1 .. Len(arp_pending)
        BY <3>3 DEF FirstFor
      <4>2. QED
        BY <4>1, <2>2, LeastPlace, Zenon
    <3> HIDE DEF k
    <3>5. /\ RequestList(arp_pending') /\ Len(arp_pending') = Len(arp_pending) - 1
          /\ \A j \in 1 .. Len(arp_pending) - 1 :
               arp_pending'[j] = IF j = k THEN arp_pending[Len(arp_pending)] ELSE arp_pending[j]
      BY <3>1, <3>2, <3>4, ShorterList, Zenon
    <3>6. Tended(arp_pending', arpTicks)
      BY <3>2, <3>3, <3>4, <3>5 DEF Tended
    <3>7. QED
      BY <3>5, <3>6, <1>1 DEF RequestList, Tended
  <2>3. QED
    BY <2>1, <2>2
<1>8. AnswersAnnounced'
  BY DEF arp_input, AnswersAnnounced, NoAnswer
<1>9. QED
  BY <1>1, <1>6, <1>7, <1>8 DEF ArpInv

\* A flush leaves an empty cache and no requests.
LEMMA FlushStep ==
    ASSUME ArpInv, arp_cache_flush
    PROVE  ArpInv'
<1>1. arpTicks' = arpTicks /\ arpTicks \in Nat /\ arp_pending' = <<>> /\ CacheSize \in Nat
  BY ArpAssumption DEF arp_cache_flush, ArpInv
<1>2. arp_cache' = [i \in Entries |-> Invalid]
  BY DEF arp_cache_flush
<1>3. DOMAIN arp_cache' = Entries /\ \A i \in Entries : EntryOK(arp_cache[i])'
  BY Zenon, <1>2 DEF EntryOK, Invalid
<1>4. RequestList(arp_pending)' /\ Tended(arp_pending, arpTicks)'
  BY <1>1 DEF RequestList, Tended
<1>5. AnswersAnnounced'
  BY DEF arp_cache_flush, AnswersAnnounced, NoAnswer
<1>6. QED
  BY <1>1, <1>3, <1>4, <1>5 DEF ArpInv

\* At the tick only announcements that back no entry any more are forgotten.
LEMMA ArpTickStep ==
    ASSUME ArpInv, ArpTick
    PROVE  ArpInv'
<1>1. /\ arpTicks' = arpTicks + 1 /\ arpTicks \in Nat /\ Lifetime \in Nat
      /\ arp_cache' = arp_cache /\ arp_pending' = arp_poll
      /\ announced' = {a \in announced : arpTicks + 1 - a[3] < Lifetime}
  BY ArpAssumption DEF ArpTick, ArpInv
<1>2. RequestList(arp_pending)' /\ Tended(arp_pending, arpTicks)'
  BY <1>1, PollTends DEF RequestList, Tended
<1>3. ASSUME NEW e, EntryOK(e) PROVE EntryOK(e)'
  <2>1. CASE e.valid /\ arpTicks + 1 < e.expire
    <3>1. e.expire \in Nat /\ Backed(e.ip, e.mac, e.expire)
      BY <1>1, <1>3, <2>1 DEF EntryOK
    <3>2. PICK t \in 0 .. arpTicks : <<e.ip, e.mac, t>> \in announced /\ e.expire <= t + Lifetime
      BY <3>1 DEF Backed
    <3>3. <<e.ip, e.mac, t>>[3] = t /\ arpTicks + 1 - t < Lifetime /\ t \in 0 .. arpTicks + 1
      BY <1>1, <2>1, <3>1, <3>2
    <3>4. <<e.ip, e.mac, t>> \in announced'
      BY <1>1, <3>2, <3>3
    <3>5. Backed(e.ip, e.mac, e.expire)'
      BY Zenon, <1>1, <3>2, <3>3, <3>4 DEF Backed
    <3>6. QED
      BY <1>3, <3>5 DEF EntryOK
  <2>2. CASE ~(e.valid /\ arpTicks + 1 < e.expire)
    BY <1>1, <1>3, <2>2 DEF EntryOK
  <2>3. QED
    BY <2>1, <2>2
<1>4. DOMAIN arp_cache' = Entries /\ \A i \in Entries : EntryOK(arp_cache[i])'
  <2>1. DOMAIN arp_cache = Entries /\ \A i \in Entries : EntryOK(arp_cache[i])
    BY DEF ArpInv
  <2>2. QED
    BY <1>1, <1>3, <2>1 DEF EntryOK, Backed
<1>5. AnswersAnnounced'
  BY DEF ArpTick, AnswersAnnounced, NoAnswer
<1>6. QED
  BY <1>1, <1>2, <1>4, <1>5 DEF ArpInv

----------------------------------------------------------------------------
\* Every step of either keeps the invariant of both.
LEMMA AddressesStep ==
    AddressesInv /\ [AddressesNext(Ips \X Macs)]_<<arpVars, dhcpVars>> => AddressesInv'
<1>1. SUFFICES ASSUME AddressesInv, [AddressesNext(Ips \X Macs)]_<<arpVars, dhcpVars>>
               PROVE  AddressesInv'
  OBVIOUS
<1>2. ArpInv /\ DhcpInv
  BY <1>1 DEF AddressesInv
<1>3. ASSUME UNCHANGED arpVars PROVE ArpInv'
  BY Zenon, <1>2, <1>3 DEF arpVars, ArpInv, EntryOK, Backed, RequestList, Tended, AnswersAnnounced
<1>4. ASSUME UNCHANGED dhcpVars PROVE DhcpInv'
  BY <1>2, <1>4 DEF dhcpVars, DhcpInv, DhcpTypes, ClientOK, RepliesOK, LeaseMatchesState, LeaseKept
<1>5. ASSUME ArpNext(Ips \X Macs) PROVE ArpInv'
  <2>1. ASSUME NEW ip \in Ips, arp_resolve(ip) PROVE ArpInv'
    BY <2>1, <1>2, ResolveStep
  <2>2. ASSUME NEW h \in Ips \X Macs, arp_input(h[1], h[2]) PROVE ArpInv'
    <3>1. h[1] \in Ips /\ h[2] \in Macs
      OBVIOUS
    <3>2. QED
      BY <2>2, <3>1, <1>2, InputStep
  <2>3. QED
    BY <1>2, <1>5, <2>1, <2>2, FlushStep, ArpTickStep DEF ArpNext
<1>6. ASSUME DhcpNext PROVE DhcpInv'
  BY <1>2, <1>6, BeginStartStep, EndDiscoverStep, EndRequestStep, ReceiveStep, RenewStep,
     ReleaseStep, DhcpTickStep DEF DhcpNext
<1>7. QED
  BY <1>1, <1>3, <1>4, <1>5, <1>6 DEF AddressesNext, AddressesInv

\* The invariant holds of the tables as they are made.
LEMMA AddressesStart ==
    AddressesInit => AddressesInv
<1>1. SUFFICES ASSUME AddressesInit PROVE AddressesInv
  OBVIOUS
<1>2. ArpInv
  <2>1. arp_init /\ CacheSize \in Nat
    BY <1>1, ArpAssumption DEF AddressesInit
  <2>2. DOMAIN arp_cache = Entries /\ \A i \in Entries : EntryOK(arp_cache[i])
    BY Zenon, <2>1 DEF arp_init, EntryOK, Invalid
  <2>3. RequestList(arp_pending) /\ Tended(arp_pending, arpTicks)
    BY <2>1 DEF arp_init, RequestList, Tended
  <2>4. arpTicks \in Nat /\ AnswersAnnounced
    BY <2>1 DEF arp_init, AnswersAnnounced, NoAnswer
  <2>5. QED
    BY <2>2, <2>3, <2>4 DEF ArpInv
<1>3. DhcpInv
  <2>1. DhcpInit
    BY <1>1 DEF AddressesInit
  <2>2. DhcpTypes
    <3>1. /\ dhcp.start \in 0 .. 0 /\ dhcp.t1 \in Nat /\ dhcp.t2 \in Nat /\ dhcp.expiry \in Nat
          /\ dhcp.state \in DhcpStates /\ dhcp.message_type \in {0, 2, 5}
      BY <2>1 DEF DhcpInit, DhcpStates
    <3>2. ClientOK(dhcp, 0)
      BY <2>1, <3>1 DEF DhcpInit, ClientOK
    <3>3. 0 \in 0 .. 0
      OBVIOUS
    <3>4. QED
      BY Zenon, <2>1, <3>2, <3>3 DEF DhcpInit, DhcpTypes
  <2>3. RepliesOK /\ LeaseMatchesState /\ LeaseKept
    BY <2>1 DEF DhcpInit, RepliesOK, LeaseMatchesState, LeaseKept
  <2>4. QED
    BY <2>2, <2>3 DEF DhcpInv
<1>4. QED
  BY <1>2, <1>3 DEF AddressesInv

\* What the invariant says of requests, answers and leases.
LEMMA AddressesFollow ==
    AddressesInv => AddressesSound
<1>1. SUFFICES ASSUME ArpInv, DhcpInv PROVE ArpSound /\ LeaseSound
  BY DEF AddressesInv, AddressesSound
<1>2. ArpSound
  <2>1. /\ arp_pending \in Seq(Requests) /\ Len(arp_pending) <= CacheSize
        /\ DOMAIN arp_pending = 1 .. Len(arp_pending)
    BY <1>1 DEF ArpInv, RequestList
  <2>2. \A k \in DOMAIN arp_pending : arp_pending[k].retries \in 0 .. ArpMaxRetries
    <3>1. \A k \in DOMAIN arp_pending : arp_pending[k] \in Requests
      BY <2>1
    <3>2. QED
      BY <3>1 DEF Requests
  <2>3. ArpTypeOK
    BY <1>1, <2>1, <2>2 DEF ArpTypeOK, ArpInv, EntryOK
  <2>4. RequestsTended
    BY <1>1, <2>1 DEF RequestsTended, ArpInv, RequestList, Tended
  <2>5. QED
    BY <1>1, <2>3, <2>4 DEF ArpSound, ArpInv
<1>3. LeaseSound
  <2>1. DhcpTypeOK /\ LeaseMatchesState
    BY <1>1 DEF DhcpInv, DhcpTypes, ClientOK, DhcpTypeOK
  <2>2. LeaseHonoured
    BY <1>1 DEF DhcpInv, DhcpTypes, ClientOK, LeaseKept, LeaseHonoured, Renewing
  <2>3. QED
    BY <2>1, <2>2 DEF LeaseSound
<1>4. QED
  BY <1>2, <1>3

\* For every size of the cache, every timeout and every lease a server may give:
\* arp_poll leaves no request past its time, arp_resolve answers with what was
\* announced within an entry's lifetime, and no lease left to dhcp_tick is used
\* past its end (arp.c:59-83, 182-252; dhcp.c:94-205).
THEOREM AddressesRight == AddressesSpec => []AddressesSound
<1>1. AddressesInit => AddressesInv
  BY AddressesStart
<1>2. AddressesInv /\ [AddressesNext(Ips \X Macs)]_<<arpVars, dhcpVars>> => AddressesInv'
  BY AddressesStep
<1>3. AddressesInv => AddressesSound
  BY AddressesFollow
<1>4. QED
  BY <1>1, <1>2, <1>3, PTL DEF AddressesSpec
=============================================================================
