-------------------------------- MODULE Arp --------------------------------
(***************************************************************************)
(* Address resolution (kernel/net/arp.c): the cache, the list of requests  *)
(* that wait for an answer, and their repetition at the tick.  A reply may *)
(* come late, twice or never, and may name an address its host no longer   *)
(* has.                                                                    *)
(***************************************************************************)
EXTENDS Integers, Sequences

CONSTANTS Ips, Macs,
          CacheSize,        \* ARP_CACHE_SIZE
          RequestTimeout,   \* ARP_REQUEST_TIMEOUT_TICKS
          Lifetime,         \* ARP_CACHE_EXPIRE_TICKS
          ArpMaxRetries,    \* ARP_MAX_RETRIES
          MaxArpTicks

ASSUME ArpAssumption ==
    CacheSize \in Nat /\ RequestTimeout \in Nat /\ Lifetime \in Nat /\ ArpMaxRetries \in Nat

VARIABLES arp_cache, arp_pending, arpTicks,
          announced,  \* history: replies of the last Lifetime, since a flush
          answer      \* history: what arp_resolve gave, if it was the last step

arpVars == <<arp_cache, arp_pending, arpTicks, announced, answer>>

Entries == 0 .. CacheSize - 1
Invalid == [valid |-> FALSE, ip |-> 0, mac |-> 0, expire |-> 0]
NoAnswer == [ip |-> 0, mac |-> 0]

arp_init ==
    /\ arp_cache = [i \in Entries |-> Invalid]
    /\ arp_pending = <<>>
    /\ arpTicks = 0
    /\ announced = {}
    /\ answer = NoAnswer

----------------------------------------------------------------------------
LeastIn(S) == CHOOSE i \in S : \A j \in S : i <= j

Matches(ip) == {i \in Entries : arp_cache[i].valid /\ arp_cache[i].ip = ip}
Live(ip) == {i \in Matches(ip) : arpTicks < arp_cache[i].expire}

\* The first entry for ip that has not expired.
arp_cache_lookup(ip) == IF Live(ip) = {} THEN CacheSize ELSE LeastIn(Live(ip))

\* The expired entries the lookup passes are given up.
Pruned(ip) ==
    [i \in Entries |-> IF i \in Matches(ip) /\ i < arp_cache_lookup(ip)
                       THEN [arp_cache[i] EXCEPT !.valid = FALSE] ELSE arp_cache[i]]

\* The list with a request for ip on it, if there is room.
Await(ip) ==
    IF \/ \E k \in DOMAIN arp_pending : arp_pending[k].ip = ip
       \/ Len(arp_pending) >= CacheSize
    THEN arp_pending
    ELSE Append(arp_pending, [ip |-> ip, start |-> arpTicks, retries |-> 0])

arp_resolve(ip) ==
    LET i == arp_cache_lookup(ip) IN
    /\ arp_cache' = Pruned(ip)
    /\ IF i # CacheSize
       THEN /\ answer' = [ip |-> ip, mac |-> arp_cache[i].mac]
            /\ UNCHANGED arp_pending
       ELSE /\ arp_pending' = Await(ip)
            /\ answer' = NoAnswer
    /\ UNCHANGED <<arpTicks, announced>>

\* The last element takes the place of the k-th.
SwapOut(s, k) == SubSeq([s EXCEPT ![k] = s[Len(s)]], 1, Len(s) - 1)

FirstFor(ip) == {k \in DOMAIN arp_pending : arp_pending[k].ip = ip}

\* A reply: the first invalid entry takes it, a full cache does not.
arp_input(ip, mac) ==
    LET free == {i \in Entries : ~arp_cache[i].valid} IN
    /\ arp_cache' = IF free = {} THEN arp_cache
                    ELSE [arp_cache EXCEPT ![LeastIn(free)] =
                            [valid |-> TRUE, ip |-> ip, mac |-> mac,
                             expire |-> arpTicks + Lifetime]]
    /\ arp_pending' = IF FirstFor(ip) = {} THEN arp_pending
                      ELSE SwapOut(arp_pending, LeastIn(FirstFor(ip)))
    /\ announced' = {a \in announced : a[1] # ip \/ a[2] # mac}
                      \union {<<ip, mac, arpTicks>>}
    /\ answer' = NoAnswer
    /\ UNCHANGED arpTicks

arp_cache_flush ==
    /\ arp_cache' = [i \in Entries |-> Invalid]
    /\ arp_pending' = <<>>
    /\ announced' = {}
    /\ answer' = NoAnswer
    /\ UNCHANGED arpTicks

\* The request is sent once more.
Repeated(q) == [ip |-> q.ip, start |-> arpTicks + 1, retries |-> q.retries + 1]

\* The request moved into a place given up is passed over.
BugPollStep(p) ==
    LET s == p[1]  i == p[2] IN
    IF i > Len(s) THEN p
    ELSE IF arpTicks + 1 - s[i].start <= RequestTimeout THEN <<s, i + 1>>
    ELSE IF s[i].retries < ArpMaxRetries
         THEN <<[s EXCEPT ![i] = Repeated(s[i])], i + 1>>
         ELSE <<SwapOut(s, i), i + 1>>
\* One turn of the loop of arp_poll: list and index.
PollStep(p) ==
    LET s == p[1]  i == p[2] IN
    IF i > Len(s) THEN p
    ELSE IF arpTicks + 1 - s[i].start <= RequestTimeout THEN <<s, i + 1>>
    ELSE IF s[i].retries < ArpMaxRetries
         THEN <<[s EXCEPT ![i] = Repeated(s[i])], i + 1>>
         ELSE <<SwapOut(s, i), i>>

PollLoop[n \in Nat] == IF n = 0 THEN <<arp_pending, 1>> ELSE PollStep(PollLoop[n - 1])

\* Every turn passes a request or gives one up, and there are CacheSize at most.
arp_poll == PollLoop[CacheSize][1]

ArpTick ==
    /\ arpTicks < MaxArpTicks
    /\ arpTicks' = arpTicks + 1
    /\ arp_pending' = arp_poll
    /\ announced' = {a \in announced : arpTicks + 1 - a[3] < Lifetime}
    /\ answer' = NoAnswer
    /\ UNCHANGED arp_cache

\* hosts: the hosts that answer, with the addresses they announce.
ArpNext(hosts) ==
    \/ \E ip \in Ips : arp_resolve(ip)
    \/ \E h \in hosts : arp_input(h[1], h[2])
    \/ arp_cache_flush
    \/ ArpTick

----------------------------------------------------------------------------
\* Entries and requests are in range (arp.c:46-49).
ArpTypeOK ==
    /\ \A i \in Entries : arp_cache[i].valid =>
         arp_cache[i].ip \in Ips /\ arp_cache[i].mac \in Macs
    /\ Len(arp_pending) <= CacheSize
    /\ \A k \in DOMAIN arp_pending : arp_pending[k].retries \in 0 .. ArpMaxRetries

\* No request waits past its time: at every tick each is sent again or given
\* up, also those that move while others are given up (arp.c:233-252), and
\* there is one for an address at most.
RequestsTended ==
    /\ \A k \in DOMAIN arp_pending : arpTicks - arp_pending[k].start <= RequestTimeout
    /\ \A k, j \in DOMAIN arp_pending : k # j => arp_pending[k].ip # arp_pending[j].ip

\* The address arp_resolve gives was announced for that host, within the
\* lifetime of an entry and since the last flush (arp.c:59-83, 182-190).
AnswersAnnounced ==
    answer # NoAnswer =>
        \E a \in announced : a[1] = answer.ip /\ a[2] = answer.mac

\* Requests for addresses are tended until answered or given up, and answers are
\* what the hosts announced (arp.c:59-83, 182-252).
ArpSound == ArpTypeOK /\ RequestsTended /\ AnswersAnnounced
=============================================================================
