-------------------------- MODULE DhcpServerProofs --------------------------
(***************************************************************************)
(* For any subnet, any addresses the stations remember from elsewhere, any  *)
(* length of the socket and any number of faults: as long as the table of   *)
(* dhcp-server.c has an entry for every station, no two stations use one    *)
(* address, the table agrees with the stations, and what was offered is     *)
(* granted.  With more stations than entries this fails (DhcpFull.cfg).     *)
(***************************************************************************)
EXTENDS DhcpServer, SequenceTheorems, FiniteSetTheorems, WellFoundedInduction, TLAPS

\* Every station finds room in the table.
TableFits == IsFiniteSet(Macs) /\ Cardinality(Macs) <= MAC_IP_CACHE_SIZE

-----------------------------------------------------------------------------
(* Arithmetic                                                               *)

LEMMA HostsNat == Hosts \in Nat /\ Hosts >= 3 /\ MyIp \in Int
<1>1. HostBits \in Int /\ HostBits > 0
  BY DhcpAssumption
<1>2. /\ IsFiniteSet(1 .. HostBits)
      /\ Cardinality(1 .. HostBits) = IF 1 > HostBits THEN 0 ELSE HostBits - 1 + 1
  BY <1>1, FS_Interval
<1>3. Cardinality(1 .. HostBits) = HostBits
  BY <1>1, <1>2
<1>4. IsFiniteSet(SUBSET (1 .. HostBits)) /\ Cardinality(SUBSET (1 .. HostBits)) = Hosts
  BY <1>2, <1>3, FS_SUBSET DEF Hosts
<1>5. Hosts \in Nat
  BY <1>4, FS_CardinalityType
<1> QED
  BY <1>5, DhcpAssumption

\* The search stops at a host it may stop at.
LEMMA MinIn ==
    ASSUME NEW S, S \subseteq Nat, S # {}
    PROVE  Min(S) \in S
<1>1. PICK x \in S : \A y \in S : ~(<<y, x>> \in OpToRel(<, Nat))
  BY WFMin, NatLessThanWellFounded
<1>2. \A y \in S : x <= y
  <2> SUFFICES ASSUME NEW y \in S, ~(x <= y) PROVE FALSE
    OBVIOUS
  <2>1. x \in Nat /\ y \in Nat
    OBVIOUS
  <2>2. y < x
    BY <2>1
  <2>3. <<y, x>> \in OpToRel(<, Nat)
    BY <2>1, <2>2 DEF OpToRel
  <2> QED
    BY <1>1, <2>3
<1> QED
  BY <1>2 DEF Min

-----------------------------------------------------------------------------
(* The table                                                                *)

Usable == Ips \ {MyIp, 0, Hosts - 1}

\* One entry per station and per address.
GoodTable(tab) ==
    /\ tab \in Seq([mac : Macs, ip : Usable])
    /\ Len(tab) <= MAC_IP_CACHE_SIZE
    /\ \A i, j \in 1 .. Len(tab) :
         (tab[i].mac = tab[j].mac \/ tab[i].ip = tab[j].ip) => i = j

\* What was recorded stays recorded.
Keeps(tab, tab2) ==
    \A a \in Macs : ac_lookup_mac(tab, a) # NoIp
                      => ac_lookup_mac(tab2, a) = ac_lookup_mac(tab, a)

LEMMA UsableIps == /\ Usable \subseteq Int /\ NoIp \notin Usable /\ Usable \subseteq -1 .. Hosts
                   /\ Ips \subseteq -1 .. Hosts
BY HostsNat DEF Usable, Ips, NoIp

LEMMA Entry ==
    ASSUME NEW tab, GoodTable(tab)
    PROVE  /\ Len(tab) \in Nat
           /\ \A i \in 1 .. Len(tab) : tab[i].mac \in Macs /\ tab[i].ip \in Usable
<1>1. tab \in Seq([mac : Macs, ip : Usable])
  BY DEF GoodTable
<1>2. \A i \in 1 .. Len(tab) : tab[i] \in [mac : Macs, ip : Usable]
  BY <1>1, ElementOfSeq
<1> QED
  BY <1>1, <1>2

LEMMA LookupFound ==
    ASSUME NEW tab, GoodTable(tab), NEW i \in 1 .. Len(tab)
    PROVE  ac_lookup_mac(tab, tab[i].mac) = tab[i].ip
<1> DEFINE I == {k \in 1 .. Len(tab) : tab[k].mac = tab[i].mac}
<1>1. Len(tab) \in Nat /\ I \subseteq Nat /\ I # {}
  BY DEF GoodTable
<1>2. Min(I) \in I
  BY <1>1, MinIn
<1>3. Min(I) = i /\ Min(I) # 0
  BY <1>2 DEF GoodTable
<1>4. SelectInSeq(tab, LAMBDA e : e.mac = tab[i].mac) = Min(I)
  BY <1>1 DEF SelectInSeq
<1> QED
  BY <1>3, <1>4 DEF ac_lookup_mac

LEMMA LookupNone ==
    ASSUME NEW tab, NEW mac, \A i \in 1 .. Len(tab) : tab[i].mac # mac
    PROVE  ac_lookup_mac(tab, mac) = NoIp
BY DEF ac_lookup_mac, SelectInSeq

\* A station with a record has an entry, one without has none.
LEMMA LookupCases ==
    ASSUME NEW tab, GoodTable(tab), NEW mac
    PROVE  /\ ac_lookup_mac(tab, mac) # NoIp
                => \E i \in 1 .. Len(tab) : tab[i].mac = mac /\ tab[i].ip = ac_lookup_mac(tab, mac)
           /\ ac_lookup_mac(tab, mac) = NoIp => \A i \in 1 .. Len(tab) : tab[i].mac # mac
<1>1. CASE \E i \in 1 .. Len(tab) : tab[i].mac = mac
  <2>1. PICK i \in 1 .. Len(tab) : tab[i].mac = mac
    BY <1>1
  <2>2. ac_lookup_mac(tab, mac) = tab[i].ip
    BY <2>1, LookupFound
  <2>3. tab[i].ip \in Usable
    BY Entry
  <2> QED
    BY <2>1, <2>2, <2>3, UsableIps
<1>2. CASE \A i \in 1 .. Len(tab) : tab[i].mac # mac
  BY <1>2, LookupNone
<1> QED
  BY <1>1, <1>2

LEMMA LookupType ==
    ASSUME NEW tab, GoodTable(tab), NEW mac
    PROVE  ac_lookup_mac(tab, mac) \in Usable \cup {NoIp}
<1>1. \A i \in 1 .. Len(tab) : tab[i].ip \in Usable
  BY Entry
<1> QED
  BY <1>1, LookupCases

\* While a station has no entry there is room for one: the entries of the others are
\* as many different stations.
LEMMA Room ==
    ASSUME TableFits, NEW tab, GoodTable(tab), NEW mac \in Macs,
           \A i \in 1 .. Len(tab) : tab[i].mac # mac
    PROVE  Len(tab) < MAC_IP_CACHE_SIZE
<1> DEFINE f == [i \in 1 .. Len(tab) |-> tab[i].mac]
<1>1. Len(tab) \in Nat /\ \A i \in 1 .. Len(tab) : tab[i].mac \in Macs \ {mac}
  BY Entry
<1>2. f \in Injection(1 .. Len(tab), Macs \ {mac})
  BY <1>1 DEF GoodTable, Injection, IsInjective
<1>3. /\ IsFiniteSet(Macs \ {mac})
      /\ Cardinality(Macs \ {mac}) = Cardinality(Macs) - 1
      /\ Cardinality(Macs) \in Nat
  BY FS_RemoveElement, FS_CardinalityType DEF TableFits
<1>4. Cardinality(1 .. Len(tab)) <= Cardinality(Macs \ {mac})
  BY <1>2, <1>3, FS_Injection
<1>5. Cardinality(1 .. Len(tab)) = Len(tab)
  <2>1. Cardinality(1 .. Len(tab)) = IF 1 > Len(tab) THEN 0 ELSE Len(tab) - 1 + 1
    BY <1>1, FS_Interval
  <2> QED
    BY <1>1, <2>1
<1> QED
  BY <1>1, <1>3, <1>4, <1>5, DhcpAssumption DEF TableFits

\* Recording a usable address for a station without a record.
LEMMA AddGood ==
    ASSUME TableFits, NEW tab, GoodTable(tab), NEW mac \in Macs, NEW ip \in Ips,
           ac_valid_ip(tab, ip), ac_lookup_mac(tab, mac) = NoIp,
           NEW tab2, tab2 = ac_add(tab, mac, ip)
    PROVE  GoodTable(tab2) /\ Keeps(tab, tab2) /\ ac_lookup_mac(tab2, mac) = ip /\ ip \in Usable
<1> DEFINE e == [mac |-> mac, ip |-> ip]
<1>1. \A i \in 1 .. Len(tab) : tab[i].mac # mac /\ tab[i].ip # ip
  BY LookupCases DEF ac_valid_ip, ac_lookup_ip
<1>2. tab2 = Append(tab, e)
  BY <1>1, Room DEF ac_add, ac_not_full
<1>3. e \in [mac : Macs, ip : Usable] /\ ip \in Usable
  BY DEF ac_valid_ip, Usable
<1>4. /\ tab \in Seq([mac : Macs, ip : Usable]) /\ Len(tab) \in Nat
      /\ tab2 \in Seq([mac : Macs, ip : Usable]) /\ Len(tab2) = Len(tab) + 1
      /\ tab2[Len(tab) + 1] = e /\ \A i \in 1 .. Len(tab) : tab2[i] = tab[i]
  BY <1>2, <1>3, AppendProperties DEF GoodTable
<1>5. Len(tab2) <= MAC_IP_CACHE_SIZE
  <2>1. Len(tab) < MAC_IP_CACHE_SIZE /\ MAC_IP_CACHE_SIZE \in Nat
    BY <1>1, Room, DhcpAssumption
  <2> QED
    BY <1>4, <2>1
<1>6. \A i, j \in 1 .. Len(tab2) :
        (tab2[i].mac = tab2[j].mac \/ tab2[i].ip = tab2[j].ip) => i = j
  <2> SUFFICES ASSUME NEW i \in 1 .. Len(tab2), NEW j \in 1 .. Len(tab2),
                      tab2[i].mac = tab2[j].mac \/ tab2[i].ip = tab2[j].ip
               PROVE  i = j
    OBVIOUS
  <2>1. e.mac = mac /\ e.ip = ip
    OBVIOUS
  <2> HIDE DEF e
  <2>2. CASE i \in 1 .. Len(tab) /\ j \in 1 .. Len(tab)
    BY <1>4, <2>2 DEF GoodTable
  <2>3. CASE i = Len(tab) + 1 /\ j \in 1 .. Len(tab)
    BY <1>1, <1>4, <2>1, <2>3
  <2>4. CASE j = Len(tab) + 1 /\ i \in 1 .. Len(tab)
    BY <1>1, <1>4, <2>1, <2>4
  <2> QED
    BY <1>4, <2>2, <2>3, <2>4
<1>7. GoodTable(tab2)
  BY <1>4, <1>5, <1>6 DEF GoodTable
<1>8. ac_lookup_mac(tab2, mac) = ip
  <2>1. Len(tab) + 1 \in 1 .. Len(tab2)
    BY <1>4
  <2>2. ac_lookup_mac(tab2, tab2[Len(tab) + 1].mac) = tab2[Len(tab) + 1].ip
    BY <1>7, <2>1, LookupFound
  <2> QED
    BY <1>4, <2>2
<1>9. Keeps(tab, tab2)
  <2> SUFFICES ASSUME NEW a \in Macs, ac_lookup_mac(tab, a) # NoIp
               PROVE  ac_lookup_mac(tab2, a) = ac_lookup_mac(tab, a)
    BY DEF Keeps
  <2>1. PICK i \in 1 .. Len(tab) : tab[i].mac = a /\ tab[i].ip = ac_lookup_mac(tab, a)
    BY LookupCases
  <2>2. i \in 1 .. Len(tab2) /\ tab2[i] = tab[i]
    BY <1>4
  <2> QED
    BY <1>7, <2>1, <2>2, LookupFound
<1> QED
  BY <1>3, <1>7, <1>8, <1>9

LEMMA KeepsTrans ==
    ASSUME NEW t1, NEW t2, NEW t3, Keeps(t1, t2), Keeps(t2, t3)
    PROVE  Keeps(t1, t3)
BY DEF Keeps

-----------------------------------------------------------------------------
(* The handler of a message                                                 *)

Named == -1 .. Hosts

Requests == [mac : Macs, type : {"discover", "request"}, ciaddr : Named, reqip : Named,
             live : BOOLEAN]

Replies == [mac : Macs, type : {"offer", "ack", "nak"}, ip : Named]

\* The options of a message.
LEMMA OptionsRecorded ==
    ASSUME TableFits, NEW tab, GoodTable(tab), NEW m \in Requests,
           NEW tab2, tab2 = Recorded(tab, m)
    PROVE  /\ GoodTable(tab2) /\ Keeps(tab, tab2)
           /\ GotIp(tab, m) => /\ ac_lookup_mac(tab2, m.mac) = ClientIp(m)
                               /\ ClientIp(m) \in Usable
<1>1. CASE GotIp(tab, m) /\ ac_lookup_mac(tab, m.mac) = NoIp
  <2>1. ClientIp(m) \in Ips /\ ac_valid_ip(tab, ClientIp(m)) /\ m.mac \in Macs
    BY <1>1 DEF GotIp, Requests
  <2>2. tab2 = ac_add(tab, m.mac, ClientIp(m))
    BY <1>1 DEF Recorded
  <2> QED
    BY <1>1, <2>1, <2>2, AddGood
<1>2. CASE ~GotIp(tab, m)
  BY <1>2 DEF Recorded, Keeps
<1>3. CASE GotIp(tab, m) /\ ac_lookup_mac(tab, m.mac) # NoIp
  <2>1. tab2 = tab /\ ac_lookup_mac(tab, m.mac) = ClientIp(m)
    BY <1>3 DEF Recorded, GotIp
  <2> QED
    BY <1>3, <2>1, LookupType DEF Keeps
<1> QED
  BY <1>1, <1>2, <1>3

\* The address the search of next_yiaddr stops at.
LEMMA NextFree ==
    ASSUME NEW tab, NEW cur \in Ips, Distances(tab, cur) # {},
           NEW ip, ip = (cur + Min(Distances(tab, cur))) % Hosts
    PROVE  ip \in Ips /\ ac_valid_ip(tab, ip)
<1> DEFINE ks == Distances(tab, cur)
<1>1. ks \subseteq 1 .. Hosts /\ \A k \in ks : ac_valid_ip(tab, (cur + k) % Hosts)
  BY DEF Distances
<1> HIDE DEF ks
<1>2. ks \subseteq Nat
  BY <1>1, HostsNat
<1>3. Min(ks) \in ks
  BY <1>2, MinIn DEF ks
<1>4. Min(ks) \in Int /\ cur \in Int
  <2>1. Min(ks) \in Nat
    BY <1>2, <1>3
  <2>2. cur \in Int
    BY HostsNat DEF Ips
  <2> QED
    BY <2>1, <2>2
<1>5. \A n \in Int : n % Hosts \in 0 .. Hosts - 1
  BY HostsNat
<1> QED
  BY <1>1, <1>3, <1>4, <1>5 DEF ks, Ips

\* The address of an offer.
LEMMA OfferRecorded ==
    ASSUME TableFits, NEW tab, GoodTable(tab), NEW mac \in Macs, NEW cur \in Ips,
           NEW y, y = next_yiaddr(tab, cur, mac)
    PROVE  /\ GoodTable(y.tab) /\ Keeps(tab, y.tab) /\ y.cur \in Ips /\ y.stops \in BOOLEAN
           /\ y.stops => ac_lookup_mac(y.tab, mac) = y.ip /\ y.ip \in Usable
<1> DEFINE known == ac_lookup_mac(tab, mac)
           ks == Distances(tab, cur)
           ip == (cur + Min(ks)) % Hosts
<1> HIDE DEF known, ks, ip
<1>1. y = IF known # NoIp THEN [ip |-> known, cur |-> cur, tab |-> tab, stops |-> TRUE]
          ELSE IF ks # {} THEN [ip |-> ip, cur |-> ip, tab |-> ac_add(tab, mac, ip), stops |-> TRUE]
          ELSE [ip |-> NoIp, cur |-> cur, tab |-> tab, stops |-> FALSE]
  BY DEF next_yiaddr, known, ks, ip
<1>2. CASE known # NoIp
  <2>1. y = [ip |-> known, cur |-> cur, tab |-> tab, stops |-> TRUE]
    BY <1>1, <1>2
  <2> QED
    BY <1>2, <2>1, LookupType DEF Keeps, known
<1>3. CASE known = NoIp /\ ks # {}
  <2>1. y = [ip |-> ip, cur |-> ip, tab |-> ac_add(tab, mac, ip), stops |-> TRUE]
    BY <1>1, <1>3
  <2>2. ip \in Ips /\ ac_valid_ip(tab, ip)
    BY <1>3, NextFree DEF ks, ip
  <2>3. ac_lookup_mac(tab, mac) = NoIp
    BY <1>3 DEF known
  <2> QED
    BY <2>1, <2>2, <2>3, AddGood
<1>4. CASE known = NoIp /\ ks = {}
  <2>1. y = [ip |-> NoIp, cur |-> cur, tab |-> tab, stops |-> FALSE]
    BY <1>1, <1>4
  <2> QED
    BY <2>1 DEF Keeps
<1> QED
  BY <1>2, <1>3, <1>4

\* What an answer promises is what the table then holds; a station is refused only what
\* it may not have.
Honest(r, m, tab, tab2) ==
    /\ m.live /\ r \in Replies /\ r.mac = m.mac
    /\ r.type \in {"offer", "ack"} => r.ip = ac_lookup_mac(tab2, r.mac) /\ r.ip # NoIp
    /\ r.type = "nak" => m.type = "request" /\ ~GotIp(tab, m)

LEMMA Handled ==
    ASSUME TableFits, GoodTable(ip_mac_mapping), current_ip \in Ips, looping \in BOOLEAN,
           sock \in Seq(Requests), ProcessDhcpMessage
    PROVE  /\ GoodTable(ip_mac_mapping') /\ Keeps(ip_mac_mapping, ip_mac_mapping')
           /\ current_ip' \in Ips /\ looping' \in BOOLEAN
           /\ sock # <<>> /\ sock' = Tail(sock) /\ UNCHANGED <<station, faults>>
           /\ \A r \in air' : r \in air \/ Honest(r, Head(sock), ip_mac_mapping, ip_mac_mapping')
<1> DEFINE m == Head(sock)
           tab == Recorded(ip_mac_mapping, m)
<1>1. m \in Requests /\ sock # <<>> /\ sock' = Tail(sock) /\ UNCHANGED <<station, faults>>
  BY DEF ProcessDhcpMessage
<1> DEFINE answer(type, ip) == IF m.live THEN {make_response(m, type, ip)} ELSE {}
<1>2. \/ /\ m.type = "discover"
         /\ \E y \in {next_yiaddr(tab, current_ip, m.mac)} :
              /\ ip_mac_mapping' = y.tab /\ current_ip' = y.cur /\ looping' = ~y.stops
              /\ air' = air \union IF y.stops THEN answer("offer", y.ip) ELSE {}
      \/ /\ m.type = "request" /\ GotIp(ip_mac_mapping, m)
         /\ air' = air \union answer("ack", ClientIp(m))
         /\ ip_mac_mapping' = tab /\ UNCHANGED <<current_ip, looping>>
      \/ /\ m.type = "request" /\ ~GotIp(ip_mac_mapping, m)
         /\ air' = air \union answer("nak", NoIp)
         /\ ip_mac_mapping' = tab /\ UNCHANGED <<current_ip, looping>>
  BY DEF ProcessDhcpMessage
<1>3. /\ GoodTable(tab) /\ Keeps(ip_mac_mapping, tab)
      /\ GotIp(ip_mac_mapping, m) => /\ ac_lookup_mac(tab, m.mac) = ClientIp(m)
                                     /\ ClientIp(m) \in Usable
  BY <1>1, OptionsRecorded
<1> HIDE DEF m, tab
<1>4. m.mac \in Macs
  BY <1>1 DEF Requests
<1>5. CASE m.type = "discover"
  <2>1. PICK y : /\ y = next_yiaddr(tab, current_ip, m.mac)
                 /\ ip_mac_mapping' = y.tab /\ current_ip' = y.cur /\ looping' = ~y.stops
                 /\ air' = air \union IF y.stops THEN answer("offer", y.ip) ELSE {}
    BY <1>2, <1>5
  <2>2. /\ GoodTable(y.tab) /\ Keeps(tab, y.tab) /\ y.cur \in Ips /\ y.stops \in BOOLEAN
        /\ y.stops => ac_lookup_mac(y.tab, m.mac) = y.ip /\ y.ip \in Usable
    BY <1>3, <1>4, <2>1, OfferRecorded
  <2>3. Keeps(ip_mac_mapping, y.tab)
    BY <1>3, <2>2, KeepsTrans
  <2>4. \A r \in air' : r \in air \/ Honest(r, m, ip_mac_mapping, ip_mac_mapping')
    <3> SUFFICES ASSUME NEW r \in air', r \notin air
                 PROVE  Honest(r, m, ip_mac_mapping, ip_mac_mapping')
      OBVIOUS
    <3>1. y.stops /\ m.live /\ r = [mac |-> m.mac, type |-> "offer", ip |-> y.ip]
      BY <2>1 DEF make_response
    <3>2. y.ip \in Named /\ y.ip # NoIp
      BY <2>2, <3>1, UsableIps DEF Named
    <3> QED
      BY <1>4, <2>1, <2>2, <3>1, <3>2 DEF Honest, Replies
  <2> QED
    BY <1>1, <2>1, <2>2, <2>3, <2>4 DEF m
<1>6. CASE m.type = "request"
  <2>1. ip_mac_mapping' = tab /\ UNCHANGED <<current_ip, looping>>
    BY <1>2, <1>6
  <2>2. \A r \in air' : r \in air \/ Honest(r, m, ip_mac_mapping, ip_mac_mapping')
    <3> SUFFICES ASSUME NEW r \in air', r \notin air
                 PROVE  Honest(r, m, ip_mac_mapping, ip_mac_mapping')
      OBVIOUS
    <3>1. CASE GotIp(ip_mac_mapping, m)
      <4>1. m.live /\ r = [mac |-> m.mac, type |-> "ack", ip |-> ClientIp(m)]
        BY <1>2, <1>6, <3>1 DEF make_response
      <4>2. ClientIp(m) \in Named /\ ClientIp(m) # NoIp
        BY <1>3, <3>1, UsableIps DEF Named
      <4> QED
        BY <1>3, <1>4, <2>1, <3>1, <4>1, <4>2 DEF Honest, Replies
    <3>2. CASE ~GotIp(ip_mac_mapping, m)
      <4>1. m.live /\ r = [mac |-> m.mac, type |-> "nak", ip |-> NoIp]
        BY <1>2, <1>6, <3>2 DEF make_response
      <4>2. NoIp \in Named
        BY HostsNat DEF Named, NoIp
      <4> QED
        BY <1>4, <1>6, <3>2, <4>1, <4>2 DEF Honest, Replies
    <3> QED
      BY <3>1, <3>2
  <2> QED
    BY <1>1, <1>3, <2>1, <2>2 DEF m
<1> QED
  BY <1>1, <1>5, <1>6 DEF Requests

-----------------------------------------------------------------------------
(* The socket                                                               *)

LEMMA Enqueued ==
    ASSUME NEW q \in Seq(Requests), Len(q) <= SockLen, NEW m \in Requests, Enqueue(q, m)
    PROVE  /\ sock' \in Seq(Requests) /\ Len(sock') <= SockLen
           /\ \A i \in 1 .. Len(sock') : sock'[i] = m \/ \E j \in 1 .. Len(q) : sock'[i] = q[j]
<1>1. CASE Len(q) < SockLen
  <2>1. sock' = Append(q, m)
    BY <1>1 DEF Enqueue
  <2>2. /\ sock' \in Seq(Requests) /\ Len(q) \in Nat /\ Len(sock') = Len(q) + 1
        /\ sock'[Len(q) + 1] = m /\ \A i \in 1 .. Len(q) : sock'[i] = q[i]
    BY <2>1, AppendProperties
  <2>3. SockLen \in Nat
    BY DhcpAssumption
  <2>4. \A i \in 1 .. Len(sock') : i = Len(q) + 1 \/ i \in 1 .. Len(q)
    BY <2>2
  <2> QED
    BY <1>1, <2>2, <2>3, <2>4
<1>2. CASE ~(Len(q) < SockLen)
  BY <1>2 DEF Enqueue
<1> QED
  BY <1>1, <1>2

LEMMA Voided ==
    ASSUME sock \in Seq(Requests), NEW mac
    PROVE  /\ Void(mac) \in Seq(Requests) /\ Len(Void(mac)) = Len(sock)
           /\ \A i \in 1 .. Len(sock) :
                Void(mac)[i].live => Void(mac)[i] = sock[i] /\ sock[i].mac # mac
<1>1. Len(sock) \in Nat /\ \A i \in 1 .. Len(sock) : sock[i] \in Requests
  BY ElementOfSeq
<1>2. \A i \in 1 .. Len(sock) : Void(mac)[i] \in Requests
  BY <1>1 DEF Void, Requests
<1>3. \A i \in 1 .. Len(sock) :
        Void(mac)[i].live => Void(mac)[i] = sock[i] /\ sock[i].mac # mac
  BY <1>1 DEF Void, Requests
<1>4. Void(mac) \in [1 .. Len(sock) -> Requests]
  BY <1>2 DEF Void
<1> QED
  BY <1>1, <1>3, <1>4

\* Handling or losing the first message leaves the others.
LEMMA Shifted ==
    ASSUME sock \in Seq(Requests), Len(sock) <= SockLen, sock # <<>>, sock' = Tail(sock)
    PROVE  /\ sock' \in Seq(Requests) /\ Len(sock') <= SockLen
           /\ \A i \in 1 .. Len(sock') : \E j \in 1 .. Len(sock) : sock'[i] = sock[j]
<1>1. /\ sock' \in Seq(Requests) /\ Len(sock) \in Nat /\ Len(sock') = Len(sock) - 1
      /\ \A i \in 1 .. Len(sock') : sock'[i] = sock[i + 1]
  BY HeadTailProperties
<1>2. \A i \in 1 .. Len(sock') : i + 1 \in 1 .. Len(sock)
  BY <1>1
<1> QED
  BY <1>1, <1>2, DhcpAssumption

-----------------------------------------------------------------------------
(* Types                                                                    *)

PlainTable(tab) == tab \in Seq([mac : Macs, ip : Ips]) /\ Len(tab) <= MAC_IP_CACHE_SIZE

Typed ==
    /\ sock \in Seq(Requests) /\ Len(sock) <= SockLen
    /\ air \subseteq Replies
    /\ station \in [Macs -> [st : StationStates, ip : Named]]
    /\ current_ip \in Ips /\ looping \in BOOLEAN /\ faults \in 0 .. MaxFaults
    /\ PlainTable(ip_mac_mapping)

LEMMA TypedInit == Init => Typed
<1> SUFFICES ASSUME Init PROVE Typed
  OBVIOUS
<1>1. current_ip \in Ips
  BY HostsNat DEF Init, FirstCurrent, Ips
<1>2. station \in [Macs -> [st : StationStates, ip : Named]]
  BY DhcpAssumption DEF Init, StationStates, Named
<1>3. PlainTable(ip_mac_mapping)
  BY DhcpAssumption DEF Init, PlainTable
<1>4. sock \in Seq(Requests) /\ Len(sock) <= SockLen /\ faults \in 0 .. MaxFaults
  BY DhcpAssumption DEF Init
<1> QED
  BY <1>1, <1>2, <1>3, <1>4 DEF Init, Typed

\* What a message of a station looks like, and what becomes of the socket.
LEMMA MsgType ==
    ASSUME NEW mac \in Macs, NEW type \in {"discover", "request"}, NEW c \in Named,
           NEW q \in Named
    PROVE  Msg(mac, type, c, q) \in Requests
BY DEF Msg, Requests

LEMMA StationType ==
    ASSUME Typed, NEW mac \in Macs, NEW st \in StationStates, NEW ip \in Named,
           StationTo(mac, st, ip)
    PROVE  /\ station' \in [Macs -> [st : StationStates, ip : Named]]
           /\ station'[mac].st = st /\ station'[mac].ip = ip
           /\ \A a \in Macs : a # mac => station'[a] = station[a]
BY DEF Typed, StationTo

LEMMA TypedStation ==
    ASSUME Typed, NEW mac \in Macs
    PROVE  station[mac].st \in StationStates /\ station[mac].ip \in Named /\ NoIp \in Named
BY HostsNat DEF Typed, Named, NoIp

LEMMA PlainLookup ==
    ASSUME NEW tab, PlainTable(tab), NEW mac
    PROVE  ac_lookup_mac(tab, mac) \in Ips \cup {NoIp}
<1> DEFINE I == {k \in 1 .. Len(tab) : tab[k].mac = mac}
<1>1. tab \in Seq([mac : Macs, ip : Ips])
  BY DEF PlainTable
<1>2. /\ Len(tab) \in Nat
      /\ \A i \in 1 .. Len(tab) : tab[i] \in [mac : Macs, ip : Ips]
  <2>1. Len(tab) \in Nat
    BY <1>1, LenProperties
  <2>2. \A i \in 1 .. Len(tab) : tab[i] \in [mac : Macs, ip : Ips]
    BY <1>1, ElementOfSeq
  <2> QED
    BY <2>1, <2>2
<1>3. CASE I = {}
  BY <1>3, LookupNone
<1>4. CASE I # {}
  <2>1. I \subseteq Nat
    BY <1>2
  <2>2. Min(I) \in I
    BY <1>4, <2>1, MinIn
  <2>3. SelectInSeq(tab, LAMBDA e : e.mac = mac) = Min(I)
    BY <1>4 DEF SelectInSeq
  <2> QED
    BY <1>2, <2>2, <2>3 DEF ac_lookup_mac
<1> QED
  BY <1>3, <1>4

LEMMA PlainAdd ==
    ASSUME NEW tab, PlainTable(tab), NEW mac \in Macs, NEW ip \in Ips
    PROVE  PlainTable(ac_add(tab, mac, ip))
<1> DEFINE e == [mac |-> mac, ip |-> ip]
<1>1. tab \in Seq([mac : Macs, ip : Ips]) /\ e \in [mac : Macs, ip : Ips]
  BY DEF PlainTable
<1>2. CASE Len(tab) < MAC_IP_CACHE_SIZE
  <2>1. ac_add(tab, mac, ip) = Append(tab, e)
    BY <1>2 DEF ac_add, ac_not_full
  <2>2. Append(tab, e) \in Seq([mac : Macs, ip : Ips]) /\ Len(Append(tab, e)) = Len(tab) + 1
    BY <1>1, AppendProperties
  <2>3. Len(tab) \in Nat /\ MAC_IP_CACHE_SIZE \in Nat
    BY <1>1, LenProperties, DhcpAssumption
  <2> QED
    BY <1>2, <2>1, <2>2, <2>3 DEF PlainTable
<1>3. CASE ~(Len(tab) < MAC_IP_CACHE_SIZE)
  BY <1>3 DEF ac_add, ac_not_full
<1> QED
  BY <1>2, <1>3

\* The handler, when the table may be full.
LEMMA HandledTypes ==
    ASSUME Typed, ProcessDhcpMessage
    PROVE  /\ PlainTable(ip_mac_mapping') /\ current_ip' \in Ips /\ looping' \in BOOLEAN
           /\ sock # <<>> /\ sock' = Tail(sock) /\ UNCHANGED <<station, faults>>
           /\ air' \subseteq Replies
<1> DEFINE m == Head(sock)
           tab == Recorded(ip_mac_mapping, m)
           answer(type, ip) == IF m.live THEN {make_response(m, type, ip)} ELSE {}
<1>1. m \in Requests /\ sock # <<>> /\ sock' = Tail(sock) /\ UNCHANGED <<station, faults>>
  BY DEF ProcessDhcpMessage, Typed
<1>2. m.mac \in Macs /\ m.type \in {"discover", "request"}
  BY <1>1 DEF Requests
<1>3. PlainTable(tab)
  BY <1>2, PlainAdd DEF Recorded, GotIp, Typed
<1>4. /\ m.type = "discover" =>
           \E y \in {next_yiaddr(tab, current_ip, m.mac)} :
              /\ ip_mac_mapping' = y.tab /\ current_ip' = y.cur /\ looping' = ~y.stops
              /\ air' = air \union IF y.stops THEN answer("offer", y.ip) ELSE {}
      /\ m.type = "request" =>
           /\ ip_mac_mapping' = tab /\ UNCHANGED <<current_ip, looping>>
           /\ \/ GotIp(ip_mac_mapping, m) /\ air' = air \union answer("ack", ClientIp(m))
              \/ air' = air \union answer("nak", NoIp)
  BY DEF ProcessDhcpMessage
<1>5. Ips \subseteq Named /\ NoIp \in Named
  BY UsableIps, HostsNat DEF Named, NoIp
<1>6. \A type \in {"offer", "ack", "nak"}, ip \in Named : answer(type, ip) \subseteq Replies
  BY <1>2 DEF make_response, Replies
<1> HIDE DEF m, tab, answer
<1>7. CASE m.type = "discover"
  <2>1. PICK y : /\ y = next_yiaddr(tab, current_ip, m.mac)
                 /\ ip_mac_mapping' = y.tab /\ current_ip' = y.cur /\ looping' = ~y.stops
                 /\ air' = air \union IF y.stops THEN answer("offer", y.ip) ELSE {}
    BY <1>4, <1>7
  <2>2. PlainTable(y.tab) /\ y.cur \in Ips /\ y.stops \in BOOLEAN /\ y.ip \in Named
    <3> DEFINE known == ac_lookup_mac(tab, m.mac)
               ks == Distances(tab, current_ip)
               ip == (current_ip + Min(ks)) % Hosts
    <3> HIDE DEF known, ks, ip
    <3>1. y = IF known # NoIp THEN [ip |-> known, cur |-> current_ip, tab |-> tab, stops |-> TRUE]
              ELSE IF ks # {} THEN [ip |-> ip, cur |-> ip, tab |-> ac_add(tab, m.mac, ip), stops |-> TRUE]
              ELSE [ip |-> NoIp, cur |-> current_ip, tab |-> tab, stops |-> FALSE]
      BY <2>1 DEF next_yiaddr, known, ks, ip
    <3>2. CASE known # NoIp
      <4>1. known \in Ips
        BY <1>3, <3>2, PlainLookup DEF known
      <4>2. y = [ip |-> known, cur |-> current_ip, tab |-> tab, stops |-> TRUE]
        BY <3>1, <3>2
      <4> QED
        BY <1>3, <1>5, <4>1, <4>2 DEF Typed
    <3>3. CASE known = NoIp /\ ks # {}
      <4>1. y = [ip |-> ip, cur |-> ip, tab |-> ac_add(tab, m.mac, ip), stops |-> TRUE]
        BY <3>1, <3>3
      <4>2. ip \in Ips
        BY <3>3, NextFree DEF ks, ip, Typed
      <4> QED
        BY <1>2, <1>3, <1>5, <4>1, <4>2, PlainAdd
    <3>4. CASE known = NoIp /\ ks = {}
      <4>1. y = [ip |-> NoIp, cur |-> current_ip, tab |-> tab, stops |-> FALSE]
        BY <3>1, <3>4
      <4> QED
        BY <1>3, <1>5, <4>1 DEF Typed
    <3> QED
      BY <3>2, <3>3, <3>4
  <2>3. air' \subseteq Replies
    BY <1>6, <2>1, <2>2 DEF Typed
  <2> QED
    BY <1>1, <2>1, <2>2, <2>3
<1>8. CASE m.type = "request"
  <2>1. GotIp(ip_mac_mapping, m) => ClientIp(m) \in Named
    BY <1>5 DEF GotIp
  <2>2. air' \subseteq Replies
    BY <1>4, <1>5, <1>6, <1>8, <2>1 DEF Typed
  <2> QED
    BY <1>1, <1>3, <1>4, <1>8, <2>2 DEF Typed
<1> QED
  BY <1>2, <1>7, <1>8

LEMMA TypedNext == Typed /\ [Next]_vars => Typed'
<1> SUFFICES ASSUME Typed, [Next]_vars PROVE Typed'
  OBVIOUS
<1>1. CASE UNCHANGED vars
  BY <1>1 DEF Typed, vars, PlainTable
<1>2. CASE ProcessDhcpMessage
  <2>1. /\ PlainTable(ip_mac_mapping') /\ current_ip' \in Ips /\ looping' \in BOOLEAN
        /\ sock # <<>> /\ sock' = Tail(sock) /\ UNCHANGED <<station, faults>>
        /\ air' \subseteq Replies
    BY <1>2, HandledTypes
  <2>2. sock' \in Seq(Requests) /\ Len(sock') <= SockLen
    BY <2>1, Shifted DEF Typed
  <2> QED
    BY <2>1, <2>2 DEF Typed, PlainTable
<1>3. CASE LoseAnswer
  <2>1. PlainTable(ip_mac_mapping)'
    BY <1>3 DEF LoseAnswer, server, Typed, PlainTable
  <2> QED
    BY <1>3, <2>1 DEF LoseAnswer, server, Typed
<1>4. CASE LoseRequest
  <2>1. sock' \in Seq(Requests) /\ Len(sock') <= SockLen
    BY <1>4, Shifted DEF LoseRequest, Typed
  <2>2. PlainTable(ip_mac_mapping)'
    BY <1>4 DEF LoseRequest, server, Typed, PlainTable
  <2> QED
    BY <1>4, <2>1, <2>2 DEF LoseRequest, server, Typed
<1>5. CASE Restart
  <2>1. current_ip' \in Ips
    BY <1>5, HostsNat DEF Restart, FirstCurrent, Ips
  <2>2. station' \in [Macs -> [st : StationStates, ip : Named]]
    BY <1>5 DEF Restart, Typed, StationStates
  <2>3. PlainTable(ip_mac_mapping)'
    BY <1>5, DhcpAssumption DEF Restart, PlainTable
  <2>4. sock' \in Seq(Requests) /\ Len(sock') <= SockLen /\ faults' \in 0 .. MaxFaults
    BY <1>5, DhcpAssumption DEF Restart, Typed
  <2> QED
    BY <1>5, <2>1, <2>2, <2>3, <2>4 DEF Restart, Typed
<1>6. ASSUME NEW mac \in Macs,
             \/ Discover(mac) \/ InitReboot(mac) \/ Renew(mac) \/ Resend(mac)
             \/ Receive(mac) \/ GiveUp(mac)
      PROVE  Typed'
  <2> DEFINE ip == station[mac].ip
  <2>1. /\ UNCHANGED server
        /\ PlainTable(ip_mac_mapping)' /\ current_ip' \in Ips /\ looping' \in BOOLEAN
    BY <1>6 DEF Discover, InitReboot, Renew, Resend, Receive, GiveUp, server, Typed, PlainTable
  <2>2. faults' \in 0 .. MaxFaults
    BY <1>6, DhcpAssumption
       DEF Discover, InitReboot, Renew, Resend, Receive, GiveUp, server, Typed
  <2>3. air' \subseteq Replies
    BY <1>6 DEF Discover, InitReboot, Renew, Resend, Receive, GiveUp, Forget, Typed
  <2>4. ip \in Named /\ NoIp \in Named
    BY TypedStation
  <2> HIDE DEF ip
  <2>5. /\ Msg(mac, "discover", NoIp, ip) \in Requests
        /\ Msg(mac, "request", NoIp, ip) \in Requests
        /\ Msg(mac, "request", ip, NoIp) \in Requests
    BY <2>4, MsgType
  <2>6. /\ Void(mac) \in Seq(Requests) /\ Len(Void(mac)) <= SockLen
        /\ sock \in Seq(Requests) /\ Len(sock) <= SockLen
    BY Voided DEF Typed
  <2>7. CASE Discover(mac) \/ InitReboot(mac) \/ Renew(mac)
    <3>1. \E m \in Requests : Enqueue(Void(mac), m)
      BY <2>5, <2>7 DEF Discover, InitReboot, Renew, ip
    <3>2. \E st \in StationStates : StationTo(mac, st, ip)
      BY <2>7 DEF Discover, InitReboot, Renew, StationStates, ip
    <3>3. sock' \in Seq(Requests) /\ Len(sock') <= SockLen
      BY <2>6, <3>1, Enqueued
    <3>4. station' \in [Macs -> [st : StationStates, ip : Named]]
      BY <2>4, <3>2, StationType
    <3> QED
      BY <2>1, <2>2, <2>3, <3>3, <3>4 DEF Typed
  <2>8. CASE Resend(mac)
    <3>1. \E m \in Requests : Enqueue(sock, m)
      BY <2>5, <2>8 DEF Resend, ip
    <3>2. sock' \in Seq(Requests) /\ Len(sock') <= SockLen
      BY <2>6, <3>1, Enqueued
    <3> QED
      BY <2>1, <2>2, <2>3, <2>8, <3>2 DEF Resend, Typed
  <2>9. CASE Receive(mac)
    <3>1. PICK r \in air :
            \/ /\ StationTo(mac, "requesting", r.ip)
               /\ Enqueue(sock, Msg(mac, "request", NoIp, r.ip))
            \/ StationTo(mac, "bound", r.ip) /\ UNCHANGED sock
            \/ StationTo(mac, "init", NoIp) /\ UNCHANGED sock
            \/ UNCHANGED <<station, sock>>
      BY <2>9 DEF Receive
    <3>2. r.ip \in Named
      BY DEF Typed, Replies
    <3>3. Msg(mac, "request", NoIp, r.ip) \in Requests
      BY <2>4, <3>2, MsgType
    <3>4. sock' \in Seq(Requests) /\ Len(sock') <= SockLen
      BY <2>6, <3>1, <3>3, Enqueued
    <3>5. station' \in [Macs -> [st : StationStates, ip : Named]]
      <4>1. {"requesting", "bound", "init"} \subseteq StationStates
        BY DEF StationStates
      <4> QED
        BY <2>4, <3>1, <3>2, <4>1, StationType DEF Typed
    <3> QED
      BY <2>1, <2>2, <2>3, <3>4, <3>5 DEF Typed
  <2>10. CASE GiveUp(mac)
    <3>1. StationTo(mac, "init", ip) /\ UNCHANGED sock
      BY <2>10 DEF GiveUp, ip
    <3>2. station' \in [Macs -> [st : StationStates, ip : Named]]
      BY <2>4, <3>1, StationType DEF StationStates
    <3> QED
      BY <2>1, <2>2, <2>3, <2>6, <3>1, <3>2 DEF Typed
  <2> QED
    BY <1>6, <2>7, <2>8, <2>9, <2>10
<1> QED
  BY <1>1, <1>2, <1>3, <1>4, <1>5, <1>6 DEF Next

\* Every variable keeps its type, and the table its size, when it is full too.
THEOREM TypeCorrect == Spec => []TypeOK
<1>1. Typed => TypeOK
  BY DEF Typed, TypeOK, PlainTable, Replies, Named
<1> QED
  BY <1>1, TypedInit, TypedNext, PTL DEF Spec

-----------------------------------------------------------------------------
(* The leases                                                               *)

Rec(a) == ac_lookup_mac(ip_mac_mapping, a)

\* An answer on its way promises what the table holds.
Answers == \A r \in air : r.type \in {"offer", "ack"} => r.ip = Rec(r.mac) /\ r.ip # NoIp

\* A station that was promised an address has it in the table.
Known ==
    \A a \in Macs : station[a].st \in {"requesting", "bound", "renewing"}
                      => station[a].ip = Rec(a) /\ station[a].ip # NoIp

\* No answer and no station is at odds with what the table holds, which is unambiguous.
Leases == GoodTable(ip_mac_mapping) /\ Answers /\ Known

LEMMA LeasesInit == Init => Leases
<1>1. Init => GoodTable(ip_mac_mapping)
  BY DhcpAssumption DEF Init, GoodTable
<1>2. Init => Answers /\ Known
  BY DEF Init, Answers, Known
<1> QED
  BY <1>1, <1>2 DEF Leases

\* The steps of the stations leave the table alone; a new promise is one they received.
LEMMA LeasesStation ==
    ASSUME Typed, Leases, UNCHANGED ip_mac_mapping, air' \subseteq air, NEW mac \in Macs,
           \A a \in Macs : a # mac => station'[a] = station[a],
           station'[mac].st \in {"requesting", "bound", "renewing"}
             => station'[mac].ip = Rec(mac) /\ station'[mac].ip # NoIp
    PROVE  Leases'
<1>1. \A a : Rec(a)' = Rec(a)
  BY DEF Rec
<1>2. Answers'
  BY <1>1 DEF Leases, Answers, Rec
<1>3. Known'
  BY <1>1 DEF Leases, Known, Rec
<1>4. GoodTable(ip_mac_mapping)'
  BY DEF Leases, GoodTable
<1> QED
  BY <1>2, <1>3, <1>4 DEF Leases

LEMMA LeasesNext == TableFits /\ Typed /\ Leases /\ [Next]_vars => Leases'
<1> SUFFICES ASSUME TableFits, Typed, Leases, [Next]_vars PROVE Leases'
  OBVIOUS
<1>1. CASE UNCHANGED vars
  BY <1>1 DEF vars, Leases, GoodTable, Answers, Known, Rec
<1>2. CASE ProcessDhcpMessage
  <2>1. /\ GoodTable(ip_mac_mapping') /\ Keeps(ip_mac_mapping, ip_mac_mapping')
        /\ UNCHANGED station
        /\ \A r \in air' : r \in air \/ Honest(r, Head(sock), ip_mac_mapping, ip_mac_mapping')
    BY <1>2, Handled DEF Typed, Leases
  <2>2. \A a \in Macs : Rec(a) # NoIp => ac_lookup_mac(ip_mac_mapping', a) = Rec(a)
    BY <2>1 DEF Keeps, Rec
  <2>3. Answers'
    <3> SUFFICES ASSUME NEW r \in air', r.type \in {"offer", "ack"}
                 PROVE  r.ip = ac_lookup_mac(ip_mac_mapping', r.mac) /\ r.ip # NoIp
      BY DEF Answers, Rec
    <3>1. CASE r \in air
      <4>1. r.mac \in Macs /\ r.ip = Rec(r.mac) /\ r.ip # NoIp
        BY <3>1 DEF Typed, Replies, Leases, Answers
      <4> QED
        BY <2>2, <4>1
    <3> QED
      BY <2>1, <3>1 DEF Honest
  <2>4. Known'
    BY <2>1, <2>2 DEF Leases, Known, Rec
  <2>5. GoodTable(ip_mac_mapping)'
    BY <2>1 DEF GoodTable
  <2> QED
    BY <2>3, <2>4, <2>5 DEF Leases
<1>3. CASE LoseAnswer \/ LoseRequest
  BY <1>3 DEF LoseAnswer, LoseRequest, server, Leases, GoodTable, Answers, Known, Rec
<1>4. CASE Restart
  <2>1. GoodTable(ip_mac_mapping)'
    BY <1>4, DhcpAssumption DEF Restart, GoodTable
  <2> QED
    BY <1>4, <2>1 DEF Restart, Leases, Answers, Known, Typed
<1>5. ASSUME NEW mac \in Macs,
             Discover(mac) \/ InitReboot(mac) \/ Renew(mac) \/ Resend(mac) \/ GiveUp(mac)
      PROVE  Leases'
  <2>1. UNCHANGED ip_mac_mapping /\ air' \subseteq air
    BY <1>5 DEF Discover, InitReboot, Renew, Resend, GiveUp, server, Forget
  <2>2. \A a \in Macs : a # mac => station'[a] = station[a]
    BY <1>5 DEF Discover, InitReboot, Renew, Resend, GiveUp, StationTo, Typed
  <2>3. station'[mac].st \in {"requesting", "bound", "renewing"}
          => station'[mac].ip = Rec(mac) /\ station'[mac].ip # NoIp
    BY <1>5
       DEF Discover, InitReboot, Renew, Resend, GiveUp, StationTo, Typed, Leases, Known
  <2> QED
    BY <2>1, <2>2, <2>3, LeasesStation
<1>6. ASSUME NEW mac \in Macs, Receive(mac) PROVE Leases'
  <2>1. PICK r \in air :
          /\ r.mac = mac /\ air' = air \ {r} /\ UNCHANGED server
          /\ \/ r.type = "offer" /\ StationTo(mac, "requesting", r.ip)
             \/ r.type = "ack" /\ StationTo(mac, "bound", r.ip)
             \/ r.type = "nak" /\ StationTo(mac, "init", NoIp)
             \/ UNCHANGED station
    BY <1>6 DEF Receive
  <2>2. r.type \in {"offer", "ack"} => r.ip = Rec(mac) /\ r.ip # NoIp
    BY <2>1 DEF Leases, Answers
  <2>3. \A a \in Macs : a # mac => station'[a] = station[a]
    BY <2>1 DEF StationTo, Typed
  <2>4. station'[mac].st \in {"requesting", "bound", "renewing"}
          => station'[mac].ip = Rec(mac) /\ station'[mac].ip # NoIp
    BY <2>1, <2>2 DEF StationTo, Typed, Leases, Known
  <2>5. UNCHANGED ip_mac_mapping /\ air' \subseteq air
    BY <2>1 DEF server
  <2> QED
    BY <2>3, <2>4, <2>5, LeasesStation
<1> QED
  BY <1>1, <1>2, <1>3, <1>4, <1>5, <1>6 DEF Next

-----------------------------------------------------------------------------
(* Refusals                                                                 *)

\* A station in state s that waits for an offer has sent nothing but discoveries in this
\* exchange; one that asks for what it was promised names that address.  Neither has been
\* refused anything.
AskedFor(a, s, q, rs) ==
    /\ s.st \in {"selecting", "requesting", "renewing"} =>
         \A r \in rs : r.mac = a => r.type # "nak"
    /\ s.st = "selecting" =>
         \A i \in 1 .. Len(q) : q[i].live /\ q[i].mac = a => q[i].type # "request"
    /\ s.st \in {"requesting", "renewing"} =>
         \A i \in 1 .. Len(q) : q[i].live /\ q[i].mac = a /\ q[i].type = "request"
                                  => ClientIp(q[i]) = s.ip

Asked == \A a \in Macs : AskedFor(a, station[a], sock, air)

LEMMA AskedInit == Init => Asked
BY DEF Init, Asked, AskedFor

LEMMA AskedLess ==
    ASSUME NEW a, NEW s, NEW q, NEW q2, NEW rs, NEW rs2, AskedFor(a, s, q, rs),
           \A r \in rs2 : r.mac = a => r \in rs,
           \A i \in 1 .. Len(q2) : q2[i].live /\ q2[i].mac = a
                                     => \E j \in 1 .. Len(q) : q2[i] = q[j]
    PROVE  AskedFor(a, s, q2, rs2)
BY DEF AskedFor

\* A message of another station.
LEMMA AskedOther ==
    ASSUME Typed, Asked, NEW mac \in Macs, NEW a \in Macs, a # mac,
           station'[a] = station[a], air' \subseteq air,
           \A i \in 1 .. Len(sock') :
             sock'[i].live => sock'[i].mac = mac \/ \E j \in 1 .. Len(sock) : sock'[i] = sock[j]
    PROVE  AskedFor(a, station'[a], sock', air')
<1>1. AskedFor(a, station[a], sock, air)
  BY DEF Asked
<1>2. AskedFor(a, station[a], sock', air')
  BY <1>1, AskedLess
<1> QED
  BY <1>2

LEMMA AskedNext == TableFits /\ Typed /\ Leases /\ Asked /\ [Next]_vars => Asked'
<1> SUFFICES ASSUME TableFits, Typed, Leases, Asked, [Next]_vars PROVE Asked'
  OBVIOUS
<1>1. CASE UNCHANGED vars
  BY <1>1 DEF vars, Asked
<1>2. CASE ProcessDhcpMessage
  <2> DEFINE m == Head(sock)
  <2>1. /\ UNCHANGED station /\ sock # <<>> /\ sock' = Tail(sock)
        /\ \A r \in air' : r \in air \/ Honest(r, m, ip_mac_mapping, ip_mac_mapping')
    BY <1>2, Handled DEF Typed, Leases
  <2>2. \A i \in 1 .. Len(sock') : \E j \in 1 .. Len(sock) : sock'[i] = sock[j]
    BY <2>1, Shifted DEF Typed
  <2>3. 1 \in 1 .. Len(sock) /\ m = sock[1]
    BY <2>1, HeadTailProperties DEF Typed
  <2> HIDE DEF m
  <2>4. ASSUME NEW a \in Macs PROVE AskedFor(a, station[a], sock', air')
    <3>1. AskedFor(a, station[a], sock, air)
      BY DEF Asked
    <3>2. AskedFor(a, station[a], sock', air)
      BY <2>2, <3>1, AskedLess
    <3>3. ASSUME NEW r \in air', r.mac = a, r.type = "nak",
                 station[a].st \in {"selecting", "requesting", "renewing"}
          PROVE  FALSE
      <4>1. r \notin air
        BY <3>1, <3>3 DEF AskedFor
      <4>2. m.live /\ m.mac = a /\ m.type = "request" /\ ~GotIp(ip_mac_mapping, m)
        BY <2>1, <3>3, <4>1 DEF Honest
      <4>3. station[a].st \in {"requesting", "renewing"} /\ ClientIp(m) = station[a].ip
        BY <2>3, <3>1, <3>3, <4>2 DEF AskedFor
      <4>4. ac_lookup_mac(ip_mac_mapping, m.mac) = ClientIp(m) /\ ClientIp(m) # NoIp
        BY <4>2, <4>3 DEF Leases, Known, Rec
      <4>5. ClientIp(m) \in Ips
        BY <4>4, LookupType DEF Leases, Usable
      <4> QED
        BY <4>2, <4>4, <4>5 DEF GotIp
    <3> QED
      BY <3>2, <3>3 DEF AskedFor
  <2> QED
    BY <2>1, <2>4 DEF Asked
<1>3. CASE LoseAnswer \/ LoseRequest
  <2>1. UNCHANGED station /\ air' \subseteq air
    BY <1>3 DEF LoseAnswer, LoseRequest
  <2>2. \A i \in 1 .. Len(sock') : \E j \in 1 .. Len(sock) : sock'[i] = sock[j]
    BY <1>3, Shifted DEF LoseAnswer, LoseRequest, Typed
  <2>3. ASSUME NEW a \in Macs PROVE AskedFor(a, station[a], sock', air')
    <3>1. AskedFor(a, station[a], sock, air)
      BY DEF Asked
    <3> QED
      BY <2>1, <2>2, <3>1, AskedLess
  <2> QED
    BY <2>1, <2>3 DEF Asked
<1>4. CASE Restart
  BY <1>4 DEF Restart, Asked, AskedFor, Typed
<1>5. ASSUME NEW mac \in Macs, Discover(mac) \/ InitReboot(mac) \/ Renew(mac)
      PROVE  Asked'
  <2> DEFINE ip == station[mac].ip
  <2>1. ip \in Named /\ NoIp \in Named
    BY TypedStation
  <2>2. PICK m : /\ m \in Requests /\ Enqueue(Void(mac), m) /\ m.mac = mac
                 /\ Discover(mac) => m.type = "discover"
                 /\ Renew(mac) => m.ciaddr = ip
    <3>1. /\ Msg(mac, "discover", NoIp, ip) \in Requests
          /\ Msg(mac, "request", NoIp, ip) \in Requests
          /\ Msg(mac, "request", ip, NoIp) \in Requests
      BY <2>1, MsgType
    <3>2. CASE Discover(mac)
      BY <3>1, <3>2 DEF Discover, Renew, Msg
    <3>3. CASE InitReboot(mac)
      BY <3>1, <3>3 DEF InitReboot, Discover, Renew, StationTo, Typed, Msg
    <3>4. CASE Renew(mac)
      BY <3>1, <3>4 DEF Discover, Renew, Msg
    <3> QED
      BY <1>5, <3>2, <3>3, <3>4
  <2>3. air' = {r \in air : r.mac # mac}
    BY <1>5 DEF Discover, InitReboot, Renew, Forget
  <2>4. \A i \in 1 .. Len(sock') :
          sock'[i] = m \/ \E j \in 1 .. Len(Void(mac)) : sock'[i] = Void(mac)[j]
    BY <2>2, Voided, Enqueued DEF Typed
  <2>5. \A i \in 1 .. Len(sock') : sock'[i].live =>
          \/ sock'[i] = m
          \/ sock'[i].mac # mac /\ \E j \in 1 .. Len(sock) : sock'[i] = sock[j]
    BY <2>4, Voided DEF Typed
  <2>6. \A a \in Macs : a # mac => station'[a] = station[a]
    BY <1>5 DEF Discover, InitReboot, Renew, StationTo, Typed
  <2>7. ASSUME NEW a \in Macs, a # mac PROVE AskedFor(a, station'[a], sock', air')
    BY <2>2, <2>3, <2>5, <2>6, <2>7, AskedOther
  <2>8. AskedFor(mac, station'[mac], sock', air')
    <3>1. CASE Discover(mac)
      <4>1. station'[mac].st = "selecting"
        BY <3>1 DEF Discover, StationTo, Typed
      <4> QED
        BY <2>2, <2>3, <2>5, <3>1, <4>1 DEF AskedFor
    <3>2. CASE InitReboot(mac)
      <4>1. station'[mac].st = "rebooting"
        BY <3>2 DEF InitReboot, StationTo, Typed
      <4> QED
        BY <4>1 DEF AskedFor
    <3>3. CASE Renew(mac)
      <4>1. station'[mac].st = "renewing" /\ station'[mac].ip = ip /\ ip # NoIp
        BY <3>3 DEF Renew, StationTo, Typed, Leases, Known
      <4>2. ClientIp(m) = ip
        BY <2>2, <3>3, <4>1 DEF ClientIp
      <4> QED
        BY <2>2, <2>3, <2>5, <4>1, <4>2 DEF AskedFor
    <3> QED
      BY <1>5, <3>1, <3>2, <3>3
  <2> QED
    BY <2>7, <2>8 DEF Asked
<1>6. ASSUME NEW mac \in Macs, Resend(mac) PROVE Asked'
  <2> DEFINE ip == station[mac].ip
  <2>1. ip \in Named /\ NoIp \in Named
    BY TypedStation
  <2>2. PICK m : /\ m \in Requests /\ Enqueue(sock, m) /\ m.mac = mac
                 /\ station[mac].st = "selecting" => m.type = "discover"
                 /\ station[mac].st \in {"requesting", "renewing"} => ClientIp(m) = ip
    <3>1. /\ Msg(mac, "discover", NoIp, ip) \in Requests
          /\ Msg(mac, "request", NoIp, ip) \in Requests
          /\ Msg(mac, "request", ip, NoIp) \in Requests
      BY <2>1, MsgType
    <3>2. CASE station[mac].st = "selecting"
      BY <1>6, <3>1, <3>2 DEF Resend, Msg
    <3>3. CASE station[mac].st \in {"requesting", "rebooting"}
      BY <1>6, <3>1, <3>3 DEF Resend, Msg, ClientIp
    <3>4. CASE station[mac].st = "renewing"
      <4>1. ip # NoIp
        BY <3>4 DEF Leases, Known
      <4> QED
        BY <1>6, <3>1, <3>4, <4>1 DEF Resend, Msg, ClientIp
    <3> QED
      BY <1>6, <3>2, <3>3, <3>4 DEF Resend
  <2>3. UNCHANGED <<air, station>>
    BY <1>6 DEF Resend
  <2>4. \A i \in 1 .. Len(sock') : sock'[i] = m \/ \E j \in 1 .. Len(sock) : sock'[i] = sock[j]
    BY <2>2, Enqueued DEF Typed
  <2>5. ASSUME NEW a \in Macs, a # mac PROVE AskedFor(a, station'[a], sock', air')
    BY <2>2, <2>3, <2>4, <2>5, AskedOther
  <2>6. AskedFor(mac, station'[mac], sock', air')
    BY <2>2, <2>3, <2>4 DEF Asked, AskedFor
  <2> QED
    BY <2>5, <2>6 DEF Asked
<1>7. ASSUME NEW mac \in Macs, Receive(mac) PROVE Asked'
  <2>1. PICK r \in air :
          /\ r.mac = mac /\ air' = air \ {r}
          /\ \/ /\ station[mac].st = "selecting" /\ StationTo(mac, "requesting", r.ip)
                /\ Enqueue(sock, Msg(mac, "request", NoIp, r.ip))
             \/ StationTo(mac, "bound", r.ip) /\ UNCHANGED sock
             \/ StationTo(mac, "init", NoIp) /\ UNCHANGED sock
             \/ UNCHANGED <<station, sock>>
    BY <1>7 DEF Receive
  <2> DEFINE m == Msg(mac, "request", NoIp, r.ip)
  <2>2. m \in Requests /\ m.mac = mac /\ ClientIp(m) = r.ip
    <3>1. r.ip \in Named /\ NoIp \in Named
      BY TypedStation DEF Typed, Replies
    <3>2. m \in Requests
      BY <3>1, MsgType
    <3> QED
      BY <3>2 DEF Msg, ClientIp
  <2> HIDE DEF m
  <2>3. \A i \in 1 .. Len(sock') : sock'[i] = m \/ \E j \in 1 .. Len(sock) : sock'[i] = sock[j]
    BY <2>1, <2>2, Enqueued DEF Typed, m
  <2>4. \A a \in Macs : a # mac => station'[a] = station[a]
    BY <2>1 DEF StationTo, Typed
  <2>5. ASSUME NEW a \in Macs, a # mac PROVE AskedFor(a, station'[a], sock', air')
    BY <2>1, <2>2, <2>3, <2>4, <2>5, AskedOther
  <2>6. AskedFor(mac, station'[mac], sock', air')
    <3>1. AskedFor(mac, station[mac], sock, air)
      BY DEF Asked
    <3>2. CASE UNCHANGED <<station, sock>>
      BY <2>1, <3>1, <3>2 DEF AskedFor
    <3>3. CASE StationTo(mac, "bound", r.ip) \/ StationTo(mac, "init", NoIp)
      BY <3>3 DEF StationTo, Typed, AskedFor
    <3>4. CASE station[mac].st = "selecting" /\ StationTo(mac, "requesting", r.ip)
      <4>1. station'[mac].st = "requesting" /\ station'[mac].ip = r.ip
        BY <3>4 DEF StationTo, Typed
      <4> QED
        BY <2>1, <2>2, <2>3, <3>1, <3>4, <4>1 DEF AskedFor
    <3> QED
      BY <2>1, <3>2, <3>3, <3>4
  <2> QED
    BY <2>5, <2>6 DEF Asked
<1>8. ASSUME NEW mac \in Macs, GiveUp(mac) PROVE Asked'
  <2>1. UNCHANGED <<sock, air>> /\ station'[mac].st = "init"
        /\ \A a \in Macs : a # mac => station'[a] = station[a]
    BY <1>8 DEF GiveUp, StationTo, Typed
  <2> QED
    BY <2>1 DEF Asked, AskedFor
<1> QED
  BY <1>1, <1>2, <1>3, <1>4, <1>5, <1>6, <1>7, <1>8 DEF Next

-----------------------------------------------------------------------------
(* The theorems                                                             *)

Inv == Typed /\ Leases /\ Asked

LEMMA Invariance == TableFits /\ Spec => []Inv
<1>1. Init => Inv
  BY TypedInit, LeasesInit, AskedInit DEF Inv
<1>2. TableFits /\ Inv /\ [Next]_vars => Inv'
  <2> SUFFICES ASSUME TableFits, Inv, [Next]_vars PROVE Inv'
    OBVIOUS
  <2>1. Typed /\ Leases /\ Asked
    BY DEF Inv
  <2>2. Typed' /\ Leases' /\ Asked'
    BY <2>1, TypedNext, LeasesNext, AskedNext
  <2> QED
    BY <2>2 DEF Inv
<1>3. CASE TableFits
  BY <1>1, <1>2, <1>3, PTL DEF Spec
<1>4. CASE ~ TableFits
  BY <1>4, PTL
<1> QED
  BY <1>3, <1>4

\* With an entry for every station, the address a station uses is recorded for it, and
\* is a host of the subnet that process_dhcp_message may grant.
THEOREM LeasesRecorded == TableFits /\ Spec => []LeaseRecorded
<1>1. Inv => LeaseRecorded
  <2> SUFFICES ASSUME Inv, NEW a \in Macs, Uses(a)
               PROVE  /\ station[a].ip \in Ips \ {MyIp, 0, Hosts - 1}
                      /\ station[a].ip = ac_lookup_mac(ip_mac_mapping, a)
    BY DEF LeaseRecorded
  <2>1. station[a].ip = Rec(a) /\ station[a].ip # NoIp
    BY DEF Inv, Leases, Known, Uses
  <2> QED
    BY <2>1, LookupType DEF Inv, Leases, Rec, Usable
<1> QED
  BY <1>1, Invariance, PTL

\* With an entry for every station, no two stations use one address, whatever messages
\* are lost, repeated or left over from an earlier exchange.
THEOREM LeasesUnique == TableFits /\ Spec => []UniqueLease
<1>1. Inv => UniqueLease
  <2> SUFFICES ASSUME Inv, NEW a \in Macs, NEW b \in Macs, Uses(a), Uses(b),
                      station[a].ip = station[b].ip
               PROVE  a = b
    BY DEF UniqueLease
  <2>1. /\ station[a].ip = Rec(a) /\ Rec(a) # NoIp
        /\ station[b].ip = Rec(b) /\ Rec(b) # NoIp
    BY DEF Inv, Leases, Known, Uses
  <2>2. GoodTable(ip_mac_mapping)
    BY DEF Inv, Leases
  <2>3. PICK i \in 1 .. Len(ip_mac_mapping) :
          ip_mac_mapping[i].mac = a /\ ip_mac_mapping[i].ip = Rec(a)
    BY <2>1, <2>2, LookupCases DEF Rec
  <2>4. PICK j \in 1 .. Len(ip_mac_mapping) :
          ip_mac_mapping[j].mac = b /\ ip_mac_mapping[j].ip = Rec(b)
    BY <2>1, <2>2, LookupCases DEF Rec
  <2>5. i = j
    BY <2>1, <2>2, <2>3, <2>4 DEF GoodTable
  <2> QED
    BY <2>3, <2>4, <2>5
<1> QED
  BY <1>1, Invariance, PTL

\* With an entry for every station, one that asks for what it was offered, or renews,
\* is not sent back to the beginning by an answer.
THEOREM OffersHonoured == TableFits /\ Spec => OfferHonoured
<1>1. Inv /\ [Next]_vars =>
        [\A a \in Macs : (station[a].st \in {"requesting", "renewing"} /\ station'[a].st = "init")
                           => faults' # faults]_vars
  <2> SUFFICES ASSUME Inv, Next, NEW a \in Macs, station[a].st \in {"requesting", "renewing"},
                      station'[a].st = "init", faults' = faults
               PROVE  FALSE
    BY DEF vars
  <2>1. station' # station /\ station[a].st # "init"
    OBVIOUS
  <2>2. faults \in Nat
    BY DhcpAssumption DEF Inv, Typed
  <2>3. ~(ProcessDhcpMessage \/ LoseAnswer \/ LoseRequest \/ Restart)
    BY <2>1, <2>2 DEF ProcessDhcpMessage, LoseAnswer, LoseRequest, Restart
  <2>4. PICK mac \in Macs : \/ Discover(mac) \/ InitReboot(mac) \/ Renew(mac) \/ Resend(mac)
                            \/ Receive(mac) \/ GiveUp(mac)
    BY <2>3 DEF Next
  <2>5. ~(Discover(mac) \/ InitReboot(mac) \/ Renew(mac) \/ Resend(mac) \/ GiveUp(mac))
    BY <2>1, <2>2
       DEF Discover, InitReboot, Renew, Resend, GiveUp, StationTo, Inv, Typed
  <2>6. PICK r \in air :
          /\ r.mac = mac
          /\ \/ StationTo(mac, "requesting", r.ip) \/ StationTo(mac, "bound", r.ip)
             \/ r.type = "nak" /\ StationTo(mac, "init", NoIp)
             \/ UNCHANGED station
    BY <2>4, <2>5 DEF Receive
  <2>7. mac = a /\ r.type = "nak"
    BY <2>1, <2>6 DEF StationTo, Inv, Typed
  <2> QED
    BY <2>6, <2>7 DEF Inv, Asked, AskedFor
<1> QED
  BY <1>1, Invariance, PTL DEF Spec, OfferHonoured

=============================================================================
