----------------------------- MODULE DhcpServer -----------------------------
(* The DHCP server of the soft AP (func/lwip_intf/dhcpd/dhcp-server.c): its  *)
(* table of MAC and IP addresses, the handler of one message and the         *)
(* addresses it gives out, with the stations that ask for them.              *)
(*                                                                           *)
(* An address of the subnet is its host part; every address outside is one   *)
(* value, Outside.  The server is one thread and nothing else writes its     *)
(* table, so a message is handled in one step.  The stations are the         *)
(* environment: they follow RFC 2131 (a request names its address either in  *)
(* ciaddr or in the option, never in both), their messages and the answers   *)
(* may be lost, and they repeat what is not answered.                        *)
EXTENDS Integers, Sequences, FiniteSets, SequencesExt

CONSTANTS
    Macs,                \* the stations
    MAC_IP_CACHE_SIZE,   \* entries of dhcps.ip_mac_mapping
    HostBits,            \* zero bits of dhcps.netmask
    MyIp,                \* host part of the server's own address
    OldIps,              \* what a station may remember from elsewhere
    SockLen,             \* datagrams the server's socket holds
    MaxFaults            \* expired leases and restarts of the AP

Hosts == 2 ^ HostBits
NoIp == -1
Outside == Hosts

ASSUME DhcpAssumption ==
    /\ HostBits \in Nat \ {0} /\ MyIp \in 1 .. Hosts - 2
    /\ OldIps \subseteq -1 .. Hosts /\ OldIps # {}
    /\ {MAC_IP_CACHE_SIZE, SockLen, MaxFaults} \subseteq Nat

VARIABLES
    ip_mac_mapping,   \* the entries in use, in order; count_clients is its length
    current_ip,       \* host part of the address given out last
    looping,          \* the thread searches for an address and there is none
    sock,             \* requests in the server's socket
    air,              \* answers on their way
    station,          \* what each station does, and the address it knows
    faults

server == <<ip_mac_mapping, current_ip, looping>>
vars == <<ip_mac_mapping, current_ip, looping, sock, air, station, faults>>

Ips == 0 .. Hosts - 1
StationStates == {"init", "selecting", "requesting", "rebooting", "bound", "renewing"}

(* dhcp_server_init: everything is zeroed, and the first address given out    *)
(* follows host 99.                                                          *)
FirstCurrent == 99 % Hosts

Init ==
    /\ ip_mac_mapping = <<>> /\ current_ip = FirstCurrent /\ looping = FALSE
    /\ sock = <<>> /\ air = {} /\ faults = 0
    /\ station \in [Macs -> [st : {"init"}, ip : OldIps]]

-----------------------------------------------------------------------------
(* The table. *)

ac_not_full(tab) == Len(tab) < MAC_IP_CACHE_SIZE

ac_add(tab, mac, ip) ==
    IF ac_not_full(tab) THEN Append(tab, [mac |-> mac, ip |-> ip]) ELSE tab

ac_lookup_mac(tab, mac) ==
    LET i == SelectInSeq(tab, LAMBDA e : e.mac = mac)
    IN IF i = 0 THEN NoIp ELSE tab[i].ip

ac_lookup_ip(tab, ip) == \E i \in 1 .. Len(tab) : tab[i].ip = ip

(* (mutant) The table is not searched. *)
ac_valid_ip_NoLookup(tab, ip) == ip \notin {MyIp, 0, Hosts - 1}

(* (mutant) The server's own address is not skipped. *)
ac_valid_ip_Own(tab, ip) == ip \notin {0, Hosts - 1} /\ ~ac_lookup_ip(tab, ip)

ac_valid_ip(tab, ip) == ip \notin {MyIp, 0, Hosts - 1} /\ ~ac_lookup_ip(tab, ip)

(* The hosts the search of next_yiaddr would stop at, as distances from the  *)
(* address given out last; without any it does not stop.                     *)
Distances(tab, cur) == {k \in 1 .. Hosts : ac_valid_ip(tab, (cur + k) % Hosts)}

(* (mutant) Every discovery gets an address of its own, known or not. *)
next_yiaddr_Fresh(tab, cur, mac) ==
    LET ks == Distances(tab, cur)
        ip == (cur + Min(ks)) % Hosts
    IN IF ks # {}
       THEN [ip |-> ip, cur |-> ip, tab |-> ac_add(tab, mac, ip), stops |-> TRUE]
       ELSE [ip |-> NoIp, cur |-> cur, tab |-> tab, stops |-> FALSE]

(* The address of an offer: the recorded one, or the next free one, which is *)
(* recorded while there is room.                                             *)
next_yiaddr(tab, cur, mac) ==
    LET known == ac_lookup_mac(tab, mac)
        ks    == Distances(tab, cur)
        ip    == (cur + Min(ks)) % Hosts
    IN IF known # NoIp THEN [ip |-> known, cur |-> cur, tab |-> tab, stops |-> TRUE]
       ELSE IF ks # {} THEN [ip |-> ip, cur |-> ip, tab |-> ac_add(tab, mac, ip), stops |-> TRUE]
       ELSE [ip |-> NoIp, cur |-> cur, tab |-> tab, stops |-> FALSE]

-----------------------------------------------------------------------------
(* process_dhcp_message looks at the address again after every option. A       *)
(* station's message names one address at most, and a second look at it finds *)
(* what the first one recorded, so one look stands for all.                  *)
ClientIp(m) == IF m.ciaddr # NoIp THEN m.ciaddr ELSE m.reqip

(* (mutant) The comparison with the record the wrong way round. *)
GotIp_Inverted(tab, m) ==
    LET known == ac_lookup_mac(tab, m.mac)
    IN /\ ClientIp(m) \in Ips
       /\ IF known # NoIp THEN known # ClientIp(m) ELSE ac_valid_ip(tab, ClientIp(m))

(* got_ip: an address of the subnet is granted to the station it is recorded  *)
(* for, or to one without a record if ac_valid_ip knows nothing against it.  *)
GotIp(tab, m) ==
    LET known == ac_lookup_mac(tab, m.mac)
    IN /\ ClientIp(m) \in Ips
       /\ IF known # NoIp THEN known = ClientIp(m) ELSE ac_valid_ip(tab, ClientIp(m))

(* The table after the options: what was granted is recorded, for a DISCOVER  *)
(* that names an address too.                                                *)
Recorded(tab, m) ==
    IF GotIp(tab, m) /\ ac_lookup_mac(tab, m.mac) = NoIp
    THEN ac_add(tab, m.mac, ClientIp(m)) ELSE tab

(* make_response: the type and the address of the answer. *)
make_response(m, type, ip) == [mac |-> m.mac, type |-> type, ip |-> ip]

(* process_dhcp_message on the first datagram of the socket. The answer goes  *)
(* out once to the address and three times as a broadcast: one answer here.  *)
(* An answer to an exchange the station has given up is one it ignores.      *)
ProcessDhcpMessage ==
    /\ ~looping /\ sock # <<>>
    /\ \E m \in {Head(sock)}, tab \in {Recorded(ip_mac_mapping, Head(sock))} :
         LET answer(type, ip) == IF m.live THEN {make_response(m, type, ip)} ELSE {}
         IN \/ /\ m.type = "discover"
               /\ \E y \in {next_yiaddr(tab, current_ip, m.mac)} :
                    /\ ip_mac_mapping' = y.tab /\ current_ip' = y.cur /\ looping' = ~y.stops
                    /\ air' = air \union IF y.stops THEN answer("offer", y.ip) ELSE {}
            \/ /\ m.type = "request" /\ GotIp(ip_mac_mapping, m)
               /\ air' = air \union answer("ack", ClientIp(m))
               /\ ip_mac_mapping' = tab /\ UNCHANGED <<current_ip, looping>>
            \/ /\ m.type = "request" /\ ~GotIp(ip_mac_mapping, m)
               /\ air' = air \union answer("nak", NoIp)
               /\ ip_mac_mapping' = tab /\ UNCHANGED <<current_ip, looping>>
    /\ sock' = Tail(sock)
    /\ UNCHANGED <<station, faults>>

-----------------------------------------------------------------------------
(* The stations. *)

Uses(mac) == station[mac].st \in {"bound", "renewing"}

Msg(mac, type, ciaddr, reqip) ==
    [mac |-> mac, type |-> type, ciaddr |-> ciaddr, reqip |-> reqip, live |-> TRUE]

(* A datagram that finds the socket full is lost; a new exchange makes those  *)
(* of the old one void.                                                      *)
Void(mac) == [i \in 1 .. Len(sock) |->
                IF sock[i].mac = mac THEN [sock[i] EXCEPT !.live = FALSE] ELSE sock[i]]
Enqueue(q, m) == sock' = IF Len(q) < SockLen THEN Append(q, m) ELSE q
Forget(mac) == air' = {r \in air : r.mac # mac}

StationTo(mac, st, ip) == station' = [station EXCEPT ![mac] = [st |-> st, ip |-> ip]]

(* A station without a lease asks for one, for its old address or for any,    *)
(* or to go on with its old address.                                         *)
Discover(mac) ==
    /\ station[mac].st = "init"
    /\ StationTo(mac, "selecting", station[mac].ip)
    /\ Forget(mac) /\ Enqueue(Void(mac), Msg(mac, "discover", NoIp, station[mac].ip))
    /\ UNCHANGED <<server, faults>>

InitReboot(mac) ==
    /\ station[mac].st = "init" /\ station[mac].ip # NoIp
    /\ StationTo(mac, "rebooting", station[mac].ip)
    /\ Forget(mac) /\ Enqueue(Void(mac), Msg(mac, "request", NoIp, station[mac].ip))
    /\ UNCHANGED <<server, faults>>

Renew(mac) ==
    /\ station[mac].st = "bound"
    /\ StationTo(mac, "renewing", station[mac].ip)
    /\ Forget(mac) /\ Enqueue(Void(mac), Msg(mac, "request", station[mac].ip, NoIp))
    /\ UNCHANGED <<server, faults>>

(* The answer is lost or late: the same message again. *)
Resend(mac) ==
    /\ Len(sock) < SockLen
    /\ \/ /\ station[mac].st = "selecting"
          /\ Enqueue(sock, Msg(mac, "discover", NoIp, station[mac].ip))
       \/ /\ station[mac].st \in {"requesting", "rebooting"}
          /\ Enqueue(sock, Msg(mac, "request", NoIp, station[mac].ip))
       \/ /\ station[mac].st = "renewing"
          /\ Enqueue(sock, Msg(mac, "request", station[mac].ip, NoIp))
    /\ UNCHANGED <<server, air, station, faults>>

(* An answer that fits what the station waits for; any other is ignored. *)
Receive(mac) ==
    \E r \in air :
        /\ r.mac = mac /\ air' = air \ {r}
        /\ \/ /\ r.type = "offer" /\ station[mac].st = "selecting"
              /\ StationTo(mac, "requesting", r.ip)
              /\ Enqueue(sock, Msg(mac, "request", NoIp, r.ip))
           \/ /\ r.type = "ack" /\ station[mac].st \in {"requesting", "rebooting", "renewing"}
              /\ StationTo(mac, "bound", r.ip) /\ UNCHANGED sock
           \/ /\ r.type = "nak" /\ station[mac].st \in {"requesting", "rebooting", "renewing"}
              /\ StationTo(mac, "init", NoIp) /\ UNCHANGED sock
           \/ /\ \/ r.type = "offer" /\ station[mac].st # "selecting"
                 \/ r.type # "offer"
                      /\ station[mac].st \notin {"requesting", "rebooting", "renewing"}
              /\ UNCHANGED <<station, sock>>
        /\ UNCHANGED <<server, faults>>

LoseAnswer == \E r \in air : air' = air \ {r} /\ UNCHANGED <<server, sock, station, faults>>

LoseRequest ==
    /\ sock # <<>> /\ sock' = Tail(sock)
    /\ UNCHANGED <<server, air, station, faults>>

(* A station leaves, gives up or lets its lease expire: it remembers the      *)
(* address, and the server, which never ends a lease, keeps the entry.       *)
GiveUp(mac) ==
    /\ faults < MaxFaults /\ faults' = faults + 1
    /\ station[mac].st # "init" /\ StationTo(mac, "init", station[mac].ip)
    /\ UNCHANGED <<server, sock, air>>

(* The AP is stopped and started: dhcp_server_stop, dhcp_server_init. The     *)
(* stations lose the link, and ask again when they find it.                  *)
Restart ==
    /\ faults < MaxFaults /\ faults' = faults + 1
    /\ ip_mac_mapping' = <<>> /\ current_ip' = FirstCurrent /\ looping' = FALSE
    /\ sock' = <<>> /\ air' = {}
    /\ station' = [mac \in Macs |-> [station[mac] EXCEPT !.st = "init"]]

-----------------------------------------------------------------------------
Next ==
    \/ ProcessDhcpMessage \/ LoseAnswer \/ LoseRequest \/ Restart
    \/ \E mac \in Macs :
         \/ Discover(mac) \/ InitReboot(mac) \/ Renew(mac) \/ Resend(mac)
         \/ Receive(mac) \/ GiveUp(mac)

Spec == Init /\ [][Next]_vars

(* The server thread runs; stations without a lease ask, and go on asking;   *)
(* not every request of a station and not every answer to it is lost.        *)
Fairness ==
    \A mac \in Macs :
      /\ SF_vars(ProcessDhcpMessage /\ Head(sock).mac = mac)
      /\ WF_vars(Discover(mac)) /\ SF_vars(Resend(mac)) /\ SF_vars(Receive(mac))

FairSpec == Spec /\ Fairness

-----------------------------------------------------------------------------
(* The type invariant. *)
TypeOK ==
    /\ ip_mac_mapping \in Seq([mac : Macs, ip : Ips])
    /\ Len(ip_mac_mapping) <= MAC_IP_CACHE_SIZE
    /\ current_ip \in Ips /\ looping \in BOOLEAN
    /\ Len(sock) <= SockLen
    /\ \A r \in air : r.type \in {"offer", "ack", "nak"} /\ r.mac \in Macs
    /\ station \in [Macs -> [st : StationStates, ip : -1 .. Hosts]]
    /\ faults \in 0 .. MaxFaults

(* No two stations use one address: the comment at dhcp-server.c 439-446      *)
(* says an address is granted when it is "not assigned to any other client". *)
UniqueLease ==
    \A a, b \in Macs : (a # b /\ Uses(a) /\ Uses(b)) => station[a].ip # station[b].ip

(* An address in use is a host of the subnet, none of the three ac_valid_ip   *)
(* skips, and the one rw_msdu.c reads from the table for that station        *)
(* (dhcp_lookup_mac): the table and the stations agree.                      *)
LeaseRecorded ==
    \A a \in Macs : Uses(a) =>
        /\ station[a].ip \in Ips \ {MyIp, 0, Hosts - 1}
        /\ station[a].ip = ac_lookup_mac(ip_mac_mapping, a)

(* A station that asks for the address it was offered, or renews its lease,   *)
(* is not refused, whatever other stations were told in between: it is back  *)
(* at the beginning only by giving up or with the AP.                        *)
OfferHonoured ==
    [][\A a \in Macs :
         (station[a].st \in {"requesting", "renewing"} /\ station'[a].st = "init")
            => faults' # faults]_vars

(* Every station has an address in the end. *)
AllServed == <>[](\A a \in Macs : Uses(a))
=============================================================================
