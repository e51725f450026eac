---------------------------- MODULE MCDhcpServer ----------------------------
(* Stations, table and subnet as small as the cases of each run allow. A     *)
(* station may remember nothing, the first address the server will offer, or *)
(* one of another network.                                                   *)
EXTENDS DhcpServer

CONSTANTS m1, m2, m3
TwoMacs == {m1, m2}
ThreeMacs == {m1, m2, m3}
AnyOld == {NoIp, (FirstCurrent + 1) % Hosts, Outside}
=============================================================================
