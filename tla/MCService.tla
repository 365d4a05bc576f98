------------------------------ MODULE MCService -------------------------------
(* Configurations: two connections, the second with a LU above a byte, that *)
(* becomes the first one's number, and one below zero; two connections with *)
(* one MAC address; and four that Validate refuses.                         *)
EXTENDS Service

T(h, p, m) == [f \in Fields |-> CASE f = "host" -> h [] f = "port" -> p [] f = "model" -> m]
Conn(name, mac, lus) == [name |-> name, mac |-> mac, sap |-> TRUE, lus |-> lus]
Lu(n, t) == [lu |-> n, target |-> t]
Cfg(default, conns) == [local |-> TRUE, default |-> default, connections |-> conns]

One == Conn("a", "m1", << Lu(1, T("h1", "23", "")), Lu(2, T("", "", "IBM-3279-2")) >>)
Two == Conn("b", "m2", << Lu(1, T("", "99", "")), Lu(5, T("h2", "", "")), Lu(-2, T("h3", "", "")) >>)

MCConfigs == {
    Cfg(T("h0", "", ""), << One, Two >>),
    Cfg(T("h0", "1", "IBM-3278-3"), << Two, [One EXCEPT !.mac = "m2"] >>),
    Cfg(T("", "1", ""), << One >>),
    Cfg(T("h0", "", ""), << One, One >>),
    Cfg(T("h0", "", ""), << Conn("c", "m1", << Lu(1, T("", "", "")), Lu(1, T("h1", "", "")) >>) >>),
    [Cfg(T("h0", "", ""), << >>) EXCEPT !.local = FALSE] }

=============================================================================
