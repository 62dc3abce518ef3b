-------------------------------- MODULE Egress --------------------------------
(***************************************************************************)
(* The dataplane's egress interface (dataplane/pkg/common/                 *)
(* egress_interface.go): NewEgressInterface finds the default route in     *)
(* /proc/net/route, reads the ARP table from /proc/net/arp and looks for   *)
(* the interface that holds the source IP.                                 *)
(*                                                                         *)
(* The files are written by the kernel, so the model writes them from the  *)
(* kernel's tables: a header line, then one line per entry, every line     *)
(* ending in a newline.  A line is the sequence of its tab (route) or      *)
(* blank (arp) separated fields; the fields the code never reads are left  *)
(* out.  The hexadecimal addresses of the route file are character        *)
(* sequences, since the code takes them apart by position.                *)
(***************************************************************************)
EXTENDS Naturals, Sequences, FiniteSets, Functions

CONSTANTS
    Ifaces,     \* interface names, in the order net.Interfaces lists them
    Ips,        \* IPv4 addresses, as 4-tuples of bytes
    Hws,        \* hardware addresses
    MaxRoutes,  \* bound on the routes of the table
    MaxArp      \* bound on the entries of the ARP table

ASSUME EgressAssumption ==
    /\ Ifaces \in Seq(STRING) /\ Ifaces # <<>>
    /\ Ips \subseteq [1..4 -> 0..255]
    /\ MaxRoutes \in Nat /\ MaxArp \in Nat

HexDigits == <<"0", "1", "2", "3", "4", "5", "6", "7",
               "8", "9", "A", "B", "C", "D", "E", "F">>

(* Two hexadecimal digits of a byte.                                       *)
Hex2(b) == <<HexDigits[b \div 16 + 1], HexDigits[(b % 16) + 1]>>

(***************************************************************************)
(* How the kernel writes an address in /proc/net/route: the __be32 printed *)
(* with %08X on a little-endian host, so the last byte comes first.        *)
(***************************************************************************)
KernelHex(ip) == Hex2(ip[4]) \o Hex2(ip[3]) \o Hex2(ip[2]) \o Hex2(ip[1])

DefaultDest == KernelHex(<<0, 0, 0, 0>>)

(***************************************************************************)
(* strconv.ParseInt(s, 16, 32) with its error ignored: the value of the    *)
(* digits, 0 for an empty string, then byte(...) keeps the low 8 bits.     *)
(***************************************************************************)
HexDigit(c) == CHOOSE d \in 0..15 : HexDigits[d + 1] = c

ParseHexByte(s) ==
    LET v[i \in 0..Len(s)] == IF i = 0 THEN 0 ELSE 16 * v[i - 1] + HexDigit(s[i])
    IN (v[Len(s)]) % 256

(* Mutant: the bytes are taken in the order they are written.              *)
parseGatewayIPInOrder(g) ==
    <<ParseHexByte(SubSeq(g, 1, 2)), ParseHexByte(SubSeq(g, 3, 4)),
      ParseHexByte(SubSeq(g, 5, 6)), ParseHexByte(SubSeq(g, 7, Len(g)))>>

(***************************************************************************)
(* parseGatewayIP: iv0..iv3 from g[0:2], g[2:4], g[4:6], g[6:]; ip[0] is   *)
(* iv3 and ip[3] is iv0.                                                    *)
(***************************************************************************)
parseGatewayIP(g) ==
    <<ParseHexByte(SubSeq(g, 7, Len(g))), ParseHexByte(SubSeq(g, 5, 6)),
      ParseHexByte(SubSeq(g, 3, 4)), ParseHexByte(SubSeq(g, 1, 2))>>

(***************************************************************************)
(* parseProcFile: the first line whose second field is "00000000" gives   *)
(* the outgoing interface (first field) and the gateway (third field);    *)
(* without one, "Failed to locate default route".  The header's second    *)
(* field is "Destination".                                                 *)
(***************************************************************************)
parseProcFile(lines) ==
    LET hits == {i \in 1..Len(lines) : lines[i][2] = DefaultDest}
    IN IF hits = {} THEN [ok |-> FALSE]
       ELSE LET l == lines[CHOOSE i \in hits : \A j \in hits : i <= j]
            IN [ok |-> TRUE, iface |-> l[1], gw |-> parseGatewayIP(l[3])]

(***************************************************************************)
(* getArpEntries: every line but the first (the header), as IpAddress =    *)
(* field 0, PhysAddress = field 3, Interface = field 5.                     *)
(***************************************************************************)
getArpEntries(lines) ==
    [i \in 1..Len(lines) - 1 |->
        [ip |-> lines[i + 1][1], hw |-> lines[i + 1][4], dev |-> lines[i + 1][6]]]

-----------------------------------------------------------------------------
(***************************************************************************)
(* The kernel's tables and the files it writes from them.                  *)
(***************************************************************************)
Routes == UNION {[1..n -> [iface : Range(Ifaces), dest : Ips, gw : Ips]] : n \in 0..MaxRoutes}
ArpRows == UNION {[1..n -> [ip : Ips, hw : Hws, dev : Range(Ifaces)]] : n \in 0..MaxArp}

RouteHeader == <<"Iface", <<"D", "e", "s", "t">>, <<"G", "w">>>>
RouteFile(rt) == <<RouteHeader>> \o
    [i \in 1..Len(rt) |-> <<rt[i].iface, KernelHex(rt[i].dest), KernelHex(rt[i].gw)>>]

ArpHeader == <<"IP address", "HW type", "Flags", "HW address", "Mask", "Device">>
ArpFile(rows) == <<ArpHeader>> \o
    [i \in 1..Len(rows) |-> <<rows[i].ip, "0x1", "0x2", rows[i].hw, "*", rows[i].dev>>]

-----------------------------------------------------------------------------
VARIABLES
    routes,     \* the kernel's main routing table, in the order it lists it
    arpExists,  \* /proc/net/arp exists
    arp,        \* the ARP table
    addrs,      \* addrs[n]: the addresses of interface n
    srcIp,      \* the source IP NewEgressInterface is given
    gateway,    \* findDefaultGateway4's result
    arpEntries, \* getArpEntries's result
    egress,     \* the egressInterface returned
    pc          \* "gateway", "arp", "search", "done", "failed"

vars == <<routes, arpExists, arp, addrs, srcIp, gateway, arpEntries, egress, pc>>

TypeOK ==
    /\ routes \in Routes
    /\ addrs \in [Range(Ifaces) -> SUBSET Ips]
    /\ srcIp \in Ips
    /\ pc \in {"gateway", "arp", "search", "done", "failed"}

Init ==
    /\ routes \in Routes
    /\ arpExists \in BOOLEAN
    /\ arp \in ArpRows
    /\ addrs \in [Range(Ifaces) -> SUBSET Ips]
    /\ srcIp \in Ips
    /\ gateway = [ok |-> FALSE]
    /\ arpEntries = <<>>
    /\ egress = [ok |-> FALSE]
    /\ pc = "gateway"

(* findDefaultGateway4: parseProcFile over /proc/net/route.                *)
FindDefaultGateway ==
    /\ pc = "gateway"
    /\ gateway' = parseProcFile(RouteFile(routes))
    /\ pc' = IF gateway'.ok THEN "arp" ELSE "failed"
    /\ UNCHANGED <<routes, arpExists, arp, addrs, srcIp, arpEntries, egress>>

(* getArpEntries; a missing file is no error to NewEgressInterface.       *)
GetArpEntries ==
    /\ pc = "arp"
    /\ arpEntries' = IF arpExists THEN getArpEntries(ArpFile(arp)) ELSE <<>>
    /\ pc' = "search"
    /\ UNCHANGED <<routes, arpExists, arp, addrs, srcIp, gateway, egress>>

(***************************************************************************)
(* The loop over net.Interfaces() and their addresses: the first interface *)
(* with an address equal to srcIp makes the egressInterface; none is       *)
(* "Unable to find interface".  (On Linux every address is a *net.IPNet.)  *)
(***************************************************************************)
FindInterface ==
    /\ pc = "search"
    /\ LET hits == {i \in 1..Len(Ifaces) : srcIp \in addrs[Ifaces[i]]}
       IN IF hits = {}
          THEN pc' = "failed" /\ UNCHANGED egress
          ELSE /\ egress' = [ok |-> TRUE,
                             iface |-> Ifaces[CHOOSE i \in hits : \A j \in hits : i <= j],
                             src |-> srcIp,
                             defaultGateway |-> gateway.gw,
                             outgoingInterface |-> gateway.iface,
                             arpEntries |-> arpEntries]
               /\ pc' = "done"
    /\ UNCHANGED <<routes, arpExists, arp, addrs, srcIp, gateway, arpEntries>>

Next == FindDefaultGateway \/ GetArpEntries \/ FindInterface

Spec == Init /\ [][Next]_vars

-----------------------------------------------------------------------------
(***************************************************************************)
(* EgressMatchesKernel: NewEgressInterface succeeds exactly when the      *)
(* table has a default route and some interface holds srcIp, and then     *)
(* reports the first default route's interface and gateway address, an   *)
(* interface holding srcIp, and the ARP table as the kernel holds it.     *)
(***************************************************************************)
EgressMatchesKernel ==
    pc \in {"done", "failed"} =>
        LET defaults == {i \in 1..Len(routes) : routes[i].dest = <<0, 0, 0, 0>>}
            first == routes[CHOOSE i \in defaults : \A j \in defaults : i <= j]
        IN /\ (pc = "done") <=> (defaults # {} /\ \E n \in Range(Ifaces) : srcIp \in addrs[n])
           /\ pc = "done" =>
                 /\ egress.outgoingInterface = first.iface
                 /\ egress.defaultGateway = first.gw
                 /\ srcIp \in addrs[egress.iface]
                 /\ egress.arpEntries =
                       IF ~arpExists THEN <<>>
                       ELSE [i \in 1..Len(arp) |-> [ip |-> arp[i].ip, hw |-> arp[i].hw, dev |-> arp[i].dev]]
=============================================================================
