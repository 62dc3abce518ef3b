------------------------------ MODULE EgressProofs ------------------------------
(***************************************************************************)
(* Proof that NewEgressInterface (Egress.tla) agrees with the kernel's     *)
(* tables for every value of the constants: EgressMatchesKernel is an      *)
(* invariant of Spec.  The argument has two parts.  The parsers invert     *)
(* the kernel's printing: parseGatewayIP reads back the address written    *)
(* with %08X in host byte order, parseProcFile finds the first default     *)
(* route past the header, getArpEntries returns the table.  The steps then *)
(* keep IInv, which records what each finished step has computed.          *)
(***************************************************************************)
EXTENDS Egress, SequenceTheorems, WellFoundedInduction, TLAPS

(***************************************************************************)
(* The digit strconv.ParseInt gives a hexadecimal character is the value   *)
(* it was printed from.                                                    *)
(***************************************************************************)
LEMMA HexDigitOf ==
    ASSUME NEW d \in 0..15
    PROVE  HexDigit(HexDigits[d + 1]) = d
BY DEF HexDigit, HexDigits

(* The prefix values of ParseInt, as the function ParseHexByte defines.    *)
PrefixValue(s) ==
    CHOOSE v : v = [i \in 0..Len(s) |-> IF i = 0 THEN 0 ELSE 16 * v[i - 1] + HexDigit(s[i])]

(***************************************************************************)
(* ParseHexByte is the last prefix value of ParseInt, cut to a byte; the   *)
(* LET-defined function is the one PrefixValue names.                      *)
(***************************************************************************)
LEMMA ParseHexByteDef ==
    ASSUME NEW s
    PROVE  ParseHexByte(s) = PrefixValue(s)[Len(s)] % 256
BY DEF ParseHexByte, PrefixValue

(***************************************************************************)
(* Parsing the two hexadecimal digits of a byte gives the byte back:       *)
(* ParseInt inverts %02X.  The prefix values are given by an explicit      *)
(* fixpoint of their defining equation, so no induction is needed.         *)
(***************************************************************************)
LEMMA ParseTwo ==
    ASSUME NEW b \in 0..255
    PROVE  ParseHexByte(Hex2(b)) = b
<1> DEFINE hi == b \div 16
           lo == b % 16
           s == Hex2(b)
           F(f) == [i \in 0..Len(s) |-> IF i = 0 THEN 0 ELSE 16 * f[i - 1] + HexDigit(s[i])]
           w == [i \in 0..2 |-> IF i = 0 THEN 0 ELSE IF i = 1 THEN hi ELSE 16 * hi + lo]
<1>1. hi \in 0..15 /\ lo \in 0..15 /\ b = 16 * hi + lo
    OBVIOUS
<1>2. s = <<HexDigits[hi + 1], HexDigits[lo + 1]>> /\ Len(s) = 2
    BY DEF Hex2
<1>3. HexDigit(s[1]) = hi /\ HexDigit(s[2]) = lo
    BY <1>1, <1>2, HexDigitOf
<1>4. w = F(w)
    BY <1>2, <1>3
<1>5. PrefixValue(s) = F(PrefixValue(s))
    BY <1>4 DEF PrefixValue
<1>6. PrefixValue(s)[2] = 16 * hi + lo
    <2> DEFINE v == PrefixValue(s)
    <2>1. v[0] = 0
        BY <1>2, <1>5
    <2>2. v[1] = hi
        BY <1>2, <1>3, <1>5, <2>1
    <2>3. QED
        BY <1>2, <1>3, <1>5, <2>2
<1>7. ParseHexByte(s) = PrefixValue(s)[2] % 256
    BY <1>2, ParseHexByteDef
<1>8. QED
    BY <1>1, <1>6, <1>7

(***************************************************************************)
(* The IPv4 addresses: 4-tuples of bytes.                                  *)
(***************************************************************************)
IPv4 == [1..4 -> 0..255]

(***************************************************************************)
(* The characters that %X prints.                                          *)
(***************************************************************************)
HexChars == Range(HexDigits)

(***************************************************************************)
(* %02X of a byte is a two-character string of hexadecimal digits.         *)
(***************************************************************************)
LEMMA Hex2Type ==
    ASSUME NEW b \in 0..255
    PROVE  Hex2(b) \in Seq(HexChars) /\ Len(Hex2(b)) = 2
<1>1. b \div 16 \in 0..15 /\ b % 16 \in 0..15
    OBVIOUS
<1>2. \A k \in 1..16 : HexDigits[k] \in HexChars
    BY DEF HexDigits, HexChars, Range
<1>3. HexDigits[b \div 16 + 1] \in HexChars /\ HexDigits[(b % 16) + 1] \in HexChars
    BY <1>1, <1>2
<1>4. QED
    BY <1>3 DEF Hex2

(***************************************************************************)
(* Four strings written one after the other, as the kernel writes the      *)
(* bytes of an address.                                                    *)
(***************************************************************************)
Cat4(a, b, c, d) == a \o b \o c \o d

(***************************************************************************)
(* The slices g[0:2], g[2:4], g[4:6] and g[6:8] of four two-character      *)
(* strings written one after the other are those strings.                  *)
(***************************************************************************)
LEMMA Concat4 ==
    ASSUME NEW S, NEW a \in Seq(S), NEW b \in Seq(S), NEW c \in Seq(S), NEW d \in Seq(S),
           Len(a) = 2, Len(b) = 2, Len(c) = 2, Len(d) = 2
    PROVE  /\ Len(Cat4(a, b, c, d)) = 8
           /\ SubSeq(Cat4(a, b, c, d), 1, 2) = a /\ SubSeq(Cat4(a, b, c, d), 3, 4) = b
           /\ SubSeq(Cat4(a, b, c, d), 5, 6) = c /\ SubSeq(Cat4(a, b, c, d), 7, 8) = d
<1>0a. /\ a \o b \in Seq(S) /\ Len(a \o b) = Len(a) + Len(b)
       /\ \A i \in 1..Len(a) + Len(b) : (a \o b)[i] = IF i <= Len(a) THEN a[i] ELSE b[i - Len(a)]
    BY ConcatProperties, Zenon
<1>1. PICK ab \in Seq(S) :
          /\ ab = a \o b
          /\ Len(ab) = Len(a) + Len(b)
          /\ \A i \in 1..Len(a) + Len(b) : ab[i] = IF i <= Len(a) THEN a[i] ELSE b[i - Len(a)]
    BY <1>0a, Zenon
<1>0b. /\ ab \o c \in Seq(S) /\ Len(ab \o c) = Len(ab) + Len(c)
       /\ \A i \in 1..Len(ab) + Len(c) : (ab \o c)[i] = IF i <= Len(ab) THEN ab[i] ELSE c[i - Len(ab)]
    BY ConcatProperties, Zenon
<1>2. PICK abc \in Seq(S) :
          /\ abc = ab \o c
          /\ Len(abc) = Len(ab) + Len(c)
          /\ \A i \in 1..Len(ab) + Len(c) : abc[i] = IF i <= Len(ab) THEN ab[i] ELSE c[i - Len(ab)]
    BY <1>0b, Zenon
<1>0c. /\ abc \o d \in Seq(S) /\ Len(abc \o d) = Len(abc) + Len(d)
       /\ \A i \in 1..Len(abc) + Len(d) : (abc \o d)[i] = IF i <= Len(abc) THEN abc[i] ELSE d[i - Len(abc)]
    BY ConcatProperties, Zenon
<1>3. PICK g \in Seq(S) :
          /\ g = abc \o d
          /\ Len(g) = Len(abc) + Len(d)
          /\ \A i \in 1..Len(abc) + Len(d) : g[i] = IF i <= Len(abc) THEN abc[i] ELSE d[i - Len(abc)]
    BY <1>0c, Zenon
<1>4. /\ Len(ab) = Len(a) + Len(b)
      /\ \A i \in 1..Len(a) + Len(b) : ab[i] = IF i <= Len(a) THEN a[i] ELSE b[i - Len(a)]
      /\ Len(abc) = Len(ab) + Len(c)
      /\ \A i \in 1..Len(ab) + Len(c) : abc[i] = IF i <= Len(ab) THEN ab[i] ELSE c[i - Len(ab)]
      /\ Len(g) = Len(abc) + Len(d)
      /\ \A i \in 1..Len(abc) + Len(d) : g[i] = IF i <= Len(abc) THEN abc[i] ELSE d[i - Len(abc)]
    BY <1>1, <1>2, <1>3, Zenon
<1>5. /\ Len(g) = 8
      /\ SubSeq(g, 1, 2) = a /\ SubSeq(g, 3, 4) = b
      /\ SubSeq(g, 5, 6) = c /\ SubSeq(g, 7, 8) = d
    BY <1>4
<1>6. g = Cat4(a, b, c, d)
    BY <1>1, <1>2, <1>3, Zenon DEF Cat4
<1>7. QED
    BY <1>5, <1>6, Zenon
(***************************************************************************)
(* The kernel's hexadecimal address has 8 characters, and each slice       *)
(* parseGatewayIP takes holds the digits of one byte, last byte first.     *)
(***************************************************************************)
LEMMA KernelHexLayout ==
    ASSUME NEW ip \in IPv4
    PROVE  /\ Len(KernelHex(ip)) = 8
           /\ SubSeq(KernelHex(ip), 1, 2) = Hex2(ip[4])
           /\ SubSeq(KernelHex(ip), 3, 4) = Hex2(ip[3])
           /\ SubSeq(KernelHex(ip), 5, 6) = Hex2(ip[2])
           /\ SubSeq(KernelHex(ip), 7, 8) = Hex2(ip[1])
<1>1. \A k \in 1..4 : ip[k] \in 0..255
    BY DEF IPv4
<1>2. \A k \in 1..4 : Hex2(ip[k]) \in Seq(HexChars) /\ Len(Hex2(ip[k])) = 2
    BY <1>1, Hex2Type
<1>3. /\ Hex2(ip[4]) \in Seq(HexChars) /\ Len(Hex2(ip[4])) = 2
      /\ Hex2(ip[3]) \in Seq(HexChars) /\ Len(Hex2(ip[3])) = 2
      /\ Hex2(ip[2]) \in Seq(HexChars) /\ Len(Hex2(ip[2])) = 2
      /\ Hex2(ip[1]) \in Seq(HexChars) /\ Len(Hex2(ip[1])) = 2
    BY <1>2
<1>4. KernelHex(ip) = Cat4(Hex2(ip[4]), Hex2(ip[3]), Hex2(ip[2]), Hex2(ip[1]))
    BY Zenon DEF KernelHex, Cat4
<1>5. QED
    BY <1>3, <1>4, Concat4

(***************************************************************************)
(* parseGatewayIP reads back every address the kernel writes: it undoes    *)
(* both the hexadecimal printing and the little-endian byte order.         *)
(***************************************************************************)
LEMMA KernelHexRoundTrip ==
    ASSUME NEW ip \in IPv4
    PROVE  parseGatewayIP(KernelHex(ip)) = ip
<1>1. \A k \in 1..4 : ip[k] \in 0..255
    BY DEF IPv4
<1>2. /\ ParseHexByte(Hex2(ip[1])) = ip[1] /\ ParseHexByte(Hex2(ip[2])) = ip[2]
      /\ ParseHexByte(Hex2(ip[3])) = ip[3] /\ ParseHexByte(Hex2(ip[4])) = ip[4]
    BY <1>1, ParseTwo
<1>3. /\ ParseHexByte(SubSeq(KernelHex(ip), 7, Len(KernelHex(ip)))) = ip[1]
      /\ ParseHexByte(SubSeq(KernelHex(ip), 5, 6)) = ip[2]
      /\ ParseHexByte(SubSeq(KernelHex(ip), 3, 4)) = ip[3]
      /\ ParseHexByte(SubSeq(KernelHex(ip), 1, 2)) = ip[4]
    BY <1>2, KernelHexLayout, Zenon
<1>4. ip = <<ip[1], ip[2], ip[3], ip[4]>>
    BY DEF IPv4
<1>5. QED
    BY <1>3, <1>4 DEF parseGatewayIP

(***************************************************************************)
(* A route line's destination is "00000000" exactly when the route's       *)
(* destination is 0.0.0.0, the test parseProcFile relies on.               *)
(***************************************************************************)
LEMMA DefaultDestIff ==
    ASSUME NEW d \in IPv4
    PROVE  KernelHex(d) = DefaultDest <=> d = <<0, 0, 0, 0>>
<1>1. <<0, 0, 0, 0>> \in IPv4
    BY DEF IPv4
<1>2. ASSUME KernelHex(d) = DefaultDest PROVE d = <<0, 0, 0, 0>>
    <2>1. parseGatewayIP(KernelHex(d)) = parseGatewayIP(KernelHex(<<0, 0, 0, 0>>))
        BY <1>2 DEF DefaultDest
    <2>2. QED
        BY <1>1, <2>1, KernelHexRoundTrip
<1>3. QED
    BY <1>2 DEF DefaultDest

(***************************************************************************)
(* The header line of /proc/net/route never passes for a default route:    *)
(* its second field is "Destination", not "00000000".                      *)
(***************************************************************************)
LEMMA HeaderNotDefault == RouteHeader[2] # DefaultDest
<1>1. <<0, 0, 0, 0>> \in IPv4
    BY DEF IPv4
<1>2. Len(DefaultDest) = 8
    BY <1>1, KernelHexLayout DEF DefaultDest
<1>3. RouteHeader[2] = <<"D", "e", "s", "t">>
    BY DEF RouteHeader
<1>4. QED
    BY <1>2, <1>3
(***************************************************************************)
(* Every non-empty set of naturals has a least element (from the well-     *)
(* foundedness of < on Nat).                                               *)
(***************************************************************************)
LEMMA MinExists ==
    ASSUME NEW S \in SUBSET Nat, S # {}
    PROVE  \E m \in S : \A j \in S : m <= j
<1>1. \E x \in S : \A y \in S : ~(<<y, x>> \in OpToRel(<, Nat))
    BY NatLessThanWellFounded, WFMin
<1>2. PICK x \in S : \A y \in S : ~(<<y, x>> \in OpToRel(<, Nat))
    BY <1>1
<1>3. ASSUME NEW y \in S PROVE x <= y
    <2>1. ~(<<y, x>> \in OpToRel(<, Nat))
        BY <1>2
    <2>2. <<y, x>> \in Nat \X Nat
        OBVIOUS
    <2>3. ~(y < x)
        BY <2>1, <2>2 DEF OpToRel
    <2>4. QED
        BY <2>3
<1>4. QED
    BY <1>3

(***************************************************************************)
(* The least element, as parseProcFile and FindInterface choose the first  *)
(* hit.                                                                    *)
(***************************************************************************)
MinOf(S) == CHOOSE i \in S : \A j \in S : i <= j

(***************************************************************************)
(* MinOf picks a least element of a non-empty set of naturals.             *)
(***************************************************************************)
LEMMA MinOfSpec ==
    ASSUME NEW S \in SUBSET Nat, S # {}
    PROVE  MinOf(S) \in S /\ \A j \in S : MinOf(S) <= j
BY MinExists DEF MinOf

(***************************************************************************)
(* The line numbers of entries 1..n once the header line is put in front.  *)
(***************************************************************************)
Shift(D) == {i + 1 : i \in D}

(***************************************************************************)
(* The first line after the header is the line of the first entry.         *)
(***************************************************************************)
LEMMA MinShift ==
    ASSUME NEW D \in SUBSET Nat, D # {}
    PROVE  MinOf(Shift(D)) = MinOf(D) + 1
<1>1. \A x \in Shift(D) : \E i \in D : x = i + 1
    BY Zenon DEF Shift
<1>2. \A i \in D : i + 1 \in Shift(D)
    BY Zenon DEF Shift
<1>3. Shift(D) \subseteq Nat
    BY <1>1
<1>4. Shift(D) # {}
    <2>1. PICK d \in D : TRUE
        OBVIOUS
    <2>2. QED
        BY <1>2, <2>1
<1>5. MinOf(D) \in D /\ \A j \in D : MinOf(D) <= j
    BY MinOfSpec
<1>6. MinOf(Shift(D)) \in Shift(D) /\ \A j \in Shift(D) : MinOf(Shift(D)) <= j
    BY <1>3, <1>4, MinOfSpec
<1>6a. MinOf(D) \in Nat /\ MinOf(Shift(D)) \in Nat
    BY <1>3, <1>5, <1>6
<1>7. MinOf(Shift(D)) <= MinOf(D) + 1
    BY <1>2, <1>5, <1>6
<1>8. MinOf(D) + 1 <= MinOf(Shift(D))
    <2>1. PICK i \in D : MinOf(Shift(D)) = i + 1
        BY <1>1, <1>6
    <2>2. i \in Nat /\ MinOf(D) <= i
        BY <1>5, <2>1
    <2>3. QED
        BY <1>6a, <2>1, <2>2
<1>9. QED
    BY <1>6a, <1>7, <1>8
(***************************************************************************)
(* A file: its header line, then its entry lines.                          *)
(***************************************************************************)
Cons(h, f) == <<h>> \o f

(***************************************************************************)
(* The lines of a file are its header, then the entry lines one place      *)
(* further.                                                                *)
(***************************************************************************)
LEMMA ConsFront ==
    ASSUME NEW h, NEW n \in Nat, NEW f, f \in [1..n -> Range(f)]
    PROVE  /\ Len(Cons(h, f)) = n + 1
           /\ Cons(h, f)[1] = h
           /\ \A i \in 1..n : Cons(h, f)[i + 1] = f[i]
<1> DEFINE S == Range(f)
<1> USE DEF S
<1>1. /\ <<h>> \in Seq(S \cup {h}) /\ f \in Seq(S \cup {h})
      /\ Len(<<h>>) = 1 /\ Len(f) = n
    OBVIOUS
<1>2. /\ <<h>> \o f \in Seq(S \cup {h})
      /\ Len(<<h>> \o f) = Len(<<h>>) + Len(f)
      /\ \A i \in 1..Len(<<h>>) + Len(f) :
            (<<h>> \o f)[i] = IF i <= Len(<<h>>) THEN <<h>>[i] ELSE f[i - Len(<<h>>)]
    BY <1>1, ConcatProperties, Zenon
<1>3. PICK u \in Seq(S \cup {h}) :
          /\ u = <<h>> \o f
          /\ Len(u) = Len(<<h>>) + Len(f)
          /\ \A i \in 1..Len(<<h>>) + Len(f) : u[i] = IF i <= Len(<<h>>) THEN <<h>>[i] ELSE f[i - Len(<<h>>)]
    BY <1>2, Zenon
<1>4. /\ Len(u) = Len(<<h>>) + Len(f)
      /\ \A i \in 1..Len(<<h>>) + Len(f) : u[i] = IF i <= Len(<<h>>) THEN <<h>>[i] ELSE f[i - Len(<<h>>)]
    BY <1>3, Zenon
<1>5. Len(u) = n + 1 /\ u[1] = h /\ \A i \in 1..n : u[i + 1] = f[i]
    BY <1>1, <1>4
<1>6. u = Cons(h, f)
    BY <1>3, Zenon DEF Cons
<1>7. QED
    BY <1>5, <1>6, Zenon

(***************************************************************************)
(* The lines the kernel writes for the routes of the table.                *)
(***************************************************************************)
RouteRows(rt) ==
    [i \in 1..Len(rt) |-> <<rt[i].iface, KernelHex(rt[i].dest), KernelHex(rt[i].gw)>>]

(***************************************************************************)
(* A route of the table.                                                   *)
(***************************************************************************)
RouteEntry == [iface : Range(Ifaces), dest : Ips, gw : Ips]

(***************************************************************************)
(* A routing table is a sequence of routes.                                *)
(***************************************************************************)
LEMMA RoutesType ==
    ASSUME NEW rt \in Routes
    PROVE  rt \in Seq(RouteEntry)
<1>1. PICK n \in 0..MaxRoutes : rt \in [1..n -> RouteEntry]
    BY Zenon DEF Routes, RouteEntry
<1>2. QED
    BY <1>1, EgressAssumption

(***************************************************************************)
(* /proc/net/route: line 1 is the header, line i + 1 describes route i.    *)
(***************************************************************************)
LEMMA RouteFileLines ==
    ASSUME NEW rt \in Routes
    PROVE  /\ Len(RouteFile(rt)) = Len(rt) + 1
           /\ RouteFile(rt)[1] = RouteHeader
           /\ \A i \in 1..Len(rt) :
                 RouteFile(rt)[i + 1] = <<rt[i].iface, KernelHex(rt[i].dest), KernelHex(rt[i].gw)>>
<1>1. Len(rt) \in Nat
    BY RoutesType
<1>2. RouteRows(rt) \in [1..Len(rt) -> Range(RouteRows(rt))]
    BY DEF RouteRows, Range
<1>3. RouteFile(rt) = Cons(RouteHeader, RouteRows(rt))
    BY Zenon DEF RouteFile, Cons, RouteRows
<1>4. /\ Len(Cons(RouteHeader, RouteRows(rt))) = Len(rt) + 1
      /\ Cons(RouteHeader, RouteRows(rt))[1] = RouteHeader
      /\ \A i \in 1..Len(rt) : Cons(RouteHeader, RouteRows(rt))[i + 1] = RouteRows(rt)[i]
    BY <1>1, <1>2, ConsFront
<1>5. \A i \in 1..Len(rt) :
         RouteRows(rt)[i] = <<rt[i].iface, KernelHex(rt[i].dest), KernelHex(rt[i].gw)>>
    BY DEF RouteRows
<1>6. QED
    BY <1>3, <1>4, <1>5

(***************************************************************************)
(* Membership in the shifted set.                                          *)
(***************************************************************************)
LEMMA ShiftMem ==
    ASSUME NEW D, NEW x
    PROVE  x \in Shift(D) <=> \E i \in D : x = i + 1
BY Zenon DEF Shift

(***************************************************************************)
(* The default routes of a table, as EgressMatchesKernel names them.       *)
(***************************************************************************)
Defaults(rt) == {i \in 1..Len(rt) : rt[i].dest = <<0, 0, 0, 0>>}

(***************************************************************************)
(* The destination and gateway of a route are IPv4 addresses.              *)
(***************************************************************************)
LEMMA RouteEntryType ==
    ASSUME NEW rt \in Routes, NEW i \in 1..Len(rt)
    PROVE  rt[i].dest \in IPv4 /\ rt[i].gw \in IPv4
<1>1. rt[i] \in RouteEntry
    BY RoutesType
<1>2. QED
    BY <1>1, EgressAssumption DEF RouteEntry, IPv4

(***************************************************************************)
(* The lines parseProcFile takes for default routes are exactly the lines  *)
(* of the default routes.                                                  *)
(***************************************************************************)
LEMMA RouteHitsShift ==
    ASSUME NEW rt \in Routes
    PROVE  {i \in 1..Len(RouteFile(rt)) : RouteFile(rt)[i][2] = DefaultDest} = Shift(Defaults(rt))
<1>1. Len(rt) \in Nat
    BY RoutesType
<1>2. \A i \in 1..Len(rt) : RouteFile(rt)[i + 1][2] = DefaultDest <=> rt[i].dest = <<0, 0, 0, 0>>
    <2>1. SUFFICES ASSUME NEW i \in 1..Len(rt)
                   PROVE  RouteFile(rt)[i + 1][2] = DefaultDest <=> rt[i].dest = <<0, 0, 0, 0>>
        OBVIOUS
    <2>2. RouteFile(rt)[i + 1][2] = KernelHex(rt[i].dest)
        BY RouteFileLines
    <2>3. QED
        BY <2>2, RouteEntryType, DefaultDestIff
<1>3. RouteFile(rt)[1][2] # DefaultDest
    BY RouteFileLines, HeaderNotDefault
<1>4. ASSUME NEW x \in 1..Len(RouteFile(rt)), RouteFile(rt)[x][2] = DefaultDest
      PROVE  x \in Shift(Defaults(rt))
    <2>1. x # 1 /\ x - 1 \in 1..Len(rt)
        BY <1>1, <1>3, <1>4, RouteFileLines
    <2>2. x - 1 \in Defaults(rt)
        BY <1>2, <1>4, <2>1 DEF Defaults
    <2>3. QED
        BY <2>2, ShiftMem
<1>5. ASSUME NEW x \in Shift(Defaults(rt))
      PROVE  x \in 1..Len(RouteFile(rt)) /\ RouteFile(rt)[x][2] = DefaultDest
    <2>1. PICK i \in Defaults(rt) : x = i + 1
        BY <1>5, ShiftMem
    <2>2. i \in 1..Len(rt) /\ rt[i].dest = <<0, 0, 0, 0>>
        BY <2>1 DEF Defaults
    <2>3. QED
        BY <1>1, <1>2, <2>1, <2>2, RouteFileLines
<1>6. QED
    BY <1>4, <1>5

(***************************************************************************)
(* parseProcFile over the file the kernel writes: no default route is a    *)
(* failure, otherwise the result is the first default route's interface    *)
(* and gateway.                                                            *)
(***************************************************************************)
LEMMA RouteFileParse ==
    ASSUME NEW rt \in Routes
    PROVE  /\ Defaults(rt) = {} => parseProcFile(RouteFile(rt)) = [ok |-> FALSE]
           /\ Defaults(rt) # {} =>
                 parseProcFile(RouteFile(rt)) =
                    [ok |-> TRUE, iface |-> rt[MinOf(Defaults(rt))].iface,
                     gw |-> rt[MinOf(Defaults(rt))].gw]
<1> DEFINE D == Defaults(rt)
           lines == RouteFile(rt)
<1>1. parseProcFile(lines) =
         IF Shift(D) = {} THEN [ok |-> FALSE]
         ELSE [ok |-> TRUE, iface |-> lines[MinOf(Shift(D))][1],
               gw |-> parseGatewayIP(lines[MinOf(Shift(D))][3])]
    BY RouteHitsShift DEF parseProcFile, MinOf, D, lines
<1>2. D = {} <=> Shift(D) = {}
    BY ShiftMem
<1>3. ASSUME D # {}
      PROVE  parseProcFile(lines) =
                [ok |-> TRUE, iface |-> rt[MinOf(D)].iface, gw |-> rt[MinOf(D)].gw]
    <2>1. D \subseteq 1..Len(rt) /\ Len(rt) \in Nat
        BY RoutesType DEF D, Defaults
    <2>2. MinOf(D) \in 1..Len(rt) /\ MinOf(Shift(D)) = MinOf(D) + 1
        BY <1>3, <2>1, MinOfSpec, MinShift
    <2>3. lines[MinOf(D) + 1] =
             <<rt[MinOf(D)].iface, KernelHex(rt[MinOf(D)].dest), KernelHex(rt[MinOf(D)].gw)>>
        BY <2>2, RouteFileLines DEF lines
    <2>4. parseGatewayIP(KernelHex(rt[MinOf(D)].gw)) = rt[MinOf(D)].gw
        BY <2>2, RouteEntryType, KernelHexRoundTrip
    <2>5. Shift(D) # {}
        BY <1>2, <1>3
    <2>6. parseProcFile(lines) =
             [ok |-> TRUE, iface |-> lines[MinOf(D) + 1][1],
              gw |-> parseGatewayIP(lines[MinOf(D) + 1][3])]
        BY <1>1, <2>2, <2>5, Zenon
    <2>7. lines[MinOf(D) + 1][1] = rt[MinOf(D)].iface
          /\ lines[MinOf(D) + 1][3] = KernelHex(rt[MinOf(D)].gw)
        BY <2>3
    <2>8. QED
        BY <2>4, <2>6, <2>7, Zenon
<1>4. QED
    BY <1>1, <1>2, <1>3 DEF D, lines

(***************************************************************************)
(* The lines the kernel writes for the ARP table.                          *)
(***************************************************************************)
ArpLines(rows) ==
    [i \in 1..Len(rows) |-> <<rows[i].ip, "0x1", "0x2", rows[i].hw, "*", rows[i].dev>>]

(***************************************************************************)
(* The ARP table as the entries NewEgressInterface should report.          *)
(***************************************************************************)
ArpValueOf(rows) ==
    [i \in 1..Len(rows) |-> [ip |-> rows[i].ip, hw |-> rows[i].hw, dev |-> rows[i].dev]]

(***************************************************************************)
(* getArpEntries over the file the kernel writes gives back every ARP      *)
(* entry, in order, and nothing for the header.                            *)
(***************************************************************************)
LEMMA ArpFileParse ==
    ASSUME NEW rows \in ArpRows
    PROVE  getArpEntries(ArpFile(rows)) = ArpValueOf(rows)
<1>1. PICK n \in 0..MaxArp : rows \in [1..n -> [ip : Ips, hw : Hws, dev : Range(Ifaces)]]
    BY Zenon DEF ArpRows
<1>2. Len(rows) = n /\ n \in Nat
    BY <1>1, EgressAssumption
<1>3. ArpLines(rows) \in [1..Len(rows) -> Range(ArpLines(rows))]
    BY DEF ArpLines, Range
<1>4. ArpFile(rows) = Cons(ArpHeader, ArpLines(rows))
    BY Zenon DEF ArpFile, Cons, ArpLines
<1>5. /\ Len(Cons(ArpHeader, ArpLines(rows))) = Len(rows) + 1
      /\ \A i \in 1..Len(rows) : Cons(ArpHeader, ArpLines(rows))[i + 1] = ArpLines(rows)[i]
    BY <1>2, <1>3, ConsFront
<1>6. /\ Len(ArpFile(rows)) - 1 = Len(rows)
      /\ \A i \in 1..Len(rows) : ArpFile(rows)[i + 1] = ArpLines(rows)[i]
    BY <1>2, <1>4, <1>5
<1>7. \A i \in 1..Len(rows) :
         /\ ArpLines(rows)[i][1] = rows[i].ip
         /\ ArpLines(rows)[i][4] = rows[i].hw
         /\ ArpLines(rows)[i][6] = rows[i].dev
    BY DEF ArpLines
<1>8. QED
    BY <1>6, <1>7 DEF getArpEntries, ArpValueOf

(***************************************************************************)
(* The positions of the interfaces that hold the source IP.                *)
(***************************************************************************)
IfaceHits == {i \in 1..Len(Ifaces) : srcIp \in addrs[Ifaces[i]]}

(***************************************************************************)
(* What getArpEntries returns, a missing file giving no entries.           *)
(***************************************************************************)
ArpValue == IF arpExists THEN getArpEntries(ArpFile(arp)) ELSE <<>>

(***************************************************************************)
(* The inductive invariant: each result NewEgressInterface has computed so *)
(* far is the one its step computes from the (unchanging) kernel tables; a *)
(* failure has a reason; a success is built from the first interface       *)
(* holding the source IP.                                                  *)
(***************************************************************************)
IInv ==
    /\ TypeOK
    /\ arpExists \in BOOLEAN /\ arp \in ArpRows
    /\ pc # "gateway" => gateway = parseProcFile(RouteFile(routes))
    /\ pc \in {"arp", "search", "done"} => gateway.ok = TRUE
    /\ pc \in {"search", "done"} => arpEntries = ArpValue
    /\ pc = "failed" => gateway.ok = FALSE \/ IfaceHits = {}
    /\ pc = "done" =>
          /\ IfaceHits # {}
          /\ egress = [ok |-> TRUE,
                       iface |-> Ifaces[MinOf(IfaceHits)],
                       src |-> srcIp,
                       defaultGateway |-> gateway.gw,
                       outgoingInterface |-> gateway.iface,
                       arpEntries |-> arpEntries]

(***************************************************************************)
(* The invariant holds before findDefaultGateway4 runs.                    *)
(***************************************************************************)
LEMMA InitIInv == Init => IInv
BY DEF Init, IInv, TypeOK

(***************************************************************************)
(* parseProcFile's result has a Boolean ok field.                          *)
(***************************************************************************)
LEMMA GatewayOk ==
    ASSUME NEW rt \in Routes
    PROVE  parseProcFile(RouteFile(rt)).ok \in BOOLEAN
<1>1. CASE Defaults(rt) = {}
    <2>1. parseProcFile(RouteFile(rt)) = [ok |-> FALSE]
        BY <1>1, RouteFileParse
    <2>2. QED
        BY <2>1
<1>2. CASE Defaults(rt) # {}
    <2>1. parseProcFile(RouteFile(rt)) =
             [ok |-> TRUE, iface |-> rt[MinOf(Defaults(rt))].iface,
              gw |-> rt[MinOf(Defaults(rt))].gw]
        BY <1>2, RouteFileParse
    <2>2. QED
        BY <2>1
<1>3. QED
    BY <1>1, <1>2

(***************************************************************************)
(* Each step of NewEgressInterface keeps the invariant.                    *)
(***************************************************************************)
LEMMA NextIInv == IInv /\ [Next]_vars => IInv'
<1> SUFFICES ASSUME IInv, [Next]_vars PROVE IInv'
    OBVIOUS
<1>1. CASE FindDefaultGateway
    <2>1. gateway' = parseProcFile(RouteFile(routes')) /\ gateway'.ok \in BOOLEAN
        BY <1>1, GatewayOk DEF FindDefaultGateway, IInv, TypeOK
    <2>2. CASE gateway'.ok = TRUE
        <3>1. pc' = "arp"
            BY <1>1, <2>2 DEF FindDefaultGateway
        <3>2. QED
            BY <1>1, <2>1, <2>2, <3>1 DEF FindDefaultGateway, IInv, TypeOK
    <2>3. CASE gateway'.ok = FALSE
        <3>1. pc' = "failed"
            BY <1>1, <2>3 DEF FindDefaultGateway
        <3>2. QED
            BY <1>1, <2>1, <2>3, <3>1 DEF FindDefaultGateway, IInv, TypeOK
    <2>4. QED
        BY <2>1, <2>2, <2>3
<1>2. CASE GetArpEntries
    BY <1>2 DEF GetArpEntries, IInv, TypeOK, IfaceHits, ArpValue
<1>3. CASE FindInterface
    <2>1. IfaceHits' = IfaceHits
        BY <1>3 DEF FindInterface, IfaceHits
    <2>2. CASE IfaceHits = {}
        BY <1>3, <2>1, <2>2 DEF FindInterface, IInv, TypeOK, IfaceHits
    <2>3. CASE IfaceHits # {}
        <3>1. /\ pc' = "done"
              /\ egress' = [ok |-> TRUE,
                            iface |-> Ifaces[MinOf(IfaceHits)],
                            src |-> srcIp,
                            defaultGateway |-> gateway.gw,
                            outgoingInterface |-> gateway.iface,
                            arpEntries |-> arpEntries]
              /\ UNCHANGED <<routes, arpExists, arp, addrs, srcIp, gateway, arpEntries>>
            BY <1>3, <2>3, Zenon DEF FindInterface, IfaceHits, MinOf
        <3>2. pc = "search"
            BY <1>3 DEF FindInterface
        <3>3. QED
            BY <2>1, <2>3, <3>1, <3>2 DEF IInv, TypeOK, ArpValue
    <2>4. QED
        BY <2>2, <2>3
<1>4. CASE UNCHANGED vars
    BY <1>4 DEF vars, IInv, TypeOK, IfaceHits, ArpValue
<1>5. QED
    BY <1>1, <1>2, <1>3, <1>4 DEF Next

(***************************************************************************)
(* Some interface holds the source IP exactly when the loop over           *)
(* net.Interfaces has a hit, and the first hit holds it.                   *)
(***************************************************************************)
LEMMA IfaceHitsFacts ==
    ASSUME TypeOK
    PROVE  /\ IfaceHits # {} <=> \E n \in Range(Ifaces) : srcIp \in addrs[n]
           /\ IfaceHits # {} => srcIp \in addrs[Ifaces[MinOf(IfaceHits)]]
<1>1. DOMAIN Ifaces = 1..Len(Ifaces)
    BY EgressAssumption
<1>2. ASSUME NEW n \in Range(Ifaces), srcIp \in addrs[n] PROVE IfaceHits # {}
    <2>1. PICK i \in DOMAIN Ifaces : Ifaces[i] = n
        BY <1>2 DEF Range
    <2>2. i \in IfaceHits
        BY <1>1, <1>2, <2>1 DEF IfaceHits
    <2>3. QED
        BY <2>2
<1>3. ASSUME IfaceHits # {} PROVE srcIp \in addrs[Ifaces[MinOf(IfaceHits)]]
    <2>1. IfaceHits \subseteq Nat
        BY DEF IfaceHits
    <2>2. MinOf(IfaceHits) \in IfaceHits
        BY <1>3, <2>1, MinOfSpec
    <2>3. QED
        BY <2>2 DEF IfaceHits
<1>4. ASSUME IfaceHits # {} PROVE \E n \in Range(Ifaces) : srcIp \in addrs[n]
    <2>1. PICK i \in IfaceHits : TRUE
        BY <1>4
    <2>2. Ifaces[i] \in Range(Ifaces) /\ srcIp \in addrs[Ifaces[i]]
        BY <1>1, <2>1 DEF IfaceHits, Range
    <2>3. QED
        BY <2>2
<1>5. QED
    BY <1>2, <1>3, <1>4

(***************************************************************************)
(* The invariant implies EgressMatchesKernel.                              *)
(***************************************************************************)
LEMMA IInvMatch == IInv => EgressMatchesKernel
<1> SUFFICES ASSUME IInv, pc \in {"done", "failed"}
             PROVE  /\ (pc = "done") <=> (Defaults(routes) # {} /\ \E n \in Range(Ifaces) : srcIp \in addrs[n])
                    /\ pc = "done" =>
                          /\ egress.outgoingInterface = routes[MinOf(Defaults(routes))].iface
                          /\ egress.defaultGateway = routes[MinOf(Defaults(routes))].gw
                          /\ srcIp \in addrs[egress.iface]
                          /\ egress.arpEntries =
                                IF ~arpExists THEN <<>>
                                ELSE [i \in 1..Len(arp) |-> [ip |-> arp[i].ip, hw |-> arp[i].hw, dev |-> arp[i].dev]]
    BY Zenon DEF EgressMatchesKernel, Defaults, MinOf
<1>1. routes \in Routes /\ TypeOK /\ arp \in ArpRows
    BY DEF IInv, TypeOK
<1>2. /\ Defaults(routes) = {} => parseProcFile(RouteFile(routes)) = [ok |-> FALSE]
      /\ Defaults(routes) # {} =>
            parseProcFile(RouteFile(routes)) =
               [ok |-> TRUE, iface |-> routes[MinOf(Defaults(routes))].iface,
                gw |-> routes[MinOf(Defaults(routes))].gw]
    BY <1>1, RouteFileParse
<1>3. /\ IfaceHits # {} <=> \E n \in Range(Ifaces) : srcIp \in addrs[n]
      /\ IfaceHits # {} => srcIp \in addrs[Ifaces[MinOf(IfaceHits)]]
    BY <1>1, IfaceHitsFacts
<1>4. ArpValue = IF ~arpExists THEN <<>>
                 ELSE [i \in 1..Len(arp) |-> [ip |-> arp[i].ip, hw |-> arp[i].hw, dev |-> arp[i].dev]]
    BY <1>1, ArpFileParse DEF ArpValue, ArpValueOf
<1>5. CASE pc = "done"
    <2>1. /\ gateway = parseProcFile(RouteFile(routes))
          /\ gateway.ok = TRUE
          /\ arpEntries = ArpValue
          /\ IfaceHits # {}
          /\ egress = [ok |-> TRUE,
                       iface |-> Ifaces[MinOf(IfaceHits)],
                       src |-> srcIp,
                       defaultGateway |-> gateway.gw,
                       outgoingInterface |-> gateway.iface,
                       arpEntries |-> arpEntries]
        BY <1>5 DEF IInv
    <2>2. Defaults(routes) # {}
        BY <1>2, <2>1
    <2>3. QED
        BY <1>2, <1>3, <1>4, <1>5, <2>1, <2>2
<1>6. CASE pc = "failed"
    <2>1. gateway = parseProcFile(RouteFile(routes))
          /\ (gateway.ok = FALSE \/ IfaceHits = {})
        BY <1>6 DEF IInv
    <2>2. ~(Defaults(routes) # {} /\ \E n \in Range(Ifaces) : srcIp \in addrs[n])
        BY <1>2, <1>3, <2>1
    <2>3. QED
        BY <1>6, <2>2
<1>7. QED
    BY <1>5, <1>6

(***************************************************************************)
(* NewEgressInterface agrees with the kernel's tables: it succeeds exactly *)
(* when the routing table has a default route and an interface holds the   *)
(* source IP, and then reports the first default route's interface and     *)
(* gateway, an interface holding the source IP and the ARP table, for      *)
(* every table, interface list and address the constants allow.           *)
(***************************************************************************)
THEOREM EgressMatchesKernelHolds == Spec => []EgressMatchesKernel
<1>1. Init => IInv
    BY InitIInv
<1>2. IInv /\ [Next]_vars => IInv'
    BY NextIInv
<1>3. IInv => EgressMatchesKernel
    BY IInvMatch
<1>4. QED
    BY <1>1, <1>2, <1>3, PTL DEF Spec
=============================================================================
