----------------------------- MODULE ConnIndex -----------------------------
(***************************************************************************)
(* The connection-table index of src/src/system/netif_packet_capture.cpp:  *)
(* readSockStat() parsing the four kernel socket tables into a multimap    *)
(* keyed by the hash of "src:port-dst:port", and the two lookups           *)
(* pcap_callback() does against it: the owning inode of a packet and its   *)
(* direction from the destination hardware address.                        *)
(*                                                                         *)
(* Abstractions. inet_ntop followed by QString("%1:%2-%3:%4") is injective *)
(* on (family, address, port), so the formatted pattern is represented by  *)
(* the tuple it prints, <<Ntop(src), sport, Ntop(dst), dport>>, and        *)
(* the 64-bit hash of it by the tuple itself (hash collisions are listed   *)
(* as a hazard, not modelled). An IPv6 address is a record [hi, lo]: hi    *)
(* says whether its first three 32-bit words are 0:0:0 ("zero"),           *)
(* 0:0:0xffff0000 ("mapped") or anything else ("other"); lo is the fourth  *)
(* word, read as an IPv4 address. A hardware address is a tuple of bytes.  *)
(***************************************************************************)
EXTENDS Naturals, Sequences

CONSTANTS
  V4Addrs,    \* IPv4 addresses (the fourth word of an IPv6 address too)
  Ports,      \* port numbers
  Inodes      \* socket inode numbers; 0 means "not bound to a process"

\* The four tables read, in the order readSockStat reads them.
Files == <<[fam |-> 4, proto |-> "tcp"], [fam |-> 4, proto |-> "udp"],
           [fam |-> 6, proto |-> "tcp"], [fam |-> 6, proto |-> "udp"]>>

V6Addrs == [hi : {"zero", "mapped", "other"}, lo : V4Addrs]

\* One data line of a table after sscanf: the header line, for which sscanf
\* returns 0, is not a Row and is skipped by construction.
Rows(fam) ==
  [src : IF fam = 4 THEN V4Addrs ELSE V6Addrs, sport : Ports,
   dst : IF fam = 4 THEN V4Addrs ELSE V6Addrs, dport : Ports,
   ino : Inodes \cup {0}]

(***************************************************************************)
(* parseSocks for one row: drop it when ino = 0, turn an IPv6 row whose    *)
(* source is IPv4-mapped into an IPv4 row (both addresses take their last  *)
(* word, the destination whether or not it is mapped), and produce the     *)
(* forward pattern and, for TCP only, the reverse one.                     *)
(***************************************************************************)
Normalize(f, r) ==
  IF f.fam = 6 /\ r.src.hi = "mapped"
  THEN [fam |-> 4, src |-> r.src.lo, sport |-> r.sport,
        dst |-> r.dst.lo, dport |-> r.dport, ino |-> r.ino]
  ELSE [fam |-> f.fam, src |-> r.src, sport |-> r.sport,
        dst |-> r.dst, dport |-> r.dport, ino |-> r.ino]

\* inet_ntop text of an address: an IPv4 address never prints like an
\* IPv6 one ("1.2.3.4" against "::ffff:1.2.3.4").
Ntop(fam, a) == IF fam = 4 THEN [hi |-> "v4", lo |-> a] ELSE a

Pattern(fam, s, sp, d, dp) == <<Ntop(fam, s), sp, Ntop(fam, d), dp>>

\* Mutation: the reverse pattern is left out for TCP rows as well.
RowEntries_noReverse(f, r) ==
  LET n == Normalize(f, r)
  IN  IF r.ino = 0 THEN <<>>
      ELSE <<<<Pattern(n.fam, n.src, n.sport, n.dst, n.dport), n.ino>>>>

RowEntries(f, r) ==
  LET n  == Normalize(f, r)
      fw == <<Pattern(n.fam, n.src, n.sport, n.dst, n.dport), n.ino>>
      bw == <<Pattern(n.fam, n.dst, n.dport, n.src, n.sport), n.ino>>
  IN  IF r.ino = 0 THEN <<>>
      ELSE IF f.proto = "tcp" THEN <<fw, bw>> ELSE <<fw>>

RECURSIVE FileEntries(_, _)
FileEntries(f, rows) ==
  IF rows = <<>> THEN <<>>
  ELSE RowEntries(f, Head(rows)) \o FileEntries(f, Tail(rows))

(***************************************************************************)
(* readSockStat: clear the map, then parse tcp, udp, tcp6, udp6 in that    *)
(* order. The index is the sequence of (key, inode) insertions; a table    *)
(* that cannot be opened is a table with no rows (its failure only changes *)
(* the ignored return value).                                              *)
(***************************************************************************)
ReadSockStat(tables) ==
  FileEntries(Files[1], tables[1]) \o FileEntries(Files[2], tables[2])
    \o FileEntries(Files[3], tables[3]) \o FileEntries(Files[4], tables[4])

\* m_sockStats.contains(hash)
Indexed(index, key) == \E i \in DOMAIN index : index[i][1] = key

\* m_sockStats.find(hash)->ino: QMultiMap::find yields the most recently
\* inserted value under the key, and the loop takes the first one it meets.
LookupIno(index, key) ==
  LET last == CHOOSE i \in DOMAIN index :
                /\ index[i][1] = key
                /\ \A j \in DOMAIN index : index[j][1] = key => j <= i
  IN  index[last][2]

(***************************************************************************)
(* A captured packet after NetifPacketParser::parsePacket: family,         *)
(* addresses, ports and the destination hardware address of its frame.    *)
(***************************************************************************)
PacketPattern(p) == Pattern(p.fam, p.src, p.sport, p.dst, p.dport)

(***************************************************************************)
(* Hardware-address text. pcap_callback prints the destination address     *)
(* with "%x:%x:%x:%x:%x:%x" and upper-cases it; QNetworkInterface prints   *)
(* two upper-case hex digits per byte. Text is a sequence (one element per *)
(* byte, the ':' separators implied) of digit values; upper-casing only    *)
(* changes the case of a digit, so after toUpper() digit values compare    *)
(* exactly as the strings do.                                              *)
(***************************************************************************)
HexX(b)   == IF b < 16 THEN <<b>> ELSE <<b \div 16, b % 16>>
Hex02X(b) == <<b \div 16, b % 16>>

FormatDMac(mac)      == [i \in DOMAIN mac |-> HexX(mac[i])]
HardwareAddress(mac) == [i \in DOMAIN mac |-> Hex02X(mac[i])]

\* The inbound/outbound decision of pcap_callback.
Direction(p, ifaddrsCache) ==
  IF FormatDMac(p.dmac) \in ifaddrsCache THEN "in" ELSE "out"

=============================================================================
