-------------------------- MODULE MC_PacketCapture --------------------------
(***************************************************************************)
(* Small instance of PacketCapture. Watermarks keep the source's shape     *)
(* (LWAT = BATCH, HWAT = 4 * LWAT would be 64/64/256): LWAT = BATCH = 2    *)
(* and HWAT = 4 leave room for tryLock to fail twice before the blocking   *)
(* lock. One TCP connection between 10.0.0.1:80 and 10.0.0.2:443 is       *)
(* listed either in tcp (inode 7) or, IPv4-mapped, in tcp6 (inode 8).      *)
(***************************************************************************)
EXTENDS PacketCapture

A1 == 1
A2 == 2
Mapped(a) == [hi |-> "mapped", lo |-> a]

MCTables ==
  { <<<<[src |-> A1, sport |-> 80, dst |-> A2, dport |-> 443, ino |-> 7]>>,
      <<>>, <<>>, <<>>>>,
    <<<<>>, <<>>,
      <<[src |-> Mapped(A1), sport |-> 80, dst |-> Mapped(A2), dport |-> 443,
         ino |-> 8]>>, <<>>>> }

\* The same connection, owned by one socket inode, listed in tcp, in tcp6
\* (IPv4-mapped), or in udp, where only its forward direction is indexed:
\* payloads differ only in order and direction. In the fourth variant its
\* tcp row has inode 0 (a socket in TIME_WAIT, owned by no process).
MCOneInodeTables ==
  { <<<<[src |-> A1, sport |-> 80, dst |-> A2, dport |-> 443, ino |-> 7]>>,
      <<>>, <<>>, <<>>>>,
    <<<<[src |-> A1, sport |-> 80, dst |-> A2, dport |-> 443, ino |-> 0]>>,
      <<>>, <<>>, <<>>>>,
    <<<<>>, <<>>,
      <<[src |-> Mapped(A1), sport |-> 80, dst |-> Mapped(A2), dport |-> 443,
         ino |-> 7]>>, <<>>>>,
    <<<<>>,
      <<[src |-> A1, sport |-> 80, dst |-> A2, dport |-> 443, ino |-> 7]>>,
      <<>>, <<>>>> }

\* Hardware addresses are two bytes here; 0x0A prints as "a" under "%x".
HostMac  == <<10, 171>>
OtherMac == <<171, 205>>

MCPackets ==
  { [fam |-> 4, src |-> A1, sport |-> 80, dst |-> A2, dport |-> 443,
     dmac |-> OtherMac],
    [fam |-> 4, src |-> A2, sport |-> 443, dst |-> A1, dport |-> 80,
     dmac |-> HostMac] }


\* A second interface, whose address prints the same under "%x" and "%02X",
\* comes and goes; packets are sent to it.
MCIfaceSets == {{HostMac}, {HostMac, OtherMac}}

\* An interface no captured packet is addressed to comes and goes.
SpareMac == <<205, 171>>
MCSpareIfaces == {{HostMac}, {HostMac, SpareMac}}

MCHostMacs == {HostMac, OtherMac, SpareMac}

\* The interface packets are sent to is replaced by another; neither has a
\* byte below 0x10, so only the cache's staleness can misclassify.
MCStaleIfaces == {{OtherMac}, {SpareMac}}

\* The host's interfaces never change.
MCFixedIfaces == {{HostMac}}
=============================================================================
