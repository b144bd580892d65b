---------------------------- MODULE PacketCapture ----------------------------
(***************************************************************************)
(* The packet-capture job of src/src/system/netif_packet_capture.cpp and   *)
(* its hand-off to the network monitor.                                    *)
(*                                                                         *)
(* Capture thread (NetifPacketCapture): startNetifMonitorJob opens the     *)
(* pcap handle; every call of dispatchPackets first flushes the local      *)
(* pending queue by watermark, then loops: check the quit flag, refresh    *)
(* the socket index and the interface-address cache when due, and run      *)
(* pcap_dispatch, which calls pcap_callback once per packet (at most       *)
(* PACKET_DISPATCH_BATCH_COUNT times). pcap_callback resolves the packet's *)
(* inode from the index, appends the payload to m_localPendingPackets and  *)
(* moves that queue to the monitor's m_pendingPackets: with tryLock when   *)
(* its size is in [LWAT, HWAT), with a blocking lock at HWAT or above.     *)
(*                                                                         *)
(* Consumer (the monitor's tick; its code is not in the repository): takes *)
(* m_pktqLock with a blocking acquire, drains m_pendingPackets, unlocks.   *)
(*                                                                         *)
(* The pcap handle is "none" (never created), "open", "closed" (after      *)
(* pcap_close) or "invalid" (a closed handle was dispatched on or closed   *)
(* again: undefined behaviour, kept as an absorbing state).                *)
(***************************************************************************)
EXTENDS Naturals, Sequences, ConnIndex

CONSTANTS
  BATCH,       \* PACKET_DISPATCH_BATCH_COUNT
  LWAT,        \* PACKET_DISPATCH_QUEUE_LWAT
  HWAT,        \* PACKET_DISPATCH_QUEUE_HWAT
  Tables,      \* possible contents of the four kernel socket tables
  Packets,     \* packets that can appear on the device, as parsed
  HostMacs,    \* hardware addresses the host's interfaces can have
  IfaceSets,   \* the sets of interface addresses the host can have over time
  MaxPackets   \* bound on the number of resolved packets in a behaviour

ASSUME /\ BATCH \in Nat \ {0}
       /\ LWAT \in Nat \ {0}
       /\ HWAT \in Nat /\ LWAT < HWAT
       /\ MaxPackets \in Nat
       /\ IfaceSets \subseteq SUBSET HostMacs

VARIABLES
  go,          \* NetifPacketCapture::go
  handle,      \* m_handle: "none", "open", "closed", "invalid"
  pc,          \* capture thread: "start", "idle", "loop", "dispatch", "cbWait"
  batch,       \* packets handed to pcap_callback by the running pcap_dispatch
  firstIter,   \* last_sockstat = last_ifaddrs_refresh = 0 (locals of the call)
  quit,        \* m_quitRequested
  kernel,      \* the kernel socket tables
  sockStats,   \* m_sockStats, as the sequence of its insertions
  ifaddrs,     \* m_ifaddrsHashCache (keys)
  ifaces,      \* hardware addresses of the host's interfaces now
  refreshed,   \* ghost: the interfaces seen by the last refreshIfAddrsHashCache
  local,       \* m_localPendingPackets
  lock,        \* m_pktqLock: "free" or "consumer"
  shared,      \* NetifMonitor::m_pendingPackets
  drained,     \* payloads the consumer has taken, in order
  listed,      \* ghost: the kernel tables the last readSockStat read
  lastCb,      \* ghost: whether the last pcap_callback resolved its packet,
               \* and whether the tables read at the last refresh list it
  history      \* ghost: every resolved packet with its payload, in capture order,
               \* and whether it was sent to an interface of the last refresh

vars == <<go, handle, pc, batch, firstIter, quit, kernel, sockStats, ifaddrs, ifaces, refreshed,
          local, lock, shared, drained, listed, lastCb, history>>

Payload == [id : Nat, ino : Inodes, dir : {"in", "out"}]

-----------------------------------------------------------------------------
(* Queue hand-off helpers shared by dispatchPackets and pcap_callback.     *)

\* append m_localPendingPackets to m_pendingPackets and clear it
MoveLocal(q) == /\ shared' = shared \o q
                /\ local' = <<>>

\* Mutation: the local queue is cleared whether or not tryLock succeeded.
TryMove_clearAlways(q) ==
  /\ shared' = IF lock = "free" THEN shared \o q ELSE shared
  /\ local' = <<>>

\* m_pktqLock.tryLock(): move on success, keep the queue on failure
TryMove(q) == IF lock = "free" THEN MoveLocal(q)
              ELSE /\ local' = q
                   /\ UNCHANGED shared

\* pcap_close(m_handle)
ClosePcap == handle' = IF handle = "open" THEN "closed" ELSE "invalid"

(* refreshIfAddrsHashCache: insert the hardware address of every current   *)
(* interface; nothing is ever removed.                                     *)
RefreshIfAddrsHashCache ==
  /\ ifaddrs' = ifaddrs \cup {HardwareAddress(m) : m \in ifaces}
  /\ refreshed' = ifaces

(***************************************************************************)
(* Spec 4.5 and properties 4, 5 and 8, stated on the tables themselves:    *)
(* a connection is listed when a row with a non-zero inode has the         *)
(* packet's endpoints, in either direction for a TCP table and forwards    *)
(* only for a UDP one; an IPv4-mapped IPv6 address is its IPv4 address.    *)
(* This is a reference for the ghost lastCb, not a model of code.          *)
(***************************************************************************)
SpecAddr(fam, a) ==
  IF fam = 4 THEN [hi |-> "v4", lo |-> a]
  ELSE IF a.hi = "mapped" THEN [hi |-> "v4", lo |-> a.lo] ELSE a

Listed(p, tables) ==
  LET ends == <<SpecAddr(p.fam, p.src), p.sport, SpecAddr(p.fam, p.dst), p.dport>>
  IN  \E i \in DOMAIN Files : \E j \in DOMAIN tables[i] :
        LET f == Files[i]
            w == tables[i][j]
            fw == <<SpecAddr(f.fam, w.src), w.sport, SpecAddr(f.fam, w.dst), w.dport>>
        IN  /\ w.ino # 0
            /\ \/ fw = ends
               \/ f.proto = "tcp" /\ <<fw[3], fw[4], fw[1], fw[2]>> = ends

-----------------------------------------------------------------------------
(* startNetifMonitorJob, called from the constructor: pcap_lookupdev or    *)
(* pcap_create failing leaves no handle; pcap_setnonblock or pcap_activate *)
(* failing closes the handle; otherwise go is set.                         *)
Start ==
  /\ pc = "start"
  /\ \/ /\ handle' = "none"
        /\ UNCHANGED go
     \/ /\ handle' = "closed"
        /\ UNCHANGED go
     \/ /\ handle' = "open"
        /\ go' = TRUE
  /\ pc' = "idle"
  /\ UNCHANGED <<batch, firstIter, quit, kernel, sockStats, ifaddrs, ifaces, refreshed, local,
                 lock, shared, drained, listed, lastCb, history>>

\* Mutation: dispatchPackets returns at once when a stop is requested, as
\* well as when go is unset, so the loop head that closes the handle is
\* never reached.
DispatchPackets_quitReturns ==
  /\ pc = "idle"
  /\ go /\ ~quit
  /\ LET n == Len(local) IN
       \/ /\ n >= LWAT
          /\ IF n < HWAT THEN TryMove(local)
             ELSE lock = "free" /\ MoveLocal(local)
       \/ /\ n < LWAT
          /\ UNCHANGED <<local, shared>>
  /\ pc' = "loop"
  /\ firstIter' = TRUE
  /\ UNCHANGED <<go, handle, batch, quit, kernel, sockStats, ifaddrs, ifaces, refreshed, lock,
                 drained, listed, lastCb, history>>

(* dispatchPackets up to the loop: return unless go; move the pending      *)
(* packets by watermark (at HWAT or above with a blocking lock, which      *)
(* waits while the consumer holds it).                                     *)
DispatchPackets ==
  /\ pc = "idle"
  /\ go
  /\ LET n == Len(local) IN
       \/ /\ n >= LWAT
          \* n >= HWAT cannot hold here (LocalQueueBounded)
          /\ IF n < HWAT THEN TryMove(local)
             ELSE lock = "free" /\ MoveLocal(local)
       \/ /\ n < LWAT
          /\ UNCHANGED <<local, shared>>
  /\ pc' = "loop"
  /\ firstIter' = TRUE
  /\ UNCHANGED <<go, handle, batch, quit, kernel, sockStats, ifaddrs, ifaces, refreshed, lock,
                 drained, listed, lastCb, history>>

(* Head of the do-loop: break and close on quit; otherwise rebuild the     *)
(* socket index (first pass, or SOCKSTAT_REFRESH_INTERVAL elapsed), add    *)
(* the interfaces' addresses to the cache (first pass, or                  *)
(* IFADDRS_HASH_CACHE_REFRESH_INTERVAL elapsed), and enter pcap_dispatch.  *)
LoopHead ==
  /\ pc = "loop"
  /\ \/ /\ quit
        /\ ClosePcap
        /\ pc' = "idle"
        /\ UNCHANGED <<batch, sockStats, listed, ifaddrs, refreshed>>
     \/ /\ ~quit
        /\ \E sockDue, ifDue \in BOOLEAN :
             /\ IF firstIter \/ sockDue
                THEN /\ sockStats' = ReadSockStat(kernel)
                     /\ listed' = kernel
                ELSE UNCHANGED <<sockStats, listed>>
             /\ IF firstIter \/ ifDue
                THEN RefreshIfAddrsHashCache
                ELSE UNCHANGED <<ifaddrs, refreshed>>
        \* pcap_dispatch on a handle that is not open is undefined
        /\ handle' = IF handle = "open" THEN "open" ELSE "invalid"
        /\ batch' = 0
        /\ pc' = "dispatch"
  /\ UNCHANGED <<go, firstIter, quit, kernel, ifaces, local, lock, shared,
                 drained, lastCb, history>>

(* Mutations, each breaking one property of the passing run. *)
\* pcap_dispatch's cnt taken as "up to and including": one packet too many
BatchOpen_offByOne == batch <= BATCH
\* the tryLock branch also covers n = HWAT, the forced lock starts above it
Enqueue_hwatOffByOne(q) ==
  LET n == Len(q) IN
    \/ /\ n >= LWAT /\ n <= HWAT
       /\ TryMove(q)
       /\ UNCHANGED pc
    \/ /\ n > HWAT /\ lock = "free"
       /\ MoveLocal(q)
       /\ UNCHANGED pc
    \/ /\ n > HWAT /\ lock # "free"
       /\ local' = q
       /\ pc' = "cbWait"
       /\ UNCHANGED shared
    \/ /\ n < LWAT
       /\ local' = q
       /\ UNCHANGED <<pc, shared>>
\* pcap_dispatch hands at most PACKET_DISPATCH_BATCH_COUNT packets over
BatchOpen == batch < BATCH

(* The tail of pcap_callback: enqueue, then move the local queue q by      *)
(* watermark; at HWAT or above block on the lock while the consumer holds  *)
(* it.                                                                     *)
Enqueue(q) ==
  LET n == Len(q) IN
    \/ /\ n >= LWAT /\ n < HWAT
       /\ TryMove(q)
       /\ UNCHANGED pc
    \/ /\ n >= HWAT /\ lock = "free"
       /\ MoveLocal(q)
       /\ UNCHANGED pc
    \/ /\ n >= HWAT /\ lock # "free"
       /\ local' = q
       /\ pc' = "cbWait"
       /\ UNCHANGED shared
    \/ /\ n < LWAT
       /\ local' = q
       /\ UNCHANGED <<pc, shared>>

(* pcap_callback for packet p: drop it when its pattern is not indexed;    *)
(* otherwise build the payload (inode from the index, direction from the   *)
(* interface-address cache) and enqueue it.                                *)
Callback(p) ==
  /\ pc = "dispatch"
  /\ handle = "open"
  /\ BatchOpen
  /\ Len(history) < MaxPackets
  /\ batch' = batch + 1
  /\ lastCb' = [resolved |-> Indexed(sockStats, PacketPattern(p)),
                listed   |-> Listed(p, listed)]
  /\ LET key == PacketPattern(p) IN
       \/ /\ ~Indexed(sockStats, key)
          /\ UNCHANGED <<pc, local, shared, history>>
       \/ /\ Indexed(sockStats, key)
          /\ LET pl == [id  |-> Len(history) + 1,
                        ino |-> LookupIno(sockStats, key),
                        dir |-> Direction(p, ifaddrs)]
             IN  /\ history' = Append(history, [pkt |-> p, payload |-> pl,
                                                  toHost |-> p.dmac \in refreshed])
                 /\ Enqueue(Append(local, pl))
  /\ UNCHANGED <<go, handle, firstIter, quit, kernel, sockStats, ifaddrs, ifaces, refreshed,
                 lock, drained, listed>>

(* The blocking m_pktqLock.lock() in pcap_callback returns. *)
CallbackLocked ==
  /\ pc = "cbWait"
  /\ lock = "free"
  /\ MoveLocal(local)
  /\ pc' = "dispatch"
  /\ UNCHANGED <<go, handle, batch, firstIter, quit, kernel, sockStats,
                 ifaddrs, ifaces, refreshed, lock, drained, listed, lastCb, history>>

(* pcap_dispatch returns nr: nr > 0 loops again, nr = 0 (no packet ready)  *)
(* returns from dispatchPackets, nr = -1 (error) breaks and closes the     *)
(* handle. Nothing calls pcap_breakloop, so nr = -2 does not occur.        *)
DispatchEnd ==
  /\ pc = "dispatch"
  /\ \/ /\ batch > 0
        /\ pc' = "loop"
        /\ firstIter' = FALSE
        /\ UNCHANGED handle
     \/ /\ batch = 0
        /\ pc' = "idle"
        /\ UNCHANGED <<handle, firstIter>>
     \/ /\ ClosePcap
        /\ pc' = "idle"
        /\ UNCHANGED firstIter
  /\ UNCHANGED <<go, batch, quit, kernel, sockStats, ifaddrs, ifaces, refreshed, local, lock,
                 shared, drained, listed, lastCb, history>>

-----------------------------------------------------------------------------
(* The consumer (spec 5: sole consumer, always a blocking acquire).        *)
ConsumerLock ==
  /\ lock = "free"
  /\ lock' = "consumer"
  /\ UNCHANGED <<go, handle, pc, batch, firstIter, quit, kernel, sockStats,
                 ifaddrs, ifaces, refreshed, local, shared, drained, listed, lastCb, history>>

ConsumerDrain ==
  /\ lock = "consumer"
  /\ drained' = drained \o shared
  /\ shared' = <<>>
  /\ lock' = "free"
  /\ UNCHANGED <<go, handle, pc, batch, firstIter, quit, kernel, sockStats,
                 ifaddrs, ifaces, refreshed, local, listed, lastCb, history>>

(* The environment: sockets open and close; a stop is requested.           *)
KernelChange ==
  /\ kernel' \in Tables \ {kernel}
  /\ UNCHANGED <<go, handle, pc, batch, firstIter, quit, sockStats, ifaddrs, ifaces, refreshed,
                 local, lock, shared, drained, listed, lastCb, history>>

\* An interface appears, goes away or changes its hardware address.
InterfaceChange ==
  /\ ifaces' \in IfaceSets \ {ifaces}
  /\ UNCHANGED <<go, handle, pc, batch, firstIter, quit, kernel, sockStats,
                 ifaddrs, refreshed, local, lock, shared, drained, listed, lastCb, history>>

RequestQuit ==
  /\ ~quit
  /\ quit' = TRUE
  /\ UNCHANGED <<go, handle, pc, batch, firstIter, kernel, sockStats, ifaddrs, ifaces, refreshed,
                 local, lock, shared, drained, listed, lastCb, history>>

-----------------------------------------------------------------------------
Init ==
  /\ go = FALSE
  /\ handle = "none"
  /\ pc = "start"
  /\ batch = 0
  /\ firstIter = TRUE
  /\ quit = FALSE
  /\ kernel \in Tables
  /\ sockStats = <<>>
  /\ ifaddrs = {}
  /\ ifaces \in IfaceSets
  /\ refreshed = {}
  /\ local = <<>>
  /\ lock = "free"
  /\ shared = <<>>
  /\ drained = <<>>
  /\ listed = <<<<>>, <<>>, <<>>, <<>>>>
  /\ lastCb = [resolved |-> FALSE, listed |-> FALSE]
  /\ history = <<>>

CaptureStep ==
  \/ Start
  \/ DispatchPackets
  \/ LoopHead
  \/ \E p \in Packets : Callback(p)
  \/ CallbackLocked
  \/ DispatchEnd

Next ==
  \/ CaptureStep
  \/ ConsumerLock
  \/ ConsumerDrain
  \/ KernelChange
  \/ InterfaceChange
  \/ RequestQuit

Spec == Init /\ [][Next]_vars

-----------------------------------------------------------------------------
(* Properties.                                                             *)

TypeOK ==
  /\ go \in BOOLEAN
  /\ handle \in {"none", "open", "closed", "invalid"}
  /\ pc \in {"start", "idle", "loop", "dispatch", "cbWait"}
  /\ batch \in 0..BATCH
  /\ firstIter \in BOOLEAN
  /\ quit \in BOOLEAN
  /\ kernel \in Tables
  /\ ifaddrs \subseteq {HardwareAddress(m) : m \in HostMacs}
  /\ ifaces \in IfaceSets
  /\ local \in Seq(Payload)
  /\ lock \in {"free", "consumer"}
  /\ shared \in Seq(Payload)
  /\ drained \in Seq(Payload)
  /\ lastCb \in [resolved : BOOLEAN, listed : BOOLEAN]
  /\ Len(history) <= MaxPackets

(* While capture runs, no resolved packet is lost, duplicated or reordered *)
(* on its way to the consumer: what the consumer drained, then the shared  *)
(* queue, then the capture thread's local queue, is exactly the sequence   *)
(* of payloads pcap_callback produced. This is about the tryLock/lock      *)
(* hand-off in pcap_callback and dispatchPackets: append, unlock, and      *)
(* clear the local queue only when the append happened.                    *)
PacketsInCaptureOrder ==
  drained \o shared \o local = [i \in DOMAIN history |-> history[i].payload]

(* The local pending queue never grows past the high watermark: it reaches *)
(* HWAT only while pcap_callback waits for the lock held by the consumer,  *)
(* and whenever the capture thread is outside pcap_callback it is below    *)
(* HWAT. This is the memory bound the blocking lock in pcap_callback is    *)
(* there to give.                                                          *)
LocalQueueBounded ==
  /\ Len(local) <= HWAT
  /\ Len(local) = HWAT => pc = "cbWait"

(* Spec 4.6/7: a dispatch error or a stop ends capture for the session     *)
(* without harm: the pcap handle is dispatched on and closed only while    *)
(* it is open. dispatchPackets closes the handle on break but leaves go    *)
(* set, so the next call runs pcap_dispatch or pcap_close on it again.     *)
HandleNeverMisused ==
  /\ handle # "invalid"
  /\ pc = "dispatch" => handle = "open"

(* Spec 3/4.6: a resolved packet is inbound exactly when its destination   *)
(* hardware address is one of the host's interface addresses, as they were *)
(* when the interface-address cache was last refreshed (a change since is  *)
(* picked up at the next refresh). pcap_callback formats the address with  *)
(* "%x" while the cache holds QNetworkInterface's two-digit form, and      *)
(* refreshIfAddrsHashCache never removes the address of an interface that  *)
(* is gone: either makes the classification wrong.                         *)
DirectionMatchesHost ==
  \A i \in DOMAIN history :
    history[i].payload.dir = "in" <=> history[i].toHost

(* Spec properties 4, 5 and 8: pcap_callback attributes a packet exactly   *)
(* when the kernel tables read at the last refresh of the socket index     *)
(* list its connection: TCP rows by both directions, UDP rows forwards     *)
(* only, IPv4-mapped tcp6/udp6 rows under their IPv4 addresses, rows with  *)
(* inode 0 never. This is about parseSocks' reverse pattern, its mapped-   *)
(* address conversion and the hash lookup in pcap_callback, across kernel  *)
(* changes between refreshes.                                              *)
PacketResolvedIffListed == lastCb.resolved <=> lastCb.listed

(* Spec 4.7: the monitor drains "the resolved packets accumulated since    *)
(* the last drain"; every packet pcap_callback resolves eventually reaches *)
(* it. dispatchPackets and pcap_callback move the local queue only when it *)
(* holds LWAT packets or more, so fewer than LWAT stay behind once traffic *)
(* pauses.                                                                 *)
ResolvedEventuallyDrained ==
  \A i \in 1..MaxPackets : (Len(history) >= i) ~> (Len(drained) >= i)

(* Fairness for the liveness run. The capture thread is re-entered by its  *)
(* timer and pcap_dispatch returns, so its steps are weakly fair; the      *)
(* consumer drains on every tick. The consumer holds the lock only for a   *)
(* drain, so a tryLock or lock attempt on a free lock is not refused       *)
(* forever (strong fairness on the steps that find the lock free).         *)
(* Packet arrival (Callback) and the environment are not fair: traffic may *)
(* stop.                                                                   *)
Fairness ==
  /\ WF_vars(Start) /\ WF_vars(DispatchPackets) /\ WF_vars(LoopHead)
  /\ WF_vars(DispatchEnd) /\ WF_vars(CallbackLocked)
  /\ SF_vars(DispatchPackets /\ lock = "free")
  /\ SF_vars(CallbackLocked)
  /\ WF_vars(ConsumerLock) /\ WF_vars(ConsumerDrain)

FairSpec == Spec /\ Fairness

(* The fairness a stop request needs: the capture thread, re-entered by    *)
(* its timer, keeps taking steps (each iteration either waits for packets *)
(* or returns); a consumer that took the lock drains and releases it; and *)
(* the blocking lock in pcap_callback is not refused forever.             *)
StopFairSpec ==
  Spec /\ WF_vars(CaptureStep) /\ SF_vars(CallbackLocked) /\ WF_vars(ConsumerDrain)

(* Spec 5 (cancellation): the capture loop checks the stop flag once per   *)
(* dispatch batch and exits, closing the capture handle. Once             *)
(* m_quitRequested is set, the handle is eventually no longer open, on    *)
(* every path of dispatchPackets: a long run of non-empty batches, a      *)
(* return on an empty one and re-entry by the timer, or a callback        *)
(* blocked on m_pktqLock.                                                 *)
StopClosesCapture == quit ~> handle # "open"

=============================================================================
