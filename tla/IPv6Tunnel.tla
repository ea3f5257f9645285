----------------------------- MODULE IPv6Tunnel -----------------------------
(***************************************************************************)
(* The IPv6Tunnel object of src/src/ipv6-tunnel.cpp: its tun descriptor,  *)
(* the ioctl sockets its methods open, the kernel interface it owns and    *)
(* the header bytes of its read buffer.                                    *)
(*                                                                         *)
(* Each method is one action, because the worker calls them from a single  *)
(* thread.  The outcome of every system call (open, socket, ioctl, read,   *)
(* write) is a nondeterministic choice.  Descriptors are taken from a     *)
(* table of MaxFds slots, lowest free number first, as POSIX requires, so  *)
(* a descriptor that is never closed eventually makes socket() fail with   *)
(* EMFILE.  Addresses are abstracted to their prefix lengths and packets   *)
(* to their lengths and 4-byte headers.                                    *)
(***************************************************************************)
EXTENDS Integers

CONSTANTS
    MaxFds,      \* slots of the process's descriptor table
    MaxCalls,    \* bound on the method calls the owner makes
    MTUs,        \* arguments of SetMTU
    PrefixLens,  \* arguments of SetAddress
    SendLens,    \* packet lengths passed to SendPacket
    ReadLens     \* byte counts a successful read() of the device returns

ASSUME TunnelAssumption ==
    /\ MaxFds \in Nat \ {0}
    /\ MaxCalls \in Nat
    /\ MTUs \subseteq Int
    /\ PrefixLens \subseteq Int
    /\ SendLens \subseteq Nat
    /\ ReadLens \subseteq Nat

VARIABLES
    obj,    \* the object: "none" (not built), "live", "gone" (destroyed)
    fd,     \* IPv6Tunnel::fd
    fds,    \* the descriptors the process holds open
    iface,  \* the kernel's tun interface: "absent" or "present"
    flags,  \* its flags
    mtu,    \* its MTU (0 while absent)
    addrs,  \* prefix lengths of its addresses
    pbuf,   \* the first 4 bytes of IPv6Tunnel::pbuf
    plen,   \* IPv6Tunnel::plen
    rx,     \* the frame the last read() returned
    last,   \* the last call, its argument and its return value
    calls   \* calls made so far

vars == <<obj, fd, fds, iface, flags, mtu, addrs, pbuf, plen, rx, last, calls>>

(***************************************************************************)
(* The refinement mapping onto the contract of TunnelDevice.tla.  The      *)
(* handle is valid while the live object holds a descriptor; the contract's *)
(* "up" is the UP flag and its "p2p" shape the flags SetState asks for.    *)
(***************************************************************************)
handleBar == IF obj = "none" THEN "none"
             ELSE IF obj = "gone" THEN "closed"
             ELSE IF fd = -1 THEN "invalid" ELSE "open"
upBar == IF "UP" \in flags THEN "up" ELSE "down"
shapeBar == IF /\ {"POINTOPOINT", "NOARP"} \subseteq flags
               /\ flags \cap {"MULTICAST", "BROADCAST"} = {}
            THEN "p2p" ELSE "default"

T == INSTANCE TunnelDevice
        WITH handle <- handleBar, up <- upBar, shape <- shapeBar

FdSlots == 0 .. MaxFds - 1

\* The flags the Linux tun driver gives a new IFF_TUN interface.  IFF_RUNNING
\* is not among the modelled flags: it follows the carrier, and the kernel
\* ignores it in SIOCSIFFLAGS.
IfFlags == {"UP", "POINTOPOINT", "NOARP", "MULTICAST", "BROADCAST"}
TunFlags == {"POINTOPOINT", "NOARP", "MULTICAST"}

\* open() and socket(): the lowest free descriptor, or -1 when the call
\* fails (ok = FALSE) or the table is full (EMFILE).
Lowest(S) == CHOOSE n \in S : \A m \in S : n <= m
NewFd(ok) == IF ok /\ FdSlots \ fds # {} THEN Lowest(FdSlots \ fds) ELSE -1

\* The bounds SetMTU tests (lines 212, 217) and SendPacket's (line 280).
MTUMin == 1280
MTUMax == 65535
PacketMax == 65535

\* A call of the owner, and its return.
Call == obj = "live" /\ calls < MaxCalls
Return(op, arg, r) ==
    /\ last' = [op |-> op, arg |-> arg, ret |-> r]
    /\ calls' = calls + 1

\* A method that returns -1 before (or after undoing) any change.
Refuse(op, arg) ==
    /\ Return(op, arg, -1)
    /\ UNCHANGED <<obj, fd, fds, iface, flags, mtu, addrs, pbuf, plen, rx>>

Init ==
    /\ obj = "none"
    /\ fd = -1
    /\ fds = {}
    /\ iface = "absent"
    /\ flags = {}
    /\ mtu = 0
    /\ addrs = {}
    /\ pbuf = <<0, 0, 0, 0>>
    /\ plen = 0
    /\ rx = [len |-> 0, hdr |-> <<0, 0, 0, 0>>]
    /\ last = [op |-> "none", arg |-> 0, ret |-> 0]
    /\ calls = 0

(***************************************************************************)
(* IPv6Tunnel::IPv6Tunnel (lines 76-105).  open() the tun device; on       *)
(* failure return with fd = -1.  TUNSETIFF creates the interface; on       *)
(* failure the descriptor is closed and fd = -1.  pbuf is not initialised: *)
(* its bytes are whatever the object's memory held.                        *)
(***************************************************************************)
\* Mutant: the failed TUNSETIFF path closes the descriptor but keeps its number.
IPv6Tunnel_ctor_keepfd ==
    /\ obj = "none"
    /\ \E openOk, setiffOk \in BOOLEAN, junk \in T!Headers :
          LET t == NewFd(openOk) IN
          /\ IF t # -1 /\ setiffOk
               THEN /\ fd' = t
                    /\ fds' = fds \cup {t}
                    /\ iface' = "present"
                    /\ flags' = TunFlags
                    /\ mtu' = T!DriverMTU
                    /\ last' = [op |-> "Open", arg |-> 0, ret |-> 0]
               ELSE /\ fd' = t
                    /\ UNCHANGED <<fds, iface, flags, mtu>>
                    /\ last' = [op |-> "Open", arg |-> 0, ret |-> -1]
          /\ pbuf' = junk
    /\ obj' = "live"
    /\ UNCHANGED <<addrs, plen, rx, calls>>

IPv6Tunnel_ctor ==
    /\ obj = "none"
    /\ \E openOk, setiffOk \in BOOLEAN, junk \in T!Headers :
          LET t == NewFd(openOk) IN
          /\ IF t # -1 /\ setiffOk
               THEN /\ fd' = t
                    /\ fds' = fds \cup {t}
                    /\ iface' = "present"
                    /\ flags' = TunFlags
                    /\ mtu' = T!DriverMTU
                    /\ last' = [op |-> "Open", arg |-> 0, ret |-> 0]
               ELSE /\ fd' = -1
                    /\ UNCHANGED <<fds, iface, flags, mtu>>
                    /\ last' = [op |-> "Open", arg |-> 0, ret |-> -1]
          /\ pbuf' = junk
    /\ obj' = "live"
    /\ UNCHANGED <<addrs, plen, rx, calls>>

(***************************************************************************)
(* IPv6Tunnel::~IPv6Tunnel (lines 108-116).  Closing the only descriptor  *)
(* of a non-persistent tun interface makes the kernel remove it.           *)
(***************************************************************************)
IPv6Tunnel_dtor ==
    /\ obj = "live"
    /\ obj' = "gone"
    /\ IF fd # -1
         THEN /\ fds' = fds \ {fd}
              /\ iface' = "absent"
              /\ flags' = {}
              /\ mtu' = 0
              /\ addrs' = {}
         ELSE UNCHANGED <<fds, iface, flags, mtu, addrs>>
    /\ last' = [op |-> "Close", arg |-> 0, ret |-> 0]
    /\ UNCHANGED <<fd, pbuf, plen, rx, calls>>

(***************************************************************************)
(* IPv6Tunnel::SetState (lines 119-159).  socket_udp6() (lines 57-64),     *)
(* SIOCGIFFLAGS, the flag arithmetic of lines 142-147, SIOCSIFFLAGS, and   *)
(* close(reqfd) on every path that opened it.                              *)
(***************************************************************************)
StateFlags(f, up) ==
    ((f \cup {"POINTOPOINT", "NOARP"}) \cup (IF up = 1 THEN {"UP"} ELSE {}))
      \ ((IF up = 1 THEN {} ELSE {"UP"}) \cup {"MULTICAST", "BROADCAST"})

\* Mutant: the SIOCGIFFLAGS error path returns without close(reqfd).
SetState_leak(up) ==
    /\ Call
    /\ \E sockOk, getOk, setOk \in BOOLEAN :
          LET r == NewFd(sockOk) IN
          IF fd # -1 /\ r # -1 /\ ~getOk
            THEN /\ fds' = fds \cup {r}
                 /\ Return("SetState", up, -1)
                 /\ UNCHANGED <<obj, fd, iface, flags, mtu, addrs, pbuf, plen, rx>>
          ELSE IF fd = -1 \/ r = -1 \/ ~setOk
            THEN Refuse("SetState", up)
            ELSE /\ flags' = StateFlags(flags, up)
                 /\ Return("SetState", up, 0)
                 /\ UNCHANGED <<obj, fd, fds, iface, mtu, addrs, pbuf, plen, rx>>

SetState(up) ==
    /\ Call
    /\ \E sockOk, getOk, setOk \in BOOLEAN :
          IF fd = -1 \/ NewFd(sockOk) = -1 \/ ~getOk \/ ~setOk
            THEN Refuse("SetState", up)
            ELSE /\ flags' = StateFlags(flags, up)
                 /\ Return("SetState", up, 0)
                 /\ UNCHANGED <<obj, fd, fds, iface, mtu, addrs, pbuf, plen, rx>>

(***************************************************************************)
(* IPv6Tunnel::SetAddress (lines 162-204).  The range checks on prefix_len *)
(* come before socket_udp6(); SIOCGIFINDEX then SIOCSIFADDR; reqfd is      *)
(* closed on every path.                                                   *)
(***************************************************************************)
SetAddress(pl) ==
    /\ Call
    /\ \E sockOk, indexOk, addrOk \in BOOLEAN :
          IF fd = -1 \/ pl < 0 \/ pl > 128 \/ NewFd(sockOk) = -1
             \/ ~indexOk \/ ~addrOk
            THEN Refuse("SetAddress", pl)
            ELSE /\ addrs' = addrs \cup {pl}
                 /\ Return("SetAddress", pl, 0)
                 /\ UNCHANGED <<obj, fd, fds, iface, flags, mtu, pbuf, plen, rx>>

(***************************************************************************)
(* IPv6Tunnel::SetMTU (lines 207-242).  The range checks, socket_udp6(),   *)
(* SIOCSIFMTU.  reqfd is closed when the ioctl fails (line 236), but the   *)
(* success path returns at line 241 with reqfd still open.                 *)
(***************************************************************************)
\* Mutant: the upper bound is tested as mtu > 65536.
SetMTU_max65536(m) ==
    /\ Call
    /\ \E sockOk, mtuOk \in BOOLEAN :
          LET r == NewFd(sockOk) IN
          IF fd = -1 \/ m < MTUMin \/ m > MTUMax + 1 \/ r = -1 \/ ~mtuOk
            THEN Refuse("SetMTU", m)
            ELSE /\ mtu' = m
                 /\ fds' = fds \cup {r}
                 /\ Return("SetMTU", m, 0)
                 /\ UNCHANGED <<obj, fd, iface, flags, addrs, pbuf, plen, rx>>

SetMTU(m) ==
    /\ Call
    /\ \E sockOk, mtuOk \in BOOLEAN :
          LET r == NewFd(sockOk) IN
          IF fd = -1 \/ m < MTUMin \/ m > MTUMax \/ r = -1 \/ ~mtuOk
            THEN Refuse("SetMTU", m)
            ELSE /\ mtu' = m
                 /\ fds' = fds \cup {r}
                 /\ Return("SetMTU", m, 0)
                 /\ UNCHANGED <<obj, fd, iface, flags, addrs, pbuf, plen, rx>>


\* IPv6Tunnel::RegisterReadSet (lines 247-253): the caller's fd_set with the
\* tun descriptor added when there is one.
RegisterReadSet(rs) == IF fd # -1 THEN rs \cup {fd} ELSE rs

\* read() stores the frame's first bytes into pbuf: of the 4 header bytes,
\* those beyond the returned length keep what pbuf held before.
ReadInto(b, f) == [i \in 1 .. 4 |-> IF i <= f.len THEN f.hdr[i] ELSE b[i]]

(***************************************************************************)
(* IPv6Tunnel::ReceivePacket (lines 256-274).  The caller's set is what   *)
(* select() left of the registered one.  read() fails or returns a frame;  *)
(* plen takes its length and the ethertype is taken from bytes 3-4 of      *)
(* pbuf, whatever the length was.                                          *)
(***************************************************************************)
\* Mutant: the result of read() is used without the test for -1.
ReceivePacket_noerr ==
    /\ Call
    /\ \E ready \in SUBSET RegisterReadSet({}), readOk \in BOOLEAN,
          f \in T!Frames :
          IF fd = -1 \/ fd \notin ready
            THEN Refuse("ReceivePacket", 0)
            ELSE LET g == IF readOk THEN f ELSE [f EXCEPT !.len = -1]
                     b == ReadInto(pbuf, g) IN
                 /\ pbuf' = b
                 /\ plen' = g.len
                 /\ rx' = IF readOk THEN f ELSE rx
                 /\ Return("ReceivePacket", 0,
                           IF b[3] = T!IPv6Hdr[3] /\ b[4] = T!IPv6Hdr[4]
                             THEN 0 ELSE -1)
                 /\ UNCHANGED <<obj, fd, fds, iface, flags, mtu, addrs>>

ReceivePacket ==
    /\ Call
    /\ \E ready \in SUBSET RegisterReadSet({}), readOk \in BOOLEAN,
          f \in T!Frames :
          IF fd = -1 \/ fd \notin ready \/ ~readOk
            THEN Refuse("ReceivePacket", 0)
            ELSE LET b == ReadInto(pbuf, f) IN
                 /\ pbuf' = b
                 /\ plen' = f.len
                 /\ rx' = f
                 /\ Return("ReceivePacket", 0,
                           IF b[3] = T!IPv6Hdr[3] /\ b[4] = T!IPv6Hdr[4]
                             THEN 0 ELSE -1)
                 /\ UNCHANGED <<obj, fd, fds, iface, flags, mtu, addrs>>

(***************************************************************************)
(* IPv6Tunnel::SendPacket (lines 277-302).  A packet of at most 65535     *)
(* bytes gets the 4-byte header and is written; the call succeeds only if  *)
(* write() took the whole frame.  The test at line 293 only chooses the    *)
(* log message.                                                            *)
(***************************************************************************)
SendPacket(n) ==
    /\ Call
    /\ \E whole \in BOOLEAN :
          IF fd = -1 \/ n > PacketMax \/ ~whole
            THEN Refuse("SendPacket", n)
            ELSE /\ Return("SendPacket", n, 0)
                 /\ UNCHANGED <<obj, fd, fds, iface, flags, mtu, addrs,
                                pbuf, plen, rx>>

\* The Linux tun driver prepends its 4-byte header to every frame, so a read
\* that succeeds returns at least 4 bytes.  MCReadLens satisfies it and
\* MCShortReadLens does not.
DriverFrames == \A n \in ReadLens : n >= 4

\* After destruction the owner makes no more calls.
Terminated == obj = "gone" /\ UNCHANGED vars

Next ==
    \/ IPv6Tunnel_ctor
    \/ IPv6Tunnel_dtor
    \/ \E up \in {0, 1} : SetState(up)
    \/ \E pl \in PrefixLens : SetAddress(pl)
    \/ \E m \in MTUs : SetMTU(m)
    \/ ReceivePacket
    \/ \E n \in SendLens : SendPacket(n)
    \/ Terminated

\* The owner may call any method at any time: no fairness.
Spec == Init /\ [][Next]_vars

-----------------------------------------------------------------------------
Bytes == {0, 8, 134, 221}

TypeOK ==
    /\ obj \in {"none", "live", "gone"}
    /\ fd \in FdSlots \cup {-1}
    /\ fds \subseteq FdSlots
    /\ iface \in {"absent", "present"}
    /\ flags \subseteq IfFlags
    /\ mtu \in Nat
    /\ addrs \subseteq 0 .. 128
    /\ pbuf \in [1 .. 4 -> Bytes]
    /\ plen \in Nat
    /\ rx \in [len : Nat, hdr : T!Headers]
    /\ last \in [op : T!Ops, arg : Int, ret : {-1, 0}]
    /\ calls \in 0 .. MaxCalls

\* The object owns the kernel interface: the interface exists exactly while
\* the live object holds a valid descriptor, and that descriptor is open.
\* This is what the constructor's cleanup of a failed TUNSETIFF (lines
\* 96-101) and the destructor's close (lines 110-115) must keep.
HandleOwnsInterface ==
    /\ (handleBar = "open") <=> (iface = "present")
    /\ handleBar = "open" => fd \in fds

\* A call that fails gives back every descriptor it took: the constructor
\* after TUNSETIFF, and every ioctl socket of SetState, SetAddress and
\* SetMTU on its error paths.
FailedCallReleasesSockets ==
    [][last'.ret = -1 => fds' = fds]_vars

\* The object implements the contract of spec.md section 4.1.
ImplementsTunnelDevice == T!ASpec

\* spec.md section 5: an ioctl socket is acquired, used and released within
\* one operation, so between calls the process holds the tun descriptor
\* only.  SetMTU's success path (line 241) does not close its socket.
RequestSocketsReleased ==
    fds = IF handleBar = "open" THEN {fd} ELSE {}

\* spec.md 4.1: a frame shorter than 4 octets or not IPv6 is never handed
\* to the caller.  ReceivePacket (lines 262-273) tests the ethertype bytes
\* of pbuf without checking that read() returned that many.
AcceptedFrameIsIPv6 ==
    last.op = "ReceivePacket" /\ last.ret = 0 => T!IsIPv6Frame(rx) /\ plen = rx.len

=============================================================================
