---------------------------- MODULE TunnelDevice ----------------------------
(***************************************************************************)
(* What the tunnel device promises its caller: the contract of the Tunnel  *)
(* Handle and of its operations (Open, BringUp, SetAddress, SetMTU,        *)
(* ReceivePacket, SendPacket, destruction) as spec.md states them in its   *)
(* data model and in section 4.1.  No descriptor, no ioctl socket and no   *)
(* read buffer appear here: an operation either fails and leaves the       *)
(* interface as it was, or succeeds with exactly its documented effect.    *)
(* IPv6Tunnel.tla is shown to implement this module.                       *)
(***************************************************************************)
EXTENDS Integers

CONSTANTS MTUs, PrefixLens, SendLens, ReadLens

\* The two frame headers a read can carry (flags, ethertype bytes), and the
\* undefined contents of a buffer nothing was read into yet.
IPv6Hdr == <<0, 0, 134, 221>>
IPv4Hdr == <<0, 0, 8, 0>>
Headers == {IPv6Hdr, IPv4Hdr, <<0, 0, 0, 0>>}
Frames  == [len : ReadLens, hdr : Headers]

\* A frame is a packet for the caller when it holds the 4-octet header and
\* its ethertype is IPv6 (spec.md 4.1, ReceivePacket).
IsIPv6Frame(f) == f.len >= 4 /\ f.hdr[3] = IPv6Hdr[3] /\ f.hdr[4] = IPv6Hdr[4]

\* IPv6's minimum MTU, and the largest a 16-bit payload length allows.
MinMTU == 1280
MaxMTU == 65535

\* The MTU a new interface gets from the driver.
DriverMTU == 1500

Ops == {"none", "Open", "SetState", "SetAddress", "SetMTU",
        "ReceivePacket", "SendPacket", "Close"}

VARIABLES
    handle,  \* "none" before Open, "open", "invalid" after a failed Open, "closed"
    up,      \* "up" or "down": the UP flag of the interface
    shape,   \* "p2p" once the interface is point-to-point without
             \* multicast and broadcast, "default" before
    mtu,     \* the interface's MTU (0 while there is no interface)
    addrs,   \* prefix lengths of the addresses installed on it
    rx,      \* the last frame read from the device
    last     \* the last operation, its argument and its result

avars == <<handle, up, shape, mtu, addrs, rx, last>>

Result(op, arg, r) == last' = [op |-> op, arg |-> arg, ret |-> r]

\* Any operation may fail without changing the interface.
Fail(op, arg) ==
    /\ Result(op, arg, -1)
    /\ UNCHANGED <<handle, up, shape, mtu, addrs, rx>>

AInit ==
    /\ handle = "none"
    /\ up = "down"
    /\ shape = "default"
    /\ mtu = 0
    /\ addrs = {}
    /\ rx = [len |-> 0, hdr |-> <<0, 0, 0, 0>>]
    /\ last = [op |-> "none", arg |-> 0, ret |-> 0]

Open ==
    /\ handle = "none"
    /\ \/ /\ handle' = "open"
          /\ mtu' = DriverMTU
          /\ Result("Open", 0, 0)
       \/ /\ handle' = "invalid"
          /\ mtu' = 0
          /\ Result("Open", 0, -1)
    /\ UNCHANGED <<up, shape, addrs, rx>>

BringUp(u) ==
    /\ handle \in {"open", "invalid"}
    /\ \/ /\ handle = "open"
          /\ up' = IF u = 1 THEN "up" ELSE "down"
          /\ shape' = "p2p"
          /\ Result("SetState", u, 0)
          /\ UNCHANGED <<handle, mtu, addrs, rx>>
       \/ Fail("SetState", u)

SetAddress(pl) ==
    /\ handle \in {"open", "invalid"}
    /\ \/ /\ handle = "open"
          /\ pl \in 0 .. 128
          /\ addrs' = addrs \cup {pl}
          /\ Result("SetAddress", pl, 0)
          /\ UNCHANGED <<handle, up, shape, mtu, rx>>
       \/ Fail("SetAddress", pl)

SetMTU(m) ==
    /\ handle \in {"open", "invalid"}
    /\ \/ /\ handle = "open"
          /\ MinMTU <= m /\ m <= MaxMTU
          /\ mtu' = m
          /\ Result("SetMTU", m, 0)
          /\ UNCHANGED <<handle, up, shape, addrs, rx>>
       \/ Fail("SetMTU", m)

\* Either no frame is taken (not ready, read error), or one frame is taken
\* and handed to the caller exactly when it is an IPv6 frame.
ReceivePacket ==
    /\ handle \in {"open", "invalid"}
    /\ \/ Fail("ReceivePacket", 0)
       \/ /\ handle = "open"
          /\ \E f \in Frames :
                /\ rx' = f
                /\ Result("ReceivePacket", 0, IF IsIPv6Frame(f) THEN 0 ELSE -1)
          /\ UNCHANGED <<handle, up, shape, mtu, addrs>>

\* A packet longer than the 16-bit IPv6 payload limit is never sent.
SendPacket(n) ==
    /\ handle \in {"open", "invalid"}
    /\ \/ /\ handle = "open"
          /\ n <= MaxMTU
          /\ Result("SendPacket", n, 0)
          /\ UNCHANGED <<handle, up, shape, mtu, addrs, rx>>
       \/ Fail("SendPacket", n)

\* Destroying the handle removes the interface.
Close ==
    /\ handle \in {"open", "invalid"}
    /\ handle' = "closed"
    /\ up' = "down"
    /\ shape' = "default"
    /\ mtu' = 0
    /\ addrs' = {}
    /\ Result("Close", 0, 0)
    /\ UNCHANGED rx

ANext ==
    \/ Open
    \/ \E u \in {0, 1} : BringUp(u)
    \/ \E pl \in PrefixLens : SetAddress(pl)
    \/ \E m \in MTUs : SetMTU(m)
    \/ ReceivePacket
    \/ \E n \in SendLens : SendPacket(n)
    \/ Close

ASpec == AInit /\ [][ANext]_avars

=============================================================================
