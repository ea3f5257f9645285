-------------------------- MODULE IPv6TunnelProofs --------------------------
(***************************************************************************)
(* TLAPS proofs about IPv6Tunnel.tla, for every size of the descriptor     *)
(* table and every set of arguments: type correctness, the ownership of   *)
(* the interface, the release of descriptors by failed calls, and the     *)
(* refinement of the TunnelDevice contract.                                *)
(***************************************************************************)
EXTENDS IPv6Tunnel, WellFoundedInduction, TLAPS

\* While the handle is not valid there is no interface, and so no flags, no
\* MTU and no address.
NoInterface ==
    handleBar # "open" =>
        /\ iface = "absent" /\ flags = {} /\ mtu = 0 /\ addrs = {}

IInv == TypeOK /\ HandleOwnsInterface /\ NoInterface

-----------------------------------------------------------------------------
(* Descriptor allocation.                                                  *)

\* A non-empty set of naturals has a least element, which Lowest picks.
LEMMA LowestIsLeast ==
    ASSUME NEW S \in SUBSET Nat, S # {}
    PROVE  Lowest(S) \in S /\ \A m \in S : Lowest(S) <= m
<1> DEFINE Less == OpToRel(<, Nat)
<1>1. IsWellFoundedOn(Less, Nat)
  BY NatLessThanWellFounded, Zenon
<1>2. \E x \in S : \A y \in S : ~(<<y, x>> \in Less)
  BY <1>1, WFMin, Zenon
<1>3. ASSUME NEW x \in Nat, NEW y \in Nat, ~(<<y, x>> \in Less)
      PROVE  x <= y
  <2>1. ~(y < x)
    BY <1>3, Zenon DEF OpToRel
  <2>. QED
    BY <2>1
<1>4. \E x \in S : \A y \in S : x <= y
  <2>1. PICK x \in S : \A y \in S : ~(<<y, x>> \in Less)
    BY <1>2, Zenon
  <2>2. \A y \in S : x <= y
    BY <2>1, <1>3, Zenon
  <2>. QED
    BY <2>2
<1>. QED
  BY <1>4, Zenon DEF Lowest

\* open() and socket() return -1 or a descriptor that was free.
LEMMA NewFdFree ==
    ASSUME TypeOK, NEW ok
    PROVE  NewFd(ok) \in (FdSlots \ fds) \cup {-1}
<1>1. CASE ok /\ FdSlots \ fds # {}
  <2>1. FdSlots \ fds \in SUBSET Nat
    BY TunnelAssumption DEF FdSlots
  <2>. QED
    BY <1>1, <2>1, LowestIsLeast DEF NewFd
<1>2. CASE ~(ok /\ FdSlots \ fds # {})
  BY <1>2 DEF NewFd
<1>. QED
  BY <1>1, <1>2


-----------------------------------------------------------------------------
(* Facts about the frame headers.                                          *)

LEMMA HeadersAreBytes == T!Headers \subseteq [1 .. 4 -> Bytes]
  BY DEF T!Headers, T!IPv6Hdr, T!IPv4Hdr, Bytes

\* read() into pbuf leaves 4 header bytes.
LEMMA ReadIntoBytes ==
    ASSUME NEW b \in [1 .. 4 -> Bytes], NEW f \in T!Frames
    PROVE  ReadInto(b, f) \in [1 .. 4 -> Bytes]
<1>1. f.hdr \in [1 .. 4 -> Bytes]
  BY HeadersAreBytes DEF T!Frames
<1>. QED
  BY <1>1 DEF ReadInto

\* A read of at least 4 bytes replaces the whole header.
LEMMA ReadIntoWhole ==
    ASSUME NEW b, NEW f, f.hdr \in [1 .. 4 -> Bytes], f.len \in Nat,
           f.len >= 4
    PROVE  ReadInto(b, f) = f.hdr
<1>1. \A i \in 1 .. 4 : i <= f.len
  OBVIOUS
<1>. QED
  BY <1>1 DEF ReadInto

-----------------------------------------------------------------------------
(* The inductive invariant, one lemma per action.                          *)

LEMMA InitIInv == Init => IInv
  BY TunnelAssumption
     DEF Init, IInv, TypeOK, HandleOwnsInterface, NoInterface, handleBar,
         T!Headers, T!Ops, Bytes

LEMMA CtorIInv == IInv /\ IPv6Tunnel_ctor => IInv'
<1> SUFFICES ASSUME IInv, IPv6Tunnel_ctor PROVE IInv'
  OBVIOUS
<1>1. PICK openOk, setiffOk \in BOOLEAN, junk \in T!Headers :
        LET t == NewFd(openOk) IN
        /\ IF t # -1 /\ setiffOk
             THEN /\ fd' = t
                  /\ fds' = fds \cup {t}
                  /\ iface' = "present"
                  /\ flags' = TunFlags
                  /\ mtu' = T!DriverMTU
                  /\ last' = [op |-> "Open", arg |-> 0, ret |-> 0]
             ELSE /\ fd' = -1
                  /\ UNCHANGED <<fds, iface, flags, mtu>>
                  /\ last' = [op |-> "Open", arg |-> 0, ret |-> -1]
        /\ pbuf' = junk
  BY DEF IPv6Tunnel_ctor
<1>2. NewFd(openOk) \in (FdSlots \ fds) \cup {-1}
  BY NewFdFree DEF IInv
<1>3. obj' = "live" /\ UNCHANGED <<addrs, plen, rx, calls>>
  BY DEF IPv6Tunnel_ctor
<1>4. obj = "none"
  BY DEF IPv6Tunnel_ctor
<1>5. pbuf' \in [1 .. 4 -> Bytes]
  BY <1>1, HeadersAreBytes
<1>6. CASE NewFd(openOk) # -1 /\ setiffOk
  <2>1. /\ fd' = NewFd(openOk) /\ fds' = fds \cup {NewFd(openOk)}
        /\ iface' = "present" /\ flags' = TunFlags /\ mtu' = T!DriverMTU
        /\ last' = [op |-> "Open", arg |-> 0, ret |-> 0]
    BY <1>1, <1>6, Zenon
  <2>2. fd' \in FdSlots /\ fd' \in fds' /\ fds' \subseteq FdSlots
    BY <1>2, <1>6, <2>1 DEF IInv, TypeOK
  <2>3. TypeOK'
    BY <1>3, <1>4, <1>5, <2>1, <2>2
       DEF IInv, TypeOK, TunFlags, IfFlags, T!DriverMTU, T!Ops
  <2>4. handleBar' = "open"
    BY <1>3, <1>6, <2>1 DEF handleBar
  <2>. QED
    BY <2>1, <2>2, <2>3, <2>4 DEF IInv, HandleOwnsInterface, NoInterface
<1>7. CASE ~(NewFd(openOk) # -1 /\ setiffOk)
  <2>1. /\ fd' = -1 /\ UNCHANGED <<fds, iface, flags, mtu>>
        /\ last' = [op |-> "Open", arg |-> 0, ret |-> -1]
    BY <1>1, <1>7, Zenon
  <2>. QED
    BY <1>3, <1>4, <1>5, <2>1
       DEF IInv, TypeOK, HandleOwnsInterface, NoInterface, handleBar, T!Ops
<1>. QED
  BY <1>6, <1>7

LEMMA DtorIInv == IInv /\ IPv6Tunnel_dtor => IInv'
<1> SUFFICES ASSUME IInv, IPv6Tunnel_dtor PROVE IInv'
  OBVIOUS
<1>1. /\ obj = "live" /\ obj' = "gone"
      /\ last' = [op |-> "Close", arg |-> 0, ret |-> 0]
      /\ UNCHANGED <<fd, pbuf, plen, rx, calls>>
  BY DEF IPv6Tunnel_dtor
<1>2. CASE fd # -1
  <2>1. fds' = fds \ {fd} /\ iface' = "absent" /\ flags' = {} /\ mtu' = 0
        /\ addrs' = {}
    BY <1>2 DEF IPv6Tunnel_dtor
  <2>. QED
    BY <1>1, <2>1
       DEF IInv, TypeOK, HandleOwnsInterface, NoInterface, handleBar, T!Ops
<1>3. CASE fd = -1
  <2>1. UNCHANGED <<fds, iface, flags, mtu, addrs>>
    BY <1>3 DEF IPv6Tunnel_dtor
  <2>. QED
    BY <1>1, <1>3, <2>1
       DEF IInv, TypeOK, HandleOwnsInterface, NoInterface, handleBar, T!Ops
<1>. QED
  BY <1>2, <1>3


\* A call that returns -1 and changes nothing but its result and the count.
LEMMA RefuseIInv ==
    ASSUME IInv, Call, NEW op \in T!Ops, NEW arg \in Int, Refuse(op, arg)
    PROVE  IInv'
<1>1. UNCHANGED <<obj, fd, fds, iface, flags, mtu, addrs, pbuf, plen, rx>>
      /\ last' = [op |-> op, arg |-> arg, ret |-> -1] /\ calls' = calls + 1
  BY DEF Refuse, Return
<1>2. calls' \in 0 .. MaxCalls
  BY <1>1, TunnelAssumption DEF Call, IInv, TypeOK
<1>3. TypeOK'
  BY <1>1, <1>2 DEF IInv, TypeOK
<1>. QED
  BY <1>1, <1>3 DEF IInv, HandleOwnsInterface, NoInterface, handleBar

\* A successful call: the count goes up, the object keeps its descriptor.
LEMMA CallCount ==
    ASSUME IInv, Call, calls' = calls + 1
    PROVE  calls' \in 0 .. MaxCalls
  BY TunnelAssumption DEF Call, IInv, TypeOK

LEMMA SetStateIInv ==
    ASSUME IInv, NEW up \in {0, 1}, SetState(up)
    PROVE  IInv'
<1>1. Call
  BY DEF SetState
<1>2. PICK sockOk, getOk, setOk \in BOOLEAN :
        IF fd = -1 \/ NewFd(sockOk) = -1 \/ ~getOk \/ ~setOk
          THEN Refuse("SetState", up)
          ELSE /\ flags' = StateFlags(flags, up)
               /\ Return("SetState", up, 0)
               /\ UNCHANGED <<obj, fd, fds, iface, mtu, addrs, pbuf, plen, rx>>
  BY DEF SetState
<1>3. CASE fd = -1 \/ NewFd(sockOk) = -1 \/ ~getOk \/ ~setOk
  BY <1>1, <1>2, <1>3, RefuseIInv DEF T!Ops
<1>4. CASE ~(fd = -1 \/ NewFd(sockOk) = -1 \/ ~getOk \/ ~setOk)
  <2>1. /\ flags' = StateFlags(flags, up)
        /\ last' = [op |-> "SetState", arg |-> up, ret |-> 0]
        /\ calls' = calls + 1
        /\ UNCHANGED <<obj, fd, fds, iface, mtu, addrs, pbuf, plen, rx>>
    BY <1>2, <1>4, Zenon DEF Return
  <2>2. fd # -1
    BY <1>4
  <2>3. handleBar = "open" /\ handleBar' = "open"
    BY <1>1, <2>1, <2>2 DEF Call, handleBar
  <2>4. TypeOK'
    BY <1>1, <2>1, CallCount DEF IInv, TypeOK, StateFlags, IfFlags, T!Ops
  <2>. QED
    BY <2>1, <2>3, <2>4 DEF IInv, HandleOwnsInterface, NoInterface
<1>. QED
  BY <1>3, <1>4

LEMMA SetAddressIInv ==
    ASSUME IInv, NEW pl \in PrefixLens, SetAddress(pl)
    PROVE  IInv'
<1>1. Call
  BY DEF SetAddress
<1>2. PICK sockOk, indexOk, addrOk \in BOOLEAN :
        IF fd = -1 \/ pl < 0 \/ pl > 128 \/ NewFd(sockOk) = -1
           \/ ~indexOk \/ ~addrOk
          THEN Refuse("SetAddress", pl)
          ELSE /\ addrs' = addrs \cup {pl}
               /\ Return("SetAddress", pl, 0)
               /\ UNCHANGED <<obj, fd, fds, iface, flags, mtu, pbuf, plen, rx>>
  BY DEF SetAddress
<1>0. pl \in Int
  BY TunnelAssumption
<1>3. CASE fd = -1 \/ pl < 0 \/ pl > 128 \/ NewFd(sockOk) = -1
           \/ ~indexOk \/ ~addrOk
  BY <1>0, <1>1, <1>2, <1>3, RefuseIInv DEF T!Ops
<1>4. CASE ~(fd = -1 \/ pl < 0 \/ pl > 128 \/ NewFd(sockOk) = -1
             \/ ~indexOk \/ ~addrOk)
  <2>1. /\ addrs' = addrs \cup {pl}
        /\ last' = [op |-> "SetAddress", arg |-> pl, ret |-> 0]
        /\ calls' = calls + 1
        /\ UNCHANGED <<obj, fd, fds, iface, flags, mtu, pbuf, plen, rx>>
    BY <1>2, <1>4, Zenon DEF Return
  <2>2. fd # -1 /\ pl \in 0 .. 128
    BY <1>0, <1>4
  <2>3. handleBar = "open" /\ handleBar' = "open"
    BY <1>1, <2>1, <2>2 DEF Call, handleBar
  <2>4. TypeOK'
    BY <1>1, <2>1, <2>2, CallCount DEF IInv, TypeOK, T!Ops
  <2>. QED
    BY <2>1, <2>3, <2>4 DEF IInv, HandleOwnsInterface, NoInterface
<1>. QED
  BY <1>3, <1>4

\* SetMTU either refuses, or sets the MTU and keeps a descriptor it took
\* from the free ones.
LEMMA SetMTUCases ==
    ASSUME IInv, NEW m \in MTUs, SetMTU(m)
    PROVE  \/ Refuse("SetMTU", m)
           \/ \E r \in FdSlots \ fds :
                 /\ fd # -1 /\ MTUMin <= m /\ m <= MTUMax
                 /\ mtu' = m
                 /\ fds' = fds \cup {r}
                 /\ Return("SetMTU", m, 0)
                 /\ UNCHANGED <<obj, fd, iface, flags, addrs, pbuf, plen, rx>>
<1>1. PICK sockOk, mtuOk \in BOOLEAN :
        IF fd = -1 \/ m < MTUMin \/ m > MTUMax \/ NewFd(sockOk) = -1 \/ ~mtuOk
          THEN Refuse("SetMTU", m)
          ELSE /\ mtu' = m
               /\ fds' = fds \cup {NewFd(sockOk)}
               /\ Return("SetMTU", m, 0)
               /\ UNCHANGED <<obj, fd, iface, flags, addrs, pbuf, plen, rx>>
  BY DEF SetMTU
<1>2. CASE fd = -1 \/ m < MTUMin \/ m > MTUMax \/ NewFd(sockOk) = -1 \/ ~mtuOk
  BY <1>1, <1>2, Zenon
<1>3. CASE ~(fd = -1 \/ m < MTUMin \/ m > MTUMax \/ NewFd(sockOk) = -1 \/ ~mtuOk)
  <2>1. /\ mtu' = m
        /\ fds' = fds \cup {NewFd(sockOk)}
        /\ Return("SetMTU", m, 0)
        /\ UNCHANGED <<obj, fd, iface, flags, addrs, pbuf, plen, rx>>
    BY <1>1, <1>3, Zenon
  <2>2. fd # -1 /\ ~(m < MTUMin) /\ ~(m > MTUMax) /\ NewFd(sockOk) # -1
    BY <1>3, Zenon
  <2>3. MTUMin <= m /\ m <= MTUMax
    BY <2>2, TunnelAssumption DEF MTUMin, MTUMax
  <2>4. NewFd(sockOk) \in FdSlots \ fds
    BY <2>2, NewFdFree DEF IInv
  <2>. QED
    BY <2>1, <2>2, <2>3, <2>4, Zenon
<1>. QED
  BY <1>2, <1>3

LEMMA SetMTUIInv ==
    ASSUME IInv, NEW m \in MTUs, SetMTU(m)
    PROVE  IInv'
<1>1. Call
  BY DEF SetMTU
<1>0. m \in Int
  BY TunnelAssumption
<1>3. CASE Refuse("SetMTU", m)
  BY <1>0, <1>1, <1>3, RefuseIInv DEF T!Ops
<1>4. CASE \E r \in FdSlots \ fds :
                 /\ fd # -1 /\ MTUMin <= m /\ m <= MTUMax
                 /\ mtu' = m
                 /\ fds' = fds \cup {r}
                 /\ Return("SetMTU", m, 0)
                 /\ UNCHANGED <<obj, fd, iface, flags, addrs, pbuf, plen, rx>>
  <2>1. PICK r \in FdSlots \ fds :
                 /\ fd # -1 /\ MTUMin <= m /\ m <= MTUMax
                 /\ mtu' = m
                 /\ fds' = fds \cup {r}
                 /\ last' = [op |-> "SetMTU", arg |-> m, ret |-> 0]
                 /\ calls' = calls + 1
                 /\ UNCHANGED <<obj, fd, iface, flags, addrs, pbuf, plen, rx>>
    BY <1>4 DEF Return
  <2>3. handleBar = "open" /\ handleBar' = "open"
    BY <1>1, <2>1 DEF Call, handleBar
  <2>4. TypeOK'
    BY <1>0, <1>1, <2>1, CallCount DEF IInv, TypeOK, T!Ops, MTUMin
  <2>. QED
    BY <2>1, <2>3, <2>4 DEF IInv, HandleOwnsInterface, NoInterface
<1>. QED
  BY <1>3, <1>4, SetMTUCases


\* The frame read() returns has a length and a header of the right kinds.
LEMMA FrameType ==
    ASSUME NEW f \in T!Frames
    PROVE  /\ f.len \in Nat
           /\ f.hdr \in [1 .. 4 -> Bytes]
           /\ f \in [len : Nat, hdr : T!Headers]
<1>1. f.len \in ReadLens /\ f.hdr \in T!Headers
  BY Zenon DEF T!Frames
<1>2. f.len \in Nat
  BY <1>1, TunnelAssumption
<1>3. f = [len |-> f.len, hdr |-> f.hdr]
  BY Zenon DEF T!Frames
<1>. QED
  BY <1>1, <1>2, <1>3, HeadersAreBytes, Zenon

\* ReceivePacket either refuses, or reads a frame into pbuf.
LEMMA ReceiveCases ==
    ASSUME ReceivePacket
    PROVE  \/ Refuse("ReceivePacket", 0)
           \/ \E f \in T!Frames :
                 /\ fd # -1
                 /\ pbuf' = ReadInto(pbuf, f)
                 /\ plen' = f.len
                 /\ rx' = f
                 /\ Return("ReceivePacket", 0,
                           IF ReadInto(pbuf, f)[3] = T!IPv6Hdr[3]
                              /\ ReadInto(pbuf, f)[4] = T!IPv6Hdr[4]
                             THEN 0 ELSE -1)
                 /\ UNCHANGED <<obj, fd, fds, iface, flags, mtu, addrs>>
<1>1. PICK ready \in SUBSET RegisterReadSet({}), readOk \in BOOLEAN,
           f \in T!Frames :
          IF fd = -1 \/ fd \notin ready \/ ~readOk
            THEN Refuse("ReceivePacket", 0)
            ELSE LET b == ReadInto(pbuf, f) IN
                 /\ pbuf' = b
                 /\ plen' = f.len
                 /\ rx' = f
                 /\ Return("ReceivePacket", 0,
                           IF b[3] = T!IPv6Hdr[3] /\ b[4] = T!IPv6Hdr[4]
                             THEN 0 ELSE -1)
                 /\ UNCHANGED <<obj, fd, fds, iface, flags, mtu, addrs>>
  BY DEF ReceivePacket
<1>. QED
  BY <1>1, Zenon

LEMMA ReceiveIInv ==
    ASSUME IInv, ReceivePacket
    PROVE  IInv'
<1>1. Call
  BY DEF ReceivePacket
<1>2. CASE Refuse("ReceivePacket", 0)
  BY <1>1, <1>2, RefuseIInv DEF T!Ops
<1>3. CASE \E f \in T!Frames :
                 /\ fd # -1
                 /\ pbuf' = ReadInto(pbuf, f)
                 /\ plen' = f.len
                 /\ rx' = f
                 /\ Return("ReceivePacket", 0,
                           IF ReadInto(pbuf, f)[3] = T!IPv6Hdr[3]
                              /\ ReadInto(pbuf, f)[4] = T!IPv6Hdr[4]
                             THEN 0 ELSE -1)
                 /\ UNCHANGED <<obj, fd, fds, iface, flags, mtu, addrs>>
  <2>1. PICK f \in T!Frames :
                 /\ fd # -1
                 /\ pbuf' = ReadInto(pbuf, f)
                 /\ plen' = f.len
                 /\ rx' = f
                 /\ last' \in [op : T!Ops, arg : Int, ret : {-1, 0}]
                 /\ calls' = calls + 1
                 /\ UNCHANGED <<obj, fd, fds, iface, flags, mtu, addrs>>
    BY <1>3 DEF Return, T!Ops
  <2>2. pbuf' \in [1 .. 4 -> Bytes]
    BY <2>1, ReadIntoBytes DEF IInv, TypeOK
  <2>3. plen' \in Nat /\ rx' \in [len : Nat, hdr : T!Headers]
    BY <2>1, FrameType
  <2>4. TypeOK'
    BY <1>1, <2>1, <2>2, <2>3, CallCount DEF IInv, TypeOK
  <2>5. handleBar' = handleBar
    BY <2>1 DEF handleBar
  <2>. QED
    BY <2>1, <2>4, <2>5 DEF IInv, HandleOwnsInterface, NoInterface
<1>. QED
  BY <1>2, <1>3, ReceiveCases

LEMMA SendIInv ==
    ASSUME IInv, NEW n \in SendLens, SendPacket(n)
    PROVE  IInv'
<1>1. Call
  BY DEF SendPacket
<1>0. n \in Int
  BY TunnelAssumption
<1>2. Refuse("SendPacket", n) \/
      (Return("SendPacket", n, 0) /\
       UNCHANGED <<obj, fd, fds, iface, flags, mtu, addrs, pbuf, plen, rx>>)
  BY Zenon DEF SendPacket
<1>3. CASE Refuse("SendPacket", n)
  BY <1>0, <1>1, <1>3, RefuseIInv DEF T!Ops
<1>4. CASE Return("SendPacket", n, 0) /\
           UNCHANGED <<obj, fd, fds, iface, flags, mtu, addrs, pbuf, plen, rx>>
  <2>1. TypeOK'
    BY <1>0, <1>1, <1>4, CallCount DEF IInv, TypeOK, Return, T!Ops
  <2>. QED
    BY <1>4, <2>1 DEF IInv, HandleOwnsInterface, NoInterface, handleBar
<1>. QED
  BY <1>2, <1>3, <1>4

\* Every step keeps the inductive invariant.
LEMMA NextIInv == IInv /\ [Next]_vars => IInv'
<1> SUFFICES ASSUME IInv, [Next]_vars PROVE IInv'
  OBVIOUS
<1>1. CASE IPv6Tunnel_ctor
  BY <1>1, CtorIInv
<1>2. CASE IPv6Tunnel_dtor
  BY <1>2, DtorIInv
<1>3. CASE \E up \in {0, 1} : SetState(up)
  BY <1>3, SetStateIInv
<1>4. CASE \E pl \in PrefixLens : SetAddress(pl)
  BY <1>4, SetAddressIInv
<1>5. CASE \E m \in MTUs : SetMTU(m)
  BY <1>5, SetMTUIInv
<1>6. CASE ReceivePacket
  BY <1>6, ReceiveIInv
<1>7. CASE \E n \in SendLens : SendPacket(n)
  BY <1>7, SendIInv
<1>8. CASE Terminated \/ UNCHANGED vars
  BY <1>8 DEF Terminated, vars, IInv, TypeOK, HandleOwnsInterface,
              NoInterface, handleBar
<1>. QED
  BY <1>1, <1>2, <1>3, <1>4, <1>5, <1>6, <1>7, <1>8 DEF Next

LEMMA IInvInvariant == Spec => []IInv
  BY InitIInv, NextIInv, PTL DEF Spec

\* IPv6Tunnel's variables keep their types, for every size of the
\* descriptor table and every set of arguments.
THEOREM TunnelTypeCorrect == Spec => []TypeOK
  BY IInvInvariant, PTL DEF IInv

\* The object owns the interface it created (HandleOwnsInterface): the
\* constructor's cleanup and the destructor keep descriptor and interface
\* together, whatever the system calls return.
THEOREM HandleOwnsInterfaceHolds == Spec => []HandleOwnsInterface
  BY IInvInvariant, PTL DEF IInv


-----------------------------------------------------------------------------
(* Failed calls give their descriptors back.                               *)

ReleaseStep == last'.ret = -1 => fds' = fds

LEMMA RefuseRelease ==
    ASSUME NEW op, NEW arg, Refuse(op, arg)
    PROVE  ReleaseStep
  BY DEF Refuse, ReleaseStep

\* A step that leaves the descriptors alone.
LEMMA KeepRelease ==
    ASSUME fds' = fds
    PROVE  ReleaseStep
  BY DEF ReleaseStep

LEMMA NextRelease == IInv /\ [Next]_vars => [ReleaseStep]_vars
<1> SUFFICES ASSUME IInv, [Next]_vars PROVE [ReleaseStep]_vars
  OBVIOUS
<1>1. CASE IPv6Tunnel_ctor
  <2>1. PICK openOk, setiffOk \in BOOLEAN, junk \in T!Headers :
          LET t == NewFd(openOk) IN
          /\ IF t # -1 /\ setiffOk
               THEN /\ fd' = t
                    /\ fds' = fds \cup {t}
                    /\ iface' = "present"
                    /\ flags' = TunFlags
                    /\ mtu' = T!DriverMTU
                    /\ last' = [op |-> "Open", arg |-> 0, ret |-> 0]
               ELSE /\ fd' = -1
                    /\ UNCHANGED <<fds, iface, flags, mtu>>
                    /\ last' = [op |-> "Open", arg |-> 0, ret |-> -1]
          /\ pbuf' = junk
    BY <1>1 DEF IPv6Tunnel_ctor
  <2>2. ASSUME NewFd(openOk) # -1 /\ setiffOk PROVE last'.ret = 0
    <3>1. last' = [op |-> "Open", arg |-> 0, ret |-> 0]
      BY <2>1, <2>2, Zenon
    <3>. QED
      BY <3>1
  <2>3. ASSUME ~(NewFd(openOk) # -1 /\ setiffOk) PROVE fds' = fds
    BY <2>1, <2>3, Zenon
  <2>4. last'.ret = 0 \/ fds' = fds
    BY <2>2, <2>3
  <2>. QED
    BY <2>4 DEF ReleaseStep
<1>2. CASE IPv6Tunnel_dtor
  BY <1>2 DEF IPv6Tunnel_dtor, ReleaseStep
<1>3. CASE \E up \in {0, 1} : SetState(up)
  BY <1>3, RefuseRelease, KeepRelease, Zenon DEF SetState
<1>4. CASE \E pl \in PrefixLens : SetAddress(pl)
  BY <1>4, RefuseRelease, KeepRelease, Zenon DEF SetAddress
<1>5. CASE \E m \in MTUs : SetMTU(m)
  <2>1. PICK m \in MTUs : SetMTU(m)
    BY <1>5
  <2>2. Refuse("SetMTU", m) \/ last'.ret = 0
    BY <2>1, SetMTUCases DEF Return
  <2>. QED
    BY <2>2, RefuseRelease DEF ReleaseStep
<1>6. CASE ReceivePacket
  BY <1>6, ReceiveCases, RefuseRelease, KeepRelease, Zenon
<1>7. CASE \E n \in SendLens : SendPacket(n)
  BY <1>7, RefuseRelease, KeepRelease, Zenon DEF SendPacket
<1>8. CASE Terminated \/ UNCHANGED vars
  BY <1>8 DEF Terminated, vars
<1>. QED
  BY <1>1, <1>2, <1>3, <1>4, <1>5, <1>6, <1>7, <1>8 DEF Next

\* FailedCallReleasesSockets: no call of the object that returns -1 leaves
\* a descriptor open, whichever system call on its path failed.
THEOREM FailedCallReleasesSocketsHolds == Spec => FailedCallReleasesSockets
<1>1. Spec => [][ReleaseStep]_vars
  BY IInvInvariant, NextRelease, PTL DEF Spec
<1>. QED
  BY <1>1 DEF FailedCallReleasesSockets, ReleaseStep


-----------------------------------------------------------------------------
(* Refinement: IPv6Tunnel implements the TunnelDevice contract.            *)

LEMMA SetStateCases ==
    ASSUME NEW up, SetState(up)
    PROVE  \/ Refuse("SetState", up)
           \/ /\ fd # -1
              /\ flags' = StateFlags(flags, up)
              /\ Return("SetState", up, 0)
              /\ UNCHANGED <<obj, fd, fds, iface, mtu, addrs, pbuf, plen, rx>>
  BY Zenon DEF SetState

LEMMA SetAddressCases ==
    ASSUME NEW pl \in PrefixLens, SetAddress(pl)
    PROVE  \/ Refuse("SetAddress", pl)
           \/ /\ fd # -1 /\ pl \in 0 .. 128
              /\ addrs' = addrs \cup {pl}
              /\ Return("SetAddress", pl, 0)
              /\ UNCHANGED <<obj, fd, fds, iface, flags, mtu, pbuf, plen, rx>>
<1>1. pl \in Int
  BY TunnelAssumption
<1>2. \/ Refuse("SetAddress", pl)
      \/ /\ fd # -1 /\ ~(pl < 0) /\ ~(pl > 128)
         /\ addrs' = addrs \cup {pl}
         /\ Return("SetAddress", pl, 0)
         /\ UNCHANGED <<obj, fd, fds, iface, flags, mtu, pbuf, plen, rx>>
  BY Zenon DEF SetAddress
<1>. QED
  BY <1>1, <1>2

\* The mapped handle of a live object.
LEMMA LiveHandle ==
    ASSUME Call
    PROVE  /\ handleBar \in {"open", "invalid"}
           /\ fd # -1 => handleBar = "open"
  BY DEF Call, handleBar

\* A refused call is a failing operation of the contract.
LEMMA RefuseRefines ==
    ASSUME Call, NEW op, NEW arg, Refuse(op, arg)
    PROVE  /\ T!Fail(op, arg)
           /\ handleBar \in {"open", "invalid"}
  BY LiveHandle DEF Refuse, Return, T!Fail, T!Result, handleBar, upBar,
                    shapeBar

LEMMA CtorRefines == IInv /\ IPv6Tunnel_ctor => T!Open
<1> SUFFICES ASSUME IInv, IPv6Tunnel_ctor PROVE T!Open
  OBVIOUS
<1>1. PICK openOk, setiffOk \in BOOLEAN, junk \in T!Headers :
        LET t == NewFd(openOk) IN
        /\ IF t # -1 /\ setiffOk
             THEN /\ fd' = t
                  /\ fds' = fds \cup {t}
                  /\ iface' = "present"
                  /\ flags' = TunFlags
                  /\ mtu' = T!DriverMTU
                  /\ last' = [op |-> "Open", arg |-> 0, ret |-> 0]
             ELSE /\ fd' = -1
                  /\ UNCHANGED <<fds, iface, flags, mtu>>
                  /\ last' = [op |-> "Open", arg |-> 0, ret |-> -1]
        /\ pbuf' = junk
  BY DEF IPv6Tunnel_ctor
<1>2. obj = "none" /\ obj' = "live" /\ UNCHANGED <<addrs, rx>>
  BY DEF IPv6Tunnel_ctor
<1>3. handleBar = "none" /\ flags = {} /\ mtu = 0
  BY <1>2 DEF IInv, NoInterface, handleBar
<1>4. upBar = "down" /\ shapeBar = "default"
  BY <1>3 DEF upBar, shapeBar
<1>5. CASE NewFd(openOk) # -1 /\ setiffOk
  <2>1. /\ fd' = NewFd(openOk) /\ flags' = TunFlags /\ mtu' = T!DriverMTU
        /\ last' = [op |-> "Open", arg |-> 0, ret |-> 0]
    BY <1>1, <1>5, Zenon
  <2>2. handleBar' = "open" /\ upBar' = "down" /\ shapeBar' = "default"
    BY <1>2, <1>5, <2>1 DEF handleBar, upBar, shapeBar, TunFlags
  <2>. QED
    BY <1>2, <1>3, <1>4, <2>1, <2>2 DEF T!Open, T!Result
<1>6. CASE ~(NewFd(openOk) # -1 /\ setiffOk)
  <2>1. /\ fd' = -1 /\ UNCHANGED <<flags, mtu>>
        /\ last' = [op |-> "Open", arg |-> 0, ret |-> -1]
    BY <1>1, <1>6, Zenon
  <2>2. handleBar' = "invalid" /\ upBar' = "down" /\ shapeBar' = "default"
    BY <1>2, <1>3, <2>1 DEF handleBar, upBar, shapeBar
  <2>. QED
    BY <1>2, <1>3, <1>4, <2>1, <2>2 DEF T!Open, T!Result
<1>. QED
  BY <1>5, <1>6

LEMMA DtorRefines == IInv /\ IPv6Tunnel_dtor => T!Close
<1> SUFFICES ASSUME IInv, IPv6Tunnel_dtor PROVE T!Close
  OBVIOUS
<1>1. /\ obj = "live" /\ obj' = "gone"
      /\ last' = [op |-> "Close", arg |-> 0, ret |-> 0]
      /\ UNCHANGED <<fd, rx>>
  BY DEF IPv6Tunnel_dtor
<1>2. handleBar \in {"open", "invalid"} /\ handleBar' = "closed"
  BY <1>1 DEF handleBar
<1>3. flags' = {} /\ mtu' = 0 /\ addrs' = {}
  <2>1. CASE fd # -1
    BY <2>1 DEF IPv6Tunnel_dtor
  <2>2. CASE fd = -1
    <3>1. handleBar # "open"
      BY <1>1, <2>2 DEF handleBar
    <3>. QED
      BY <2>2, <3>1 DEF IPv6Tunnel_dtor, IInv, NoInterface
  <2>. QED
    BY <2>1, <2>2
<1>4. upBar' = "down" /\ shapeBar' = "default"
  BY <1>3 DEF upBar, shapeBar
<1>. QED
  BY <1>1, <1>2, <1>3, <1>4 DEF T!Close, T!Result

LEMMA SetStateRefines ==
    ASSUME IInv, NEW up \in {0, 1}, SetState(up)
    PROVE  T!BringUp(up)
<1>1. Call
  BY DEF SetState
<1>2. CASE Refuse("SetState", up)
  BY <1>1, <1>2, RefuseRefines DEF T!BringUp
<1>3. CASE /\ fd # -1
           /\ flags' = StateFlags(flags, up)
           /\ Return("SetState", up, 0)
           /\ UNCHANGED <<obj, fd, fds, iface, mtu, addrs, pbuf, plen, rx>>
  <2>1. handleBar = "open" /\ handleBar' = "open"
    BY <1>1, <1>3, LiveHandle DEF handleBar
  <2>2. upBar' = IF up = 1 THEN "up" ELSE "down"
    BY <1>3 DEF upBar, StateFlags
  <2>3. shapeBar' = "p2p"
    BY <1>3 DEF shapeBar, StateFlags
  <2>. QED
    BY <1>3, <2>1, <2>2, <2>3 DEF T!BringUp, T!Result, Return
<1>. QED
  BY <1>2, <1>3, SetStateCases

LEMMA SetAddressRefines ==
    ASSUME IInv, NEW pl \in PrefixLens, SetAddress(pl)
    PROVE  T!SetAddress(pl)
<1>1. Call
  BY DEF SetAddress
<1>2. CASE Refuse("SetAddress", pl)
  BY <1>1, <1>2, RefuseRefines DEF T!SetAddress
<1>3. CASE /\ fd # -1 /\ pl \in 0 .. 128
           /\ addrs' = addrs \cup {pl}
           /\ Return("SetAddress", pl, 0)
           /\ UNCHANGED <<obj, fd, fds, iface, flags, mtu, pbuf, plen, rx>>
  <2>1. handleBar = "open" /\ handleBar' = "open"
    BY <1>1, <1>3, LiveHandle DEF handleBar
  <2>2. upBar' = upBar /\ shapeBar' = shapeBar
    BY <1>3 DEF upBar, shapeBar
  <2>. QED
    BY <1>3, <2>1, <2>2 DEF T!SetAddress, T!Result, Return
<1>. QED
  BY <1>2, <1>3, SetAddressCases


LEMMA SetMTURefines ==
    ASSUME IInv, NEW m \in MTUs, SetMTU(m)
    PROVE  T!SetMTU(m)
<1>1. Call
  BY DEF SetMTU
<1>2. CASE Refuse("SetMTU", m)
  BY <1>1, <1>2, RefuseRefines DEF T!SetMTU
<1>3. CASE \E r \in FdSlots \ fds :
                 /\ fd # -1 /\ MTUMin <= m /\ m <= MTUMax
                 /\ mtu' = m
                 /\ fds' = fds \cup {r}
                 /\ Return("SetMTU", m, 0)
                 /\ UNCHANGED <<obj, fd, iface, flags, addrs, pbuf, plen, rx>>
  <2>1. /\ fd # -1 /\ MTUMin <= m /\ m <= MTUMax
        /\ mtu' = m
        /\ Return("SetMTU", m, 0)
        /\ UNCHANGED <<obj, fd, iface, flags, addrs, pbuf, plen, rx>>
    BY <1>3
  <2>2. handleBar = "open" /\ handleBar' = "open"
    BY <1>1, <2>1, LiveHandle DEF handleBar
  <2>3. upBar' = upBar /\ shapeBar' = shapeBar
    BY <2>1 DEF upBar, shapeBar
  <2>4. T!MinMTU <= m /\ m <= T!MaxMTU
    BY <2>1 DEF MTUMin, MTUMax, T!MinMTU, T!MaxMTU
  <2>. QED
    BY <2>1, <2>2, <2>3, <2>4 DEF T!SetMTU, T!Result, Return
<1>. QED
  BY <1>2, <1>3, SetMTUCases

LEMMA ReceiveRefines ==
    ASSUME IInv, DriverFrames, ReceivePacket
    PROVE  T!ReceivePacket
<1>1. Call
  BY DEF ReceivePacket
<1>2. CASE Refuse("ReceivePacket", 0)
  BY <1>1, <1>2, RefuseRefines DEF T!ReceivePacket
<1>3. CASE \E f \in T!Frames :
                 /\ fd # -1
                 /\ pbuf' = ReadInto(pbuf, f)
                 /\ plen' = f.len
                 /\ rx' = f
                 /\ Return("ReceivePacket", 0,
                           IF ReadInto(pbuf, f)[3] = T!IPv6Hdr[3]
                              /\ ReadInto(pbuf, f)[4] = T!IPv6Hdr[4]
                             THEN 0 ELSE -1)
                 /\ UNCHANGED <<obj, fd, fds, iface, flags, mtu, addrs>>
  <2>1. PICK f \in T!Frames :
                 /\ fd # -1
                 /\ rx' = f
                 /\ last' = [op |-> "ReceivePacket", arg |-> 0,
                             ret |-> IF ReadInto(pbuf, f)[3] = T!IPv6Hdr[3]
                                        /\ ReadInto(pbuf, f)[4] = T!IPv6Hdr[4]
                                      THEN 0 ELSE -1]
                 /\ UNCHANGED <<obj, fd, fds, iface, flags, mtu, addrs>>
    BY <1>3 DEF Return
  <2>2. f.len \in Nat /\ f.hdr \in [1 .. 4 -> Bytes] /\ f.len >= 4
    <3>1. f.len \in ReadLens
      BY Zenon DEF T!Frames
    <3>. QED
      BY <3>1, FrameType DEF DriverFrames
  <2>3. ReadInto(pbuf, f) = f.hdr
    BY <2>2, ReadIntoWhole
  <2>4. (IF ReadInto(pbuf, f)[3] = T!IPv6Hdr[3]
            /\ ReadInto(pbuf, f)[4] = T!IPv6Hdr[4] THEN 0 ELSE -1)
        = (IF T!IsIPv6Frame(f) THEN 0 ELSE -1)
    BY <2>2, <2>3 DEF T!IsIPv6Frame
  <2>5. handleBar = "open" /\ handleBar' = "open"
    BY <1>1, <2>1, LiveHandle DEF handleBar
  <2>6. upBar' = upBar /\ shapeBar' = shapeBar
    BY <2>1 DEF upBar, shapeBar
  <2>. QED
    BY <2>1, <2>4, <2>5, <2>6, Zenon DEF T!ReceivePacket, T!Result
<1>. QED
  BY <1>2, <1>3, ReceiveCases

LEMMA SendRefines ==
    ASSUME IInv, NEW n \in SendLens, SendPacket(n)
    PROVE  T!SendPacket(n)
<1>1. Call
  BY DEF SendPacket
<1>2. \/ Refuse("SendPacket", n)
      \/ /\ fd # -1 /\ ~(n > PacketMax)
         /\ Return("SendPacket", n, 0)
         /\ UNCHANGED <<obj, fd, fds, iface, flags, mtu, addrs, pbuf, plen, rx>>
  BY Zenon DEF SendPacket
<1>3. CASE Refuse("SendPacket", n)
  BY <1>1, <1>3, RefuseRefines DEF T!SendPacket
<1>4. CASE /\ fd # -1 /\ ~(n > PacketMax)
           /\ Return("SendPacket", n, 0)
           /\ UNCHANGED <<obj, fd, fds, iface, flags, mtu, addrs, pbuf, plen, rx>>
  <2>1. handleBar = "open" /\ handleBar' = "open"
    BY <1>1, <1>4, LiveHandle DEF handleBar
  <2>2. upBar' = upBar /\ shapeBar' = shapeBar
    BY <1>4 DEF upBar, shapeBar
  <2>3. n <= T!MaxMTU
    BY <1>4, TunnelAssumption DEF PacketMax, T!MaxMTU
  <2>. QED
    BY <1>4, <2>1, <2>2, <2>3 DEF T!SendPacket, T!Result, Return
<1>. QED
  BY <1>2, <1>3, <1>4

LEMMA NextRefines ==
    IInv /\ DriverFrames /\ [Next]_vars => [T!ANext]_T!avars
<1> SUFFICES ASSUME IInv, DriverFrames, [Next]_vars
             PROVE  [T!ANext]_T!avars
  OBVIOUS
<1>1. CASE IPv6Tunnel_ctor
  BY <1>1, CtorRefines DEF T!ANext
<1>2. CASE IPv6Tunnel_dtor
  BY <1>2, DtorRefines DEF T!ANext
<1>3. CASE \E up \in {0, 1} : SetState(up)
  BY <1>3, SetStateRefines DEF T!ANext
<1>4. CASE \E pl \in PrefixLens : SetAddress(pl)
  BY <1>4, SetAddressRefines DEF T!ANext
<1>5. CASE \E m \in MTUs : SetMTU(m)
  BY <1>5, SetMTURefines DEF T!ANext
<1>6. CASE ReceivePacket
  BY <1>6, ReceiveRefines DEF T!ANext
<1>7. CASE \E n \in SendLens : SendPacket(n)
  BY <1>7, SendRefines DEF T!ANext
<1>8. CASE Terminated \/ UNCHANGED vars
  BY <1>8 DEF Terminated, vars, T!avars, handleBar, upBar, shapeBar
<1>. QED
  BY <1>1, <1>2, <1>3, <1>4, <1>5, <1>6, <1>7, <1>8 DEF Next

LEMMA InitRefines == Init => T!AInit
  BY DEF Init, T!AInit, handleBar, upBar, shapeBar

\* ImplementsTunnelDevice: when the driver always returns the 4-byte frame
\* header (DriverFrames), every behaviour of the IPv6Tunnel object is one
\* the contract of spec.md 4.1 allows, whatever the system calls return and
\* however many descriptors SetMTU leaks.  Without DriverFrames the
\* refinement fails: see AcceptedFrameIsIPv6.
THEOREM TunnelRefinesDevice == DriverFrames => (Spec => ImplementsTunnelDevice)
<1> SUFFICES ASSUME DriverFrames PROVE Spec => T!ASpec
  BY DEF ImplementsTunnelDevice
<1>1. []IInv /\ [][Next]_vars => [][T!ANext]_T!avars
  BY NextRefines, PTL
<1>. QED
  BY <1>1, InitRefines, IInvInvariant, PTL DEF Spec, T!ASpec

=============================================================================
