--------------------------- MODULE MiredoRunProofs --------------------------
(***************************************************************************)
(* Proof that miredo_run() enters its event loop only when everything it  *)
(* set up is ready (ServeOnlyWhenReady), for every bound.                  *)
(***************************************************************************)
EXTENDS MiredoRun, TLAPS

\* The places from SetMTU's success up to the event loop.
TunnelReady == {"privsep", "setuid", "server", "relay", "serve"}

\* What holds at each place of the setup; the helper socket is closed only
\* in the teardown, so a forked helper runs throughout the setup.
RInv ==
    /\ wpc \in TunnelReady => obj = "live" /\ fd # -1 /\ mtu = 1280
    /\ wpc \in {"server", "relay", "serve"} => uid = "user"
    /\ (wpc \in {"setuid", "server", "relay", "serve"} /\ Client)
          => helper = "running"
    /\ privfd = "closed" => wpc \in {"wait", "return430", "done"}
    /\ (wpc = "serve" /\ mode # "disabled") => relay = "ready"
    /\ (wpc \in {"relay", "serve"} /\ ~Client /\ serverIp) => server = "ready"

\* A SetMTU call that returns 0 leaves the object and its descriptor as they
\* were and sets the MTU it was given (IPv6Tunnel::SetMTU, lines 207-242).
LEMMA SetMTUSuccess ==
    ASSUME NEW m, Tun!SetMTU(m), last'.ret = 0
    PROVE  obj' = "live" /\ fd' = fd /\ mtu' = m
<1>1. PICK sockOk, mtuOk \in BOOLEAN :
        IF fd = -1 \/ m < Tun!MTUMin \/ m > Tun!MTUMax
           \/ Tun!NewFd(sockOk) = -1 \/ ~mtuOk
          THEN Tun!Refuse("SetMTU", m)
          ELSE /\ mtu' = m
               /\ fds' = fds \cup {Tun!NewFd(sockOk)}
               /\ Tun!Return("SetMTU", m, 0)
               /\ UNCHANGED <<obj, fd, iface, flags, addrs, pbuf, plen, rx>>
  BY Zenon DEF Tun!SetMTU
<1>2. ~(fd = -1 \/ m < Tun!MTUMin \/ m > Tun!MTUMax
        \/ Tun!NewFd(sockOk) = -1 \/ ~mtuOk)
  BY <1>1 DEF Tun!Refuse, Tun!Return
<1>3. obj = "live"
  BY DEF Tun!SetMTU, Tun!Call
<1>. QED
  BY <1>1, <1>2, <1>3, Zenon

\* The steps of miredo_run() and of the helper preserve RInv.
LEMMA NextRInv == RInv /\ [Next]_vars => RInv'
<1> SUFFICES ASSUME RInv, [Next]_vars PROVE RInv'
  OBVIOUS
<1>1. CASE InitNonce
  <2>1. wpc = "nonce" /\ wpc' = "tunnel" /\ privfd' = privfd
    BY <1>1 DEF InitNonce
  <2>. QED
    BY <2>1, Zenon DEF RInv, TunnelReady
<1>2. CASE CreateTunnel
  <2>1. wpc = "tunnel" /\ wpc' = "mtu" /\ privfd' = privfd
    BY <1>2 DEF CreateTunnel
  <2>. QED
    BY <2>1, Zenon DEF RInv, TunnelReady
<1>3. CASE SetTunnelMTU
  <2>0. /\ wpc = "mtu"
        /\ UNCHANGED <<mode, serverIp, nonce, uid, privfd, helper, helperFds,
                       relay, server, retval, sigs>>
    BY <1>3 DEF SetTunnelMTU
  <2>1. CASE fd = -1 /\ wpc' = "return253" /\ UNCHANGED tvars
    <3>1. wpc = "mtu" /\ privfd' = privfd
      BY <2>0
    <3>. QED
      BY <2>1, <3>1, Zenon DEF RInv, TunnelReady
  <2>2. CASE /\ fd # -1 /\ Tun!SetMTU(1280)
             /\ wpc' = IF last'.ret = 0 THEN "privsep" ELSE "return253"
    <3>1. CASE last'.ret = 0
      <4>1. obj' = "live" /\ fd' # -1 /\ mtu' = 1280
        BY <2>2, <3>1, SetMTUSuccess
      <4>2. wpc' = "privsep"
        BY <2>2, <3>1
      <4>3. wpc = "mtu" /\ privfd' = privfd
        BY <2>0
      <4>. QED
        BY <4>1, <4>2, <4>3, Zenon DEF RInv, TunnelReady
    <3>2. CASE last'.ret # 0
      <4>1. wpc' = "return253"
        BY <2>2, <3>2
      <4>. QED
        BY <2>0, <4>1, Zenon DEF RInv, TunnelReady, Client
    <3>. QED
      BY <3>1, <3>2
  <2>. QED
    BY <1>3, <2>1, <2>2 DEF SetTunnelMTU
<1>4. CASE PrivSetup
  <2>0. /\ wpc = "privsep"
        /\ UNCHANGED <<tvars, mode, serverIp, nonce, uid, relay, server,
                       retval, sigs>>
    BY <1>4 DEF PrivSetup
  <2>1. PICK ok \in BOOLEAN :
          /\ IF Client /\ ok
               THEN /\ privfd' = "open"
                    /\ helper' = "running"
                    /\ helperFds' = fds
               ELSE UNCHANGED <<privfd, helper, helperFds>>
          /\ wpc' = IF ok THEN "setuid" ELSE "abort"
    BY <1>4 DEF PrivSetup
  <2>2. /\ obj' = obj /\ fd' = fd /\ mtu' = mtu
        /\ mode' = mode /\ uid' = uid /\ serverIp' = serverIp
        /\ relay' = relay /\ server' = server
    BY <2>0 DEF tvars
  <2>3. privfd' # "closed"
    BY <2>0, <2>1 DEF RInv
  <2>4. CASE ok /\ Client
    <3>1. helper' = "running" /\ wpc' = "setuid"
      BY <2>1, <2>4
    <3>. QED
      BY <2>0, <2>2, <2>3, <3>1, Zenon DEF RInv, TunnelReady, Client
  <2>5. CASE ok /\ ~Client
    <3>1. wpc' = "setuid"
      BY <2>1, <2>5
    <3>2. ~Client'
      BY <2>2, <2>5 DEF Client
    <3>. QED
      BY <2>0, <2>2, <2>3, <3>1, <3>2, Zenon DEF RInv, TunnelReady
  <2>6. CASE ~ok
    <3>1. wpc' = "abort"
      BY <2>1, <2>6
    <3>. QED
      BY <2>3, <3>1, Zenon DEF RInv, TunnelReady
  <2>. QED
    BY <2>4, <2>5, <2>6
<1>5. CASE SetUid
  <2>0. /\ wpc = "setuid"
        /\ UNCHANGED <<tvars, mode, serverIp, nonce, privfd, helper,
                       helperFds, relay, server, retval, sigs>>
    BY <1>5 DEF SetUid
  <2>1. PICK ok \in BOOLEAN : /\ uid' = IF ok THEN "user" ELSE uid
                              /\ wpc' = IF ok THEN "server" ELSE "abort"
    BY <1>5 DEF SetUid
  <2>2. CASE ok
    <3>1. uid' = "user" /\ wpc' = "server"
      BY <2>1, <2>2
    <3>. QED
      BY <2>0, <3>1, Zenon DEF RInv, TunnelReady, Client, tvars
  <2>3. CASE ~ok
    <3>1. wpc' = "abort"
      BY <2>1, <2>3
    <3>. QED
      BY <2>0, <3>1, Zenon DEF RInv, TunnelReady, Client
  <2>. QED
    BY <2>2, <2>3
<1>6. CASE ServerSetup
  BY <1>6, Zenon DEF ServerSetup, RInv, TunnelReady, Client, tvars, Created
<1>7. CASE RelaySetup
  BY <1>7, Zenon DEF RelaySetup, RInv, TunnelReady, Client, tvars, Created
<1>8. CASE Serve
  BY <1>8, Zenon DEF Serve, RInv, TunnelReady, Client, tvars
<1>9. CASE Teardown
  BY <1>9, Zenon DEF Teardown, RInv, TunnelReady, Client, tvars
<1>10. CASE WaitHelper
  BY <1>10, Zenon DEF WaitHelper, RInv, TunnelReady, Client, tvars
<1>11. CASE Return
  <2>0. /\ wpc \in {"return253", "return430"}
        /\ UNCHANGED <<mode, serverIp, nonce, uid, privfd, helper, helperFds,
                       relay, server, retval, sigs>>
    BY <1>11 DEF Return
  <2>1. wpc' = IF wpc = "return253" THEN "failed" ELSE "done"
    BY <1>11 DEF Return
  <2>2. privfd' = "closed" => wpc' = "done"
    BY <2>0, <2>1 DEF RInv
  <2>3. wpc' \in {"failed", "done"}
    BY <2>1
  <2>. QED
    BY <2>0, <2>2, <2>3, Zenon DEF RInv, TunnelReady, Client
<1>12. CASE WaitEINTR
  BY <1>12, Zenon DEF WaitEINTR, RInv, TunnelReady, Client, tvars
<1>13. CASE HelperExit
  BY <1>13, Zenon DEF HelperExit, RInv, TunnelReady, Client, tvars
<1>14. CASE UNCHANGED vars
  BY <1>14, Zenon DEF vars, tvars, wvars, RInv, TunnelReady, Client
<1>. QED
  BY <1>1, <1>2, <1>3, <1>4, <1>5, <1>6, <1>7, <1>8, <1>9, <1>10, <1>11,
     <1>12, <1>13, <1>14 DEF Next, Worker

\* miredo_run() calls teredo_server_relay() (line 409) only with a valid
\* tunnel at MTU 1280, after setuid(), with the helper running in client
\* mode, and with every relay and server the configuration asks for built
\* and bound; this holds for every bound on descriptors, calls and signals.
THEOREM ServeOnlyWhenReadyHolds == Spec => []ServeOnlyWhenReady
<1>1. Init => RInv
  BY Zenon DEF Init, Tun!Init, RInv, TunnelReady
<1>2. RInv => ServeOnlyWhenReady
  BY Zenon DEF RInv, TunnelReady, ServeOnlyWhenReady, Tun!handleBar
<1>. QED
  BY <1>1, <1>2, NextRInv, PTL DEF Spec
-----------------------------------------------------------------------------
(* Type correctness and the teardown.  The tunnel's own inductive          *)
(* invariant (IPv6TunnelProofs) keeps the descriptor table inside its      *)
(* slots, which bounds what the helper inherits.                           *)

TP == INSTANCE IPv6TunnelProofs WITH MTUs <- {1280}, PrefixLens <- {},
                                     SendLens <- {}, ReadLens <- {}

\* What holds from the abort label on: the teardown has deleted the relay
\* and the server and released the nonce generator, which only a client
\* initialises; once returned, the tunnel object is destroyed.
TInv ==
    /\ nonce => Client
    /\ wpc \in {"wait", "return430", "done"} =>
          relay \notin Created /\ server \notin Created /\ ~nonce
    /\ wpc = "done" => obj = "gone"

\* The tunnel module as the worker uses it is the one the tunnel proofs are
\* about: its constructor, SetMTU(1280), destructor and initial state.
LEMMA TunnelActions ==
    /\ Tun!Init => TP!Init
    /\ Tun!IPv6Tunnel_ctor => TP!IPv6Tunnel_ctor
    /\ Tun!SetMTU(1280) => TP!SetMTU(1280)
    /\ Tun!IPv6Tunnel_dtor => TP!IPv6Tunnel_dtor
<1>1. Tun!Init => TP!Init
  BY DEF Tun!Init, TP!Init
<1>2. Tun!IPv6Tunnel_ctor => TP!IPv6Tunnel_ctor
  BY DEF Tun!IPv6Tunnel_ctor, TP!IPv6Tunnel_ctor, Tun!NewFd, TP!NewFd,
         Tun!Lowest, TP!Lowest, Tun!FdSlots, TP!FdSlots, Tun!TunFlags,
         TP!TunFlags, Tun!T!Headers, TP!T!Headers, Tun!T!DriverMTU,
         TP!T!DriverMTU, Tun!T!IPv6Hdr, TP!T!IPv6Hdr, Tun!T!IPv4Hdr,
         TP!T!IPv4Hdr
<1>3. Tun!SetMTU(1280) => TP!SetMTU(1280)
  BY DEF Tun!SetMTU, TP!SetMTU, Tun!NewFd, TP!NewFd, Tun!Call, TP!Call,
         Tun!Lowest, TP!Lowest, Tun!FdSlots, TP!FdSlots, Tun!Refuse,
         TP!Refuse, Tun!Return, TP!Return, Tun!MTUMin, TP!MTUMin, Tun!MTUMax,
         TP!MTUMax
<1>4. Tun!IPv6Tunnel_dtor => TP!IPv6Tunnel_dtor
  BY DEF Tun!IPv6Tunnel_dtor, TP!IPv6Tunnel_dtor
<1>. QED
  BY <1>1, <1>2, <1>3, <1>4

\* The worker's steps that do not touch the tunnel keep its invariant.
LEMMA UnchangedTunIInv == TP!IInv /\ UNCHANGED tvars => TP!IInv'
  BY DEF tvars, TP!IInv, TP!TypeOK, TP!HandleOwnsInterface, TP!NoInterface,
         TP!handleBar

\* Every step of miredo_run() and of the helper keeps the tunnel's
\* inductive invariant: the tunnel changes only in the constructor
\* (line 242), SetMTU (line 250) and the destructor (lines 253, 430).
LEMMA NextTunIInv == TP!IInv /\ [Next]_vars => TP!IInv'
<1> SUFFICES ASSUME TP!IInv, [Next]_vars PROVE TP!IInv'
  OBVIOUS
<1>1. CASE CreateTunnel
  BY <1>1, TunnelActions, TP!CtorIInv, RunAssumption DEF CreateTunnel
<1>2. CASE SetTunnelMTU
  <2>1. CASE fd = -1 /\ UNCHANGED tvars
    BY <2>1, UnchangedTunIInv
  <2>2. CASE Tun!SetMTU(1280)
    <3>1. TP!SetMTU(1280)
      BY <2>2, TunnelActions
    <3>. QED
      BY <3>1, TP!SetMTUIInv, RunAssumption
  <2>. QED
    BY <1>2, <2>1, <2>2 DEF SetTunnelMTU
<1>3. CASE Return
  BY <1>3, TunnelActions, TP!DtorIInv, RunAssumption DEF Return
<1>4. CASE \/ InitNonce \/ PrivSetup \/ SetUid \/ ServerSetup \/ RelaySetup
           \/ Serve \/ Teardown \/ WaitHelper \/ WaitEINTR \/ HelperExit
           \/ UNCHANGED vars
  <2>1. UNCHANGED tvars
    BY <1>4 DEF InitNonce, PrivSetup, SetUid, ServerSetup, RelaySetup,
                Serve, Teardown, WaitHelper, WaitEINTR, HelperExit, vars
  <2>. QED
    BY <2>1, UnchangedTunIInv
<1>. QED
  BY <1>1, <1>2, <1>3, <1>4 DEF Next, Worker

\* The descriptors the tunnel module holds are slots of the table.
LEMMA IInvFds == TP!IInv => fds \subseteq Tun!FdSlots
  BY DEF TP!IInv, TP!TypeOK, TP!FdSlots, Tun!FdSlots

\* Every step of miredo_run() and of the helper keeps the types; the helper
\* inherits the descriptors the tunnel module holds at fork() (line 268).
LEMMA NextTypeOK == TypeOK /\ TP!IInv /\ [Next]_vars => TypeOK'
<1> SUFFICES ASSUME TypeOK, TP!IInv, [Next]_vars PROVE TypeOK'
  OBVIOUS
<1>1. CASE InitNonce
  BY <1>1, Zenon DEF InitNonce, TypeOK, Client
<1>2. CASE CreateTunnel
  BY <1>2, Zenon DEF CreateTunnel, TypeOK
<1>3. CASE SetTunnelMTU
  <2>1. wpc' \in {"privsep", "return253"}
    BY <1>3 DEF SetTunnelMTU
  <2>3. UNCHANGED <<mode, serverIp, nonce, uid, privfd, helper, helperFds,
                    relay, server, retval, sigs>>
    BY <1>3 DEF SetTunnelMTU
  <2>. QED
    BY <2>1, <2>3 DEF TypeOK
<1>4. CASE PrivSetup
  <2>1. fds \subseteq Tun!FdSlots
    BY IInvFds
  <2>2. PICK ok \in BOOLEAN :
          /\ IF Client /\ ok
               THEN /\ privfd' = "open"
                    /\ helper' = "running"
                    /\ helperFds' = fds
               ELSE UNCHANGED <<privfd, helper, helperFds>>
          /\ wpc' = IF ok THEN "setuid" ELSE "abort"
    BY <1>4 DEF PrivSetup
  <2>3. UNCHANGED <<mode, serverIp, nonce, uid, relay, server, retval, sigs>>
    BY <1>4 DEF PrivSetup
  <2>. QED
    BY <2>1, <2>2, <2>3, Zenon DEF TypeOK
<1>5. CASE SetUid
  BY <1>5, Zenon DEF SetUid, TypeOK
<1>6. CASE ServerSetup
  <2>1. /\ wpc' \in {"relay", "abort"}
        /\ server' \in {"null", "deleted"} \cup Created
    BY <1>6, TypeOK, Zenon DEF ServerSetup, TypeOK, Created
  <2>2. UNCHANGED <<mode, serverIp, nonce, uid, privfd, helper, helperFds,
                    relay, retval, sigs>>
    BY <1>6 DEF ServerSetup
  <2>. QED
    BY <2>1, <2>2 DEF TypeOK
<1>7. CASE RelaySetup
  <2>1. /\ wpc' \in {"serve", "abort"}
        /\ relay' \in {"null", "deleted"} \cup Created
    BY <1>7, TypeOK, Zenon DEF RelaySetup, TypeOK, Created
  <2>2. UNCHANGED <<mode, serverIp, nonce, uid, privfd, helper, helperFds,
                    server, retval, sigs>>
    BY <1>7 DEF RelaySetup
  <2>. QED
    BY <2>1, <2>2 DEF TypeOK
<1>8. CASE Serve
  BY <1>8, Zenon DEF Serve, TypeOK
<1>9. CASE Teardown
  BY <1>9, Zenon DEF Teardown, TypeOK, Created
<1>10. CASE WaitHelper
  BY <1>10, Zenon DEF WaitHelper, TypeOK
<1>11. CASE WaitEINTR
  <2>1. sigs' \in 0 .. MaxSignals
    BY <1>11, RunAssumption DEF WaitEINTR, TypeOK
  <2>. QED
    BY <1>11, <2>1, Zenon DEF WaitEINTR, TypeOK
<1>12. CASE Return
  <2>1. wpc' \in {"failed", "done"}
    BY <1>12 DEF Return
  <2>2. UNCHANGED <<mode, serverIp, nonce, uid, privfd, helper, helperFds,
                    relay, server, retval, sigs>>
    BY <1>12 DEF Return
  <2>. QED
    BY <2>1, <2>2 DEF TypeOK
<1>13. CASE HelperExit
  BY <1>13, Zenon DEF HelperExit, TypeOK
<1>14. CASE UNCHANGED vars
  BY <1>14 DEF vars, wvars, TypeOK
<1>. QED
  BY <1>1, <1>2, <1>3, <1>4, <1>5, <1>6, <1>7, <1>8, <1>9, <1>10, <1>11,
     <1>12, <1>13, <1>14 DEF Next, Worker

\* Every variable of miredo_run() and of its helper keeps its type, and the
\* helper inherits only descriptor-table slots, for every bound on
\* descriptors, calls and signals.
THEOREM MiredoRunTypeCorrect == Spec => []TypeOK
<1>1. Init => TypeOK /\ TP!IInv
  <2>1. Init => TP!IInv
    BY TunnelActions, TP!InitIInv, RunAssumption DEF Init
  <2>2. 0 \in 0 .. MaxSignals
    BY RunAssumption
  <2>3. Init => TypeOK
    BY <2>2, Zenon DEF Init, TypeOK, Modes, Created
  <2>. QED
    BY <2>1, <2>3
<1>2. TypeOK /\ TP!IInv /\ [Next]_vars => TypeOK' /\ TP!IInv'
  BY NextTypeOK, NextTunIInv
<1>. QED
  BY <1>1, <1>2, PTL DEF Spec

\* Every step of miredo_run() and of the helper keeps TInv.
LEMMA NextTInv == TInv /\ [Next]_vars => TInv'
<1> SUFFICES ASSUME TInv, [Next]_vars PROVE TInv'
  OBVIOUS
<1>1. CASE InitNonce
  BY <1>1, Zenon DEF InitNonce, TInv, Client
<1>2. CASE CreateTunnel
  BY <1>2, Zenon DEF CreateTunnel, TInv, Client
<1>3. CASE SetTunnelMTU
  <2>1. wpc' \in {"privsep", "return253"}
    BY <1>3 DEF SetTunnelMTU
  <2>2. UNCHANGED <<mode, nonce>>
    BY <1>3 DEF SetTunnelMTU
  <2>. QED
    BY <2>1, <2>2, Zenon DEF TInv, Client
<1>4. CASE PrivSetup
  <2>1. wpc' \in {"setuid", "abort"}
    BY <1>4 DEF PrivSetup
  <2>2. UNCHANGED <<mode, nonce>>
    BY <1>4 DEF PrivSetup
  <2>. QED
    BY <2>1, <2>2, Zenon DEF TInv, Client
<1>5. CASE SetUid
  BY <1>5, Zenon DEF SetUid, TInv, Client
<1>6. CASE ServerSetup
  BY <1>6, Zenon DEF ServerSetup, TInv, Client
<1>7. CASE RelaySetup
  BY <1>7, Zenon DEF RelaySetup, TInv, Client
<1>8. CASE Serve
  BY <1>8, Zenon DEF Serve, TInv, Client
<1>9. CASE Teardown
  BY <1>9, Zenon DEF Teardown, TInv, Client, Created
<1>10. CASE WaitHelper
  BY <1>10, Zenon DEF WaitHelper, TInv, Client
<1>11. CASE WaitEINTR
  BY <1>11, Zenon DEF WaitEINTR, TInv, Client
<1>12. CASE Return
  <2>1. wpc' = IF wpc = "return253" THEN "failed" ELSE "done"
    BY <1>12 DEF Return
  <2>2. wpc \in {"return253", "return430"} /\ obj' = "gone"
    BY <1>12 DEF Return, Tun!IPv6Tunnel_dtor
  <2>3. UNCHANGED <<mode, nonce, relay, server>>
    BY <1>12 DEF Return
  <2>. QED
    BY <2>1, <2>2, <2>3, Zenon DEF TInv, Client
<1>13. CASE HelperExit
  BY <1>13, Zenon DEF HelperExit, TInv, Client, tvars
<1>14. CASE UNCHANGED vars
  BY <1>14 DEF vars, tvars, wvars, TInv, Client
<1>. QED
  BY <1>1, <1>2, <1>3, <1>4, <1>5, <1>6, <1>7, <1>8, <1>9, <1>10, <1>11,
     <1>12, <1>13, <1>14 DEF Next, Worker

\* When miredo_run() returns through line 430 it has deleted the relay and
\* the server, released the nonce generator and destroyed the tunnel
\* object, for every bound on descriptors, calls and signals.
THEOREM TeardownReleasesHolds == Spec => []TeardownReleases
<1>1. Init => TInv
  BY Zenon DEF Init, TInv
<1>2. TInv => TeardownReleases
  BY Zenon DEF TInv, TeardownReleases
<1>. QED
  BY <1>1, <1>2, NextTInv, PTL DEF Spec

=============================================================================
