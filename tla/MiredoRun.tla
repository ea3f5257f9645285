----------------------------- MODULE MiredoRun ------------------------------
(***************************************************************************)
(* The worker's miredo_run() (src/src/miredo.cpp lines 222-431) composed  *)
(* with the IPv6Tunnel object it creates and with the privileged helper it *)
(* forks in client mode.                                                   *)
(*                                                                         *)
(* The worker is sequential: wpc is its place in miredo_run(), one value  *)
(* per block of code between two decisions.  The tunnel steps are the     *)
(* actions of IPv6Tunnel.tla on the same variables.  The helper is a       *)
(* second process; its code is not in src/, so its only step, exiting on  *)
(* EOF of the control socket, is taken from spec.md 4.3.  The relay, the  *)
(* server and the tunnel methods BringUp, AddAddress and AddRoute are not  *)
(* in src/ either: only whether they succeed is chosen.  The event loop   *)
(* is one step here; Supervisor.tla models it.  The build is the full one *)
(* (MIREDO_TEREDO_CLIENT, _RELAY and _SERVER defined).                     *)
(***************************************************************************)
EXTENDS Integers

CONSTANTS MaxFds, MaxCalls, MaxSignals

\* The descriptor table has a slot, calls and signals are counted from 0.
ASSUME RunAssumption ==
    /\ MaxFds \in Nat \ {0}
    /\ MaxCalls \in Nat
    /\ MaxSignals \in Nat

VARIABLES obj, fd, fds, iface, flags, mtu, addrs, pbuf, plen, rx, last, calls
tvars == <<obj, fd, fds, iface, flags, mtu, addrs, pbuf, plen, rx, last, calls>>

\* The worker calls SetMTU(1280) and nothing else that the tunnel module
\* takes arguments for.
Tun == INSTANCE IPv6Tunnel WITH MTUs <- {1280}, PrefixLens <- {},
                                SendLens <- {}, ReadLens <- {}

VARIABLES
    wpc,        \* the worker's place in miredo_run()
    mode,       \* conf->mode
    serverIp,   \* conf->server_ip # 0
    nonce,      \* the nonce generator is initialised
    uid,        \* "root" before setuid(unpriv_uid), "user" after
    privfd,     \* miredo_run's fd: "none" (-1), "open", "closed"
    helper,     \* the helper child: "none", "running", "exited", "reaped"
    helperFds,  \* the tunnel-module descriptors the helper inherited
    relay,      \* relay: "null", "ready", "unready" (!*relay), "deleted"
    server,     \* server: same values
    retval,     \* miredo_run's retval
    sigs        \* caught signals delivered to the worker so far

wvars == <<wpc, mode, serverIp, nonce, uid, privfd, helper, helperFds,
           relay, server, retval, sigs>>
vars == <<tvars, wvars>>

Modes == {"client", "restrict", "cone", "disabled"}
Client == mode = "client"

\* The objects the worker may create; "unready" is one that constructed
\* but could not bind its UDP port.
Created == {"ready", "unready"}

Init ==
    /\ Tun!Init
    /\ wpc = "nonce"
    /\ mode \in Modes
    /\ serverIp \in BOOLEAN
    /\ nonce = FALSE
    /\ uid = "root"
    /\ privfd = "none"
    /\ helper = "none"
    /\ helperFds = {}
    /\ relay = "null"
    /\ server = "null"
    /\ retval = -1
    /\ sigs = 0

\* Lines 224-227: InitNonceGenerator() in client mode.
InitNonce ==
    /\ wpc = "nonce"
    /\ nonce' = Client
    /\ wpc' = "tunnel"
    /\ UNCHANGED <<tvars, mode, serverIp, uid, privfd, helper, helperFds,
                   relay, server, retval, sigs>>

\* Line 242: IPv6Tunnel tunnel (conf->ifname).
CreateTunnel ==
    /\ wpc = "tunnel"
    /\ Tun!IPv6Tunnel_ctor
    /\ wpc' = "mtu"
    /\ UNCHANGED <<mode, serverIp, nonce, uid, privfd, helper, helperFds,
                   relay, server, retval, sigs>>

\* Lines 249-254: if (!tunnel || tunnel.SetMTU (1280)) return -1;
\* SetMTU is not called on an invalid tunnel.
SetTunnelMTU ==
    /\ wpc = "mtu"
    /\ \/ /\ fd = -1
          /\ wpc' = "return253"
          /\ UNCHANGED tvars
       \/ /\ fd # -1
          /\ Tun!SetMTU(1280)
          /\ wpc' = IF last'.ret = 0 THEN "privsep" ELSE "return253"
    /\ UNCHANGED <<mode, serverIp, nonce, uid, privfd, helper, helperFds,
                   relay, server, retval, sigs>>

(***************************************************************************)
(* Lines 265-289.  In client mode miredo_privileged_process() forks the    *)
(* helper, which inherits every descriptor the worker holds, and returns   *)
(* the worker's end of their socket, or -1.  Otherwise the worker brings   *)
(* the tunnel up and installs its address and route itself.  Either        *)
(* failure goes to abort.                                                  *)
(***************************************************************************)
PrivSetup ==
    /\ wpc = "privsep"
    /\ \E ok \in BOOLEAN :
          /\ IF Client /\ ok
               THEN /\ privfd' = "open"
                    /\ helper' = "running"
                    /\ helperFds' = fds
               ELSE UNCHANGED <<privfd, helper, helperFds>>
          /\ wpc' = IF ok THEN "setuid" ELSE "abort"
    /\ UNCHANGED <<tvars, mode, serverIp, nonce, uid, relay, server, retval,
                   sigs>>

\* Lines 291-302: chroot() only warns; a failed setuid() goes to abort.
SetUid ==
    /\ wpc = "setuid"
    /\ \E ok \in BOOLEAN :
          /\ uid' = IF ok THEN "user" ELSE uid
          /\ wpc' = IF ok THEN "server" ELSE "abort"
    /\ UNCHANGED <<tvars, mode, serverIp, nonce, privfd, helper, helperFds,
                   relay, server, retval, sigs>>

\* Lines 304-340: a server is built when not a client and a server address
\* is configured.  A throwing constructor leaves server NULL; a server that
\* is not ready is kept, to be deleted at abort.
ServerSetup ==
    /\ wpc = "server"
    /\ IF ~Client /\ serverIp
         THEN \E s \in {"null"} \cup Created :
                 /\ server' = s
                 /\ wpc' = IF s = "ready" THEN "relay" ELSE "abort"
         ELSE /\ wpc' = "relay"
              /\ UNCHANGED server
    /\ UNCHANGED <<tvars, mode, serverIp, nonce, uid, privfd, helper,
                   helperFds, relay, retval, sigs>>

(***************************************************************************)
(* Lines 345-406: a client or a relay is built unless the mode is          *)
(* disabled; a throwing constructor leaves relay NULL.  Then, unless the   *)
(* mode is disabled, a NULL or unready relay goes to abort.                *)
(* (RelaySetup below; first a mutant of it.)                               *)
(***************************************************************************)
\* Mutant: the !*relay readiness test is left out.
RelaySetup_noready ==
    /\ wpc = "relay"
    /\ IF mode # "disabled"
         THEN \E r \in {"null"} \cup Created :
                 /\ relay' = r
                 /\ wpc' = IF r # "null" THEN "serve" ELSE "abort"
         ELSE /\ wpc' = "serve"
              /\ UNCHANGED relay
    /\ UNCHANGED <<tvars, mode, serverIp, nonce, uid, privfd, helper,
                   helperFds, server, retval, sigs>>

RelaySetup ==
    /\ wpc = "relay"
    /\ IF mode # "disabled"
         THEN \E r \in {"null"} \cup Created :
                 /\ relay' = r
                 /\ wpc' = IF r = "ready" THEN "serve" ELSE "abort"
         ELSE /\ wpc' = "serve"
              /\ UNCHANGED relay
    /\ UNCHANGED <<tvars, mode, serverIp, nonce, uid, privfd, helper,
                   helperFds, server, retval, sigs>>

\* Mutant: the success code written as 1.
Serve_exitcode ==
    /\ wpc = "serve"
    /\ retval' = 1
    /\ wpc' = "abort"
    /\ UNCHANGED <<tvars, mode, serverIp, nonce, uid, privfd, helper,
                   helperFds, relay, server, sigs>>

\* Lines 408-409: retval = 0, then teredo_server_relay() until a caught
\* signal ends the loop.
Serve ==
    /\ wpc = "serve"
    /\ retval' = 0
    /\ wpc' = "abort"
    /\ UNCHANGED <<tvars, mode, serverIp, nonce, uid, privfd, helper,
                   helperFds, relay, server, sigs>>

\* Mutant: the relay is not deleted at abort.
Teardown_keeprelay ==
    /\ wpc = "abort"
    /\ privfd' = IF privfd = "open" THEN "closed" ELSE privfd
    /\ nonce' = (nonce /\ ~Client)
    /\ server' = IF server \in Created THEN "deleted" ELSE server
    /\ wpc' = "wait"
    /\ UNCHANGED <<tvars, mode, serverIp, uid, helper, helperFds, relay,
                   retval, sigs>>

\* Mutant: close (fd) is left out, so the helper never sees EOF.
Teardown_noclose ==
    /\ wpc = "abort"
    /\ relay' = IF relay \in Created THEN "deleted" ELSE relay
    /\ nonce' = (nonce /\ ~Client)
    /\ server' = IF server \in Created THEN "deleted" ELSE server
    /\ wpc' = "wait"
    /\ UNCHANGED <<tvars, mode, serverIp, uid, privfd, helper, helperFds,
                   retval, sigs>>

\* Lines 411-425 (label abort): close the helper socket, delete the relay,
\* DeinitNonceGenerator() in client mode, delete the server.
Teardown ==
    /\ wpc = "abort"
    /\ privfd' = IF privfd = "open" THEN "closed" ELSE privfd
    /\ relay' = IF relay \in Created THEN "deleted" ELSE relay
    /\ nonce' = (nonce /\ ~Client)
    /\ server' = IF server \in Created THEN "deleted" ELSE server
    /\ wpc' = "wait"
    /\ UNCHANGED <<tvars, mode, serverIp, uid, helper, helperFds, retval,
                   sigs>>

\* Lines 427-428: if (fd != -1) wait (NULL).  It returns once the helper
\* has exited and reaps it.
WaitHelper ==
    /\ wpc = "wait"
    /\ \/ /\ privfd = "none"
          /\ UNCHANGED helper
       \/ /\ privfd # "none"
          /\ helper = "exited"
          /\ helper' = "reaped"
    /\ wpc' = "return430"
    /\ UNCHANGED <<tvars, mode, serverIp, nonce, uid, privfd, helperFds,
                   relay, server, retval, sigs>>

\* Line 428: a caught signal (the handlers survive fork(), and have no
\* SA_RESTART) makes wait() fail with EINTR; the result is not tested.
WaitEINTR ==
    /\ wpc = "wait"
    /\ privfd # "none"
    /\ helper = "running"
    /\ sigs < MaxSignals
    /\ sigs' = sigs + 1
    /\ wpc' = "return430"
    /\ UNCHANGED <<tvars, mode, serverIp, nonce, uid, privfd, helper,
                   helperFds, relay, server, retval>>

\* Lines 253 and 430: leaving miredo_run() destroys the tunnel object.
Return ==
    /\ wpc \in {"return253", "return430"}
    /\ Tun!IPv6Tunnel_dtor
    /\ wpc' = IF wpc = "return253" THEN "failed" ELSE "done"
    /\ UNCHANGED <<mode, serverIp, nonce, uid, privfd, helper, helperFds,
                   relay, server, retval, sigs>>

\* spec.md 4.3: the helper exits when its socket reaches EOF.
HelperExit ==
    /\ helper = "running"
    /\ privfd = "closed"
    /\ helper' = "exited"
    /\ UNCHANGED <<tvars, wpc, mode, serverIp, nonce, uid, privfd, helperFds,
                   relay, server, retval, sigs>>

Worker ==
    \/ InitNonce \/ CreateTunnel \/ SetTunnelMTU \/ PrivSetup \/ SetUid
    \/ ServerSetup \/ RelaySetup \/ Serve \/ Teardown \/ WaitHelper \/ Return

Next == Worker \/ WaitEINTR \/ HelperExit

\* Both processes are scheduled by the kernel; the signal is environment.
Spec == Init /\ [][Next]_vars /\ WF_vars(Worker) /\ WF_vars(HelperExit)

-----------------------------------------------------------------------------
(* Properties *)

\* Every variable of the worker and of the helper keeps its type.
TypeOK ==
    /\ wpc \in {"nonce", "tunnel", "mtu", "privsep", "setuid", "server",
                "relay", "serve", "abort", "wait", "return253", "return430",
                "failed", "done"}
    /\ mode \in Modes
    /\ nonce \in BOOLEAN /\ serverIp \in BOOLEAN
    /\ uid \in {"root", "user"}
    /\ privfd \in {"none", "open", "closed"}
    /\ helper \in {"none", "running", "exited", "reaped"}
    /\ helperFds \subseteq Tun!FdSlots
    /\ relay \in {"null", "deleted"} \cup Created
    /\ server \in {"null", "deleted"} \cup Created
    /\ retval \in {-1, 0}
    /\ sigs \in 0 .. MaxSignals

\* The event loop (line 409) is entered only with a valid tunnel at MTU
\* 1280, privileges dropped, the helper running in client mode, and every
\* relay and server the configuration asks for built and bound.
ServeOnlyWhenReady ==
    wpc = "serve" =>
        /\ Tun!handleBar = "open" /\ mtu = 1280
        /\ uid = "user"
        /\ Client => helper = "running"
        /\ mode # "disabled" => relay = "ready"
        /\ (~Client /\ serverIp) => server = "ready"

\* When miredo_run() returns through its main exit (line 430), the relay
\* and server are deleted, the nonce generator is released and the tunnel
\* object is destroyed.  (The helper socket is the subject of WorkerReturns
\* and HelperExits.)
TeardownReleases ==
    wpc = "done" =>
        /\ relay \notin Created /\ server \notin Created
        /\ ~nonce
        /\ obj = "gone"

\* The worker always returns from miredo_run(): the wait at line 428 ends
\* because the socket was closed before it.
WorkerReturns == <>(wpc \in {"failed", "done"})

\* A helper that was forked always exits, even when the worker returned
\* without reaping it.
HelperExits == helper = "running" ~> helper \in {"exited", "reaped"}

\* spec.md 4.4 (teardown): the worker waits for the helper to exit before
\* it returns.
HelperReapedAtReturn == wpc = "done" => helper \in {"none", "reaped"}

\* spec.md 5: after fork the worker and the helper share nothing but the
\* control socket; the helper holds only its duplicate of the tunnel.
HelperInheritsOnlyTunnel == helper # "none" => helperFds \subseteq {fd}
=============================================================================
