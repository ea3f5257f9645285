----------------------------- MODULE Supervisor -----------------------------
(***************************************************************************)
(* The miredo supervisor loop, its signal handlers and the self-pipe that  *)
(* bridges signals into the worker's select() loop (src/miredo.cpp).       *)
(*                                                                         *)
(* Two processes: the supervisor "sup" (miredo()) and the forked worker    *)
(* "wrk" (miredo_run() and its event loop teredo_server_relay()).  Each    *)
(* has its own copy of should_exit, should_reload and signalfd[1] (fork    *)
(* copies them), and both share the pipe.  A signal handler preempts the   *)
(* main code of its process; since InitSignals() installs the handlers     *)
(* with an empty sa_mask, a handler can itself be preempted by a handler   *)
(* for another signal, so each process has a stack of handler frames and   *)
(* its main code runs only when that stack is empty.  A handler is two     *)
(* steps: the test of line 100/111, then the write and the assignment.     *)
(*                                                                         *)
(* The worker's set-up and per-tick processing are single steps here;     *)
(* MiredoRun.tla details the set-up and the teardown of miredo_run().      *)
(***************************************************************************)
EXTENDS Integers, Sequences

CONSTANTS
    ExitSigs,      \* signals caught by exit_handler (SIGINT, SIGQUIT, SIGTERM)
    ReloadSigs,    \* signals caught by reload_handler (SIGHUP)
    MaxSignals,    \* bound on the signals the environment sends
    MaxCrashes     \* bound on the worker deaths by an uncaught signal

ASSUME SigAssumption ==
    /\ ExitSigs # {}
    /\ ReloadSigs # {}
    /\ ExitSigs \cap ReloadSigs = {}
    /\ 0 \notin ExitSigs \cup ReloadSigs

ASSUME BoundAssumption ==
    /\ MaxSignals \in Nat
    /\ MaxCrashes \in Nat

Sigs == ExitSigs \cup ReloadSigs

Procs == {"sup", "wrk"}

\* the program points of miredo() between which a signal may arrive
SupPCs == {"pipe", "reset", "parse", "fork", "wait",
           "deinit1", "deinit2", "decide", "done"}

\* the worker: asyncsafe_close() at line 619, miredo_run() set-up, the loop
WrkPCs == {"none", "close1", "close2", "setup", "select", "process", "exited"}

\* waitpid() status of the worker: exit(0), exit(1), or killed by a signal
Statuses == {"none", "exited0", "exited1", "signaled"}

\* what miredo() returned: 0, -1, or the process died of a default action
Results == {"running", "ok", "failed", "killed"}

Frames == [sig : Sigs, at : {"check", "write"}]

VARIABLES
    spc,           \* supervisor program point
    wpc,           \* worker program point
    shouldExit,    \* should_exit, per process
    shouldReload,  \* should_reload, per process
    wrSet,         \* signalfd[1] # -1, per process
    wrOpen,        \* the write-end descriptor of the process is not closed
    pipe,          \* signal numbers written into the current pipe
    stack,         \* active handler frames, per process (innermost last)
    intr,          \* a handler ran while the process blocked in a syscall
    installed,     \* the supervisor's handlers are installed
    wstatus,       \* waitpid() status of the worker
    result,        \* miredo()'s return value
    gen,           \* generation number (history)
    sent,          \* signals sent so far
    crashes,       \* worker deaths by signal so far
    handled,       \* supervisor handler writes per signal class this generation (history)
    exitSent       \* an exit-class signal has been sent (history)

vars == <<spc, wpc, shouldExit, shouldReload, wrSet, wrOpen, pipe, stack,
          intr, installed, wstatus, result, gen, sent, crashes, handled,
          exitSent>>

SigClass(s) == IF s \in ExitSigs THEN "exit" ELSE "reload"

Flag(p, s) == IF s \in ExitSigs THEN shouldExit[p] ELSE shouldReload[p]

Top(p) == stack[p][Len(stack[p])]

\* the stack of handler frames once the innermost handler has returned
WithoutTop(q) == [i \in 1..Len(q) - 1 |-> q[i]]

Pop(p) == [stack EXCEPT ![p] = WithoutTop(stack[p])]

Running(p) == stack[p] = <<>>

Alive(p) == IF p = "sup" THEN spc # "done" ELSE wpc \notin {"none", "exited"}

\* The calls a handler interrupts with EINTR: the supervisor's waitpid()
\* (line 631) and the worker's select() (line 164).
InWaitPid == spc = "wait"
InSelect == wpc = "select"

-----------------------------------------------------------------------------
(* Signal delivery and the handlers exit_handler() and reload_handler().    *)

\* A signal is blocked in a process while a handler for it is running.
CanReceive(p, s) ==
    /\ Alive(p)
    /\ \A i \in 1..Len(stack[p]) : stack[p][i].sig # s

\* kill(2) of s to the supervisor, to the worker, or to the process group
Kill(s, T) ==
    /\ sent < MaxSignals
    /\ installed
    /\ \A p \in T : CanReceive(p, s)
    /\ sent' = sent + 1
    /\ stack' = [p \in Procs |-> IF p \in T
                                 THEN Append(stack[p], [sig |-> s, at |-> "check"])
                                 ELSE stack[p]]
    /\ intr' = [p \in Procs |-> intr[p] \/ (p \in T /\ IF p = "sup" THEN InWaitPid
                                                           ELSE InSelect)]
    /\ exitSent' = (exitSent \/ s \in ExitSigs)
    /\ UNCHANGED <<spc, wpc, shouldExit, shouldReload, wrSet, wrOpen, pipe,
                   installed, wstatus, result, gen, crashes, handled>>

\* Before the first sigaction() the default action of these signals kills.
KillUninstalled(s) ==
    /\ sent < MaxSignals
    /\ ~installed
    /\ spc # "done"
    /\ sent' = sent + 1
    /\ spc' = "done"
    /\ result' = "killed"
    /\ exitSent' = (exitSent \/ s \in ExitSigs)
    /\ UNCHANGED <<wpc, shouldExit, shouldReload, wrSet, wrOpen, pipe, stack,
                   intr, installed, wstatus, gen, crashes, handled>>

\* if (should_x || signalfd[1] == -1) return;
handler_check(p) ==
    /\ stack[p] # <<>>
    /\ Top(p).at = "check"
    /\ IF Flag(p, Top(p).sig) # 0 \/ ~wrSet[p]
       THEN stack' = Pop(p)
       ELSE stack' = [stack EXCEPT ![p][Len(stack[p])].at = "write"]
    /\ UNCHANGED <<spc, wpc, shouldExit, shouldReload, wrSet, wrOpen, pipe,
                   intr, installed, wstatus, result, gen, sent, crashes,
                   handled, exitSent>>

\* mutant: should_x = 1, a flag instead of the signal number
handler_write_flag(p) ==
    LET s == Top(p).sig IN
    /\ stack[p] # <<>>
    /\ Top(p).at = "write"
    /\ pipe' = IF wrOpen[p] THEN pipe + 1 ELSE pipe
    /\ shouldExit' = IF s \in ExitSigs
                     THEN [shouldExit EXCEPT ![p] = 1] ELSE shouldExit
    /\ shouldReload' = IF s \in ReloadSigs
                       THEN [shouldReload EXCEPT ![p] = 1] ELSE shouldReload
    /\ handled' = IF p = "sup"
                  THEN [handled EXCEPT ![SigClass(s)] = @ + 1] ELSE handled
    /\ stack' = Pop(p)
    /\ UNCHANGED <<spc, wpc, wrSet, wrOpen, intr, installed, wstatus, result,
                   gen, sent, crashes, exitSent>>

\* write (signalfd[1], &signum, sizeof (signum)); should_x = signum;
\* A write to a closed descriptor fails with EBADF and writes nothing.
handler_write(p) ==
    LET s == Top(p).sig IN
    /\ stack[p] # <<>>
    /\ Top(p).at = "write"
    /\ pipe' = IF wrOpen[p] THEN pipe + 1 ELSE pipe
    /\ shouldExit' = IF s \in ExitSigs
                     THEN [shouldExit EXCEPT ![p] = s] ELSE shouldExit
    /\ shouldReload' = IF s \in ReloadSigs
                       THEN [shouldReload EXCEPT ![p] = s] ELSE shouldReload
    /\ handled' = IF p = "sup"
                  THEN [handled EXCEPT ![SigClass(s)] = @ + 1] ELSE handled
    /\ stack' = Pop(p)
    /\ UNCHANGED <<spc, wpc, wrSet, wrOpen, intr, installed, wstatus, result,
                   gen, sent, crashes, exitSent>>

\* mutant: a plain close() of signalfd[1], which stays set
asyncsafe_close_unset_plain(p) ==
    /\ wrOpen' = [wrOpen EXCEPT ![p] = FALSE]
    /\ UNCHANGED wrSet

\* asyncsafe_close(): first fd = -1, then close(), so that a handler never
\* sees a descriptor that is closed.
asyncsafe_close_unset(p) ==
    /\ wrSet' = [wrSet EXCEPT ![p] = FALSE]
    /\ UNCHANGED wrOpen

asyncsafe_close_release(p) ==
    /\ wrOpen' = [wrOpen EXCEPT ![p] = FALSE]
    /\ UNCHANGED wrSet


-----------------------------------------------------------------------------
(* The supervisor, miredo().                                                *)

SupStep(from, to) == /\ spc = from /\ spc' = to /\ Running("sup")

Stop(r) == /\ spc' = "done" /\ result' = r

\* InitSignals(): pipe (signalfd), which may fail; a generation failing
\* before the fork leaves the loop with retval 1, so miredo() returns -1.
InitSignals_pipe ==
    /\ spc = "pipe"
    /\ Running("sup")
    /\ \/ /\ wrSet' = [wrSet EXCEPT !["sup"] = TRUE]
          /\ wrOpen' = [wrOpen EXCEPT !["sup"] = TRUE]
          /\ pipe' = 0
          /\ handled' = [c \in {"exit", "reload"} |-> 0]
          /\ spc' = "reset"
          /\ UNCHANGED result
       \/ /\ Stop("failed")
          /\ UNCHANGED <<wrSet, wrOpen, pipe, handled>>
    /\ UNCHANGED <<wpc, shouldExit, shouldReload, stack, intr, installed,
                   wstatus, gen, sent, crashes, exitSent>>

\* InitSignals(): should_exit = 0; should_reload = 0; then the sigaction()s.
InitSignals_reset ==
    /\ SupStep("reset", "parse")
    /\ shouldExit' = [shouldExit EXCEPT !["sup"] = 0]
    /\ shouldReload' = [shouldReload EXCEPT !["sup"] = 0]
    /\ installed' = TRUE
    /\ UNCHANGED <<wpc, wrSet, wrOpen, pipe, stack, intr, wstatus, result,
                   gen, sent, crashes, handled, exitSent>>

\* ParseConf() and the syslog reopening; a fatal configuration error ends
\* the loop.
ParseConf ==
    /\ spc = "parse"
    /\ Running("sup")
    /\ \/ /\ spc' = "fork" /\ UNCHANGED result
       \/ Stop("failed")
    /\ UNCHANGED <<wpc, shouldExit, shouldReload, wrSet, wrOpen, pipe, stack,
                   intr, installed, wstatus, gen, sent, crashes, handled,
                   exitSent>>

\* fork(): the child starts with copies of the parent's globals.
Fork ==
    /\ spc = "fork"
    /\ Running("sup")
    /\ \/ /\ spc' = "wait"
          /\ wpc' = "close1"
          /\ shouldExit' = [shouldExit EXCEPT !["wrk"] = shouldExit["sup"]]
          /\ shouldReload' = [shouldReload EXCEPT !["wrk"] = shouldReload["sup"]]
          /\ wrSet' = [wrSet EXCEPT !["wrk"] = wrSet["sup"]]
          /\ wrOpen' = [wrOpen EXCEPT !["wrk"] = wrOpen["sup"]]
          /\ intr' = [intr EXCEPT !["wrk"] = FALSE]
          /\ wstatus' = "none"
          /\ UNCHANGED result
       \/ /\ Stop("failed")
          /\ UNCHANGED <<wpc, shouldExit, shouldReload, wrSet, wrOpen, intr,
                         wstatus>>
    /\ UNCHANGED <<pipe, stack, installed, gen, sent, crashes, handled,
                   exitSent>>

\* mutant: a single waitpid(), going on when EINTR interrupts it
WaitPid_once ==
    /\ SupStep("wait", "deinit1")
    /\ wpc = "exited" \/ intr["sup"]
    /\ wpc' = IF wpc = "exited" THEN "none" ELSE wpc
    /\ intr' = [intr EXCEPT !["sup"] = FALSE]
    /\ UNCHANGED <<shouldExit, shouldReload, wrSet, wrOpen, pipe, stack,
                   installed, wstatus, result, gen, sent, crashes, handled,
                   exitSent>>

\* while (waitpid (pid, &retval, 0) == -1);  returns once the child is dead
WaitPid ==
    /\ SupStep("wait", "deinit1")
    /\ wpc = "exited"
    /\ wpc' = "none"
    /\ intr' = [intr EXCEPT !["sup"] = FALSE]
    /\ UNCHANGED <<shouldExit, shouldReload, wrSet, wrOpen, pipe, stack,
                   installed, wstatus, result, gen, sent, crashes, handled,
                   exitSent>>

\* waitpid() interrupted by a handler returns -1 (EINTR): called again
WaitPidEINTR ==
    /\ spc = "wait"
    /\ Running("sup")
    /\ intr["sup"]
    /\ wpc # "exited"
    /\ intr' = [intr EXCEPT !["sup"] = FALSE]
    /\ UNCHANGED <<spc, wpc, shouldExit, shouldReload, wrSet, wrOpen, pipe,
                   stack, installed, wstatus, result, gen, sent, crashes,
                   handled, exitSent>>

\* DeinitSignals(): asyncsafe_close (signalfd[1]), in its two steps; the
\* read end is closed with the second.
DeinitSignals_unset ==
    /\ SupStep("deinit1", "deinit2")
    /\ asyncsafe_close_unset("sup")
    /\ UNCHANGED <<wpc, shouldExit, shouldReload, pipe, stack, intr,
                   installed, wstatus, result, gen, sent, crashes, handled,
                   exitSent>>

DeinitSignals_close ==
    /\ SupStep("deinit2", "decide")
    /\ asyncsafe_close_release("sup")
    /\ UNCHANGED <<wpc, shouldExit, shouldReload, pipe, stack, intr,
                   installed, wstatus, result, gen, sent, crashes, handled,
                   exitSent>>

\* should_exit, else should_reload, else the child's status: WIFEXITED with
\* its exit code, otherwise WIFSIGNALED (waitpid() without WUNTRACED reports
\* nothing else); retval 2 starts a new generation.
Reload ==
    /\ spc' = "pipe"
    /\ gen' = gen + 1
    /\ wstatus' = "none"
    /\ UNCHANGED result

\* mutant: should_reload tested before should_exit
Decide_reload_first ==
    /\ spc = "decide"
    /\ Running("sup")
    /\ IF shouldReload["sup"] # 0 THEN Reload
       ELSE IF shouldExit["sup"] # 0 THEN Stop("ok") /\ UNCHANGED <<gen, wstatus>>
       ELSE IF wstatus = "exited0" THEN Stop("ok") /\ UNCHANGED <<gen, wstatus>>
       ELSE IF wstatus = "exited1" THEN Stop("failed") /\ UNCHANGED <<gen, wstatus>>
       ELSE Reload
    /\ UNCHANGED <<wpc, shouldExit, shouldReload, wrSet, wrOpen, pipe, stack,
                   intr, installed, sent, crashes, handled, exitSent>>

Decide ==
    /\ spc = "decide"
    /\ Running("sup")
    /\ IF shouldExit["sup"] # 0 THEN Stop("ok") /\ UNCHANGED <<gen, wstatus>>
       ELSE IF shouldReload["sup"] # 0 THEN Reload
       ELSE IF wstatus = "exited0" THEN Stop("ok") /\ UNCHANGED <<gen, wstatus>>
       ELSE IF wstatus = "exited1" THEN Stop("failed") /\ UNCHANGED <<gen, wstatus>>
       ELSE Reload
    /\ UNCHANGED <<wpc, shouldExit, shouldReload, wrSet, wrOpen, pipe, stack,
                   intr, installed, sent, crashes, handled, exitSent>>

-----------------------------------------------------------------------------
(* The worker: the child branch of the fork, miredo_run() and its loop.     *)

WrkStep(from, to) == /\ wpc = from /\ wpc' = to /\ Running("wrk")

\* The worker's process ends: exit (-retval), or death by a signal.  Its
\* descriptors and handler frames vanish with it.
WorkerEnds(st) ==
    /\ wpc' = "exited"
    /\ wstatus' = st
    /\ wrSet' = [wrSet EXCEPT !["wrk"] = FALSE]
    /\ wrOpen' = [wrOpen EXCEPT !["wrk"] = FALSE]
    /\ stack' = [stack EXCEPT !["wrk"] = <<>>]
    /\ intr' = [intr EXCEPT !["wrk"] = FALSE]

\* case 0: asyncsafe_close (signalfd[1]);
Child_unset ==
    /\ WrkStep("close1", "close2")
    /\ asyncsafe_close_unset("wrk")
    /\ UNCHANGED <<spc, shouldExit, shouldReload, pipe, stack, intr,
                   installed, wstatus, result, gen, sent, crashes, handled,
                   exitSent>>

Child_close ==
    /\ WrkStep("close2", "setup")
    /\ asyncsafe_close_release("wrk")
    /\ UNCHANGED <<spc, shouldExit, shouldReload, pipe, stack, intr,
                   installed, wstatus, result, gen, sent, crashes, handled,
                   exitSent>>

\* miredo_run() up to the event loop: it either reaches the loop or fails
\* and returns -1, so that the child exits with status 1.
miredo_run_setup ==
    /\ wpc = "setup"
    /\ Running("wrk")
    /\ \/ /\ wpc' = "select"
          /\ UNCHANGED <<wstatus, wrSet, wrOpen, stack, intr>>
       \/ WorkerEnds("exited1")
    /\ UNCHANGED <<spc, shouldExit, shouldReload, pipe, installed, result,
                   gen, sent, crashes, handled, exitSent>>

\* select()'s return value: -1 when a handler interrupted it, otherwise
\* the number of ready descriptors (the signal pipe is ready when it holds
\* a byte; others = the tunnel and UDP descriptors that are ready).
SelectResult(others) ==
    IF intr["wrk"] THEN -1 ELSE (IF pipe > 0 THEN 1 ELSE 0) + others

\* mutant: maxfd > 1, missing the wake-up when only the pipe is ready
LoopBreaks_gt1(r) == r < 0 \/ (r > 1 /\ pipe > 0)

\* if ((maxfd < 0) || ((maxfd >= 1) && FD_ISSET (signalfd[0], &readset)))
LoopBreaks(r) == r < 0 \/ (r >= 1 /\ pipe > 0)

\* One wait of teredo_server_relay(): a break returns to miredo_run(),
\* which returns 0, and the child exits with status 0.
Select ==
    /\ wpc = "select"
    /\ Running("wrk")
    /\ \E others \in 0..1 :
         IF LoopBreaks(SelectResult(others))
         THEN WorkerEnds("exited0")
         ELSE /\ wpc' = "process"
              /\ UNCHANGED <<wstatus, wrSet, wrOpen, stack, intr>>
    /\ UNCHANGED <<spc, shouldExit, shouldReload, pipe, installed, result,
                   gen, sent, crashes, handled, exitSent>>

\* the server, relay and tunnel processing of one tick
ProcessTick ==
    /\ WrkStep("process", "select")
    /\ UNCHANGED <<spc, shouldExit, shouldReload, wrSet, wrOpen, pipe, stack,
                   intr, installed, wstatus, result, gen, sent, crashes,
                   handled, exitSent>>

\* SIGKILL, SIGSEGV...: the worker dies by a signal it does not catch.
WorkerKilled ==
    /\ wpc \notin {"none", "exited"}
    /\ crashes < MaxCrashes
    /\ crashes' = crashes + 1
    /\ WorkerEnds("signaled")
    /\ UNCHANGED <<spc, shouldExit, shouldReload, pipe, installed, result,
                   gen, sent, handled, exitSent>>

-----------------------------------------------------------------------------

Init ==
    /\ spc = "pipe"
    /\ wpc = "none"
    /\ shouldExit = [p \in Procs |-> 0]
    /\ shouldReload = [p \in Procs |-> 0]
    /\ wrSet = [p \in Procs |-> FALSE]
    /\ wrOpen = [p \in Procs |-> FALSE]
    /\ pipe = 0
    /\ stack = [p \in Procs |-> <<>>]
    /\ intr = [p \in Procs |-> FALSE]
    /\ installed = FALSE
    /\ wstatus = "none"
    /\ result = "running"
    /\ gen = 1
    /\ sent = 0
    /\ crashes = 0
    /\ handled = [c \in {"exit", "reload"} |-> 0]
    /\ exitSent = FALSE

Supervisor ==
    \/ InitSignals_pipe \/ InitSignals_reset \/ ParseConf \/ Fork
    \/ WaitPid \/ WaitPidEINTR \/ DeinitSignals_unset \/ DeinitSignals_close
    \/ Decide

Worker ==
    \/ Child_unset \/ Child_close \/ miredo_run_setup \/ Select \/ ProcessTick

Handlers(p) == handler_check(p) \/ handler_write(p)

Environment ==
    \/ \E s \in Sigs, T \in {{"sup"}, {"wrk"}, Procs} : Kill(s, T)
    \/ \E s \in Sigs : KillUninstalled(s)
    \/ WorkerKilled

\* miredo() has returned: the process is gone.
Terminated == spc = "done" /\ UNCHANGED vars

Next ==
    \/ Supervisor \/ Worker \/ Handlers("sup") \/ Handlers("wrk")
    \/ Environment \/ Terminated

\* Both processes are scheduled by the kernel: each keeps running while it
\* can.  The environment (signals, crashes) is not fair.
Spec ==
    /\ Init /\ [][Next]_vars
    /\ WF_vars(Supervisor \/ Handlers("sup"))
    /\ WF_vars(Worker \/ Handlers("wrk"))


-----------------------------------------------------------------------------
(* Properties.                                                              *)

\* every generation needs a HUP or a worker crash to start
MaxGen == 1 + MaxSignals + MaxCrashes

TypeOK ==
    /\ spc \in SupPCs
    /\ wpc \in WrkPCs
    /\ shouldExit \in [Procs -> Sigs \cup {0}]
    /\ shouldReload \in [Procs -> Sigs \cup {0}]
    /\ wrSet \in [Procs -> BOOLEAN]
    /\ wrOpen \in [Procs -> BOOLEAN]
    /\ pipe \in Nat
    /\ stack \in [Procs -> Seq(Frames)]
    /\ intr \in [Procs -> BOOLEAN]
    /\ installed \in BOOLEAN
    /\ wstatus \in Statuses
    /\ result \in Results
    /\ gen \in Nat \ {0}
    /\ sent \in 0..MaxSignals
    /\ crashes \in 0..MaxCrashes
    /\ handled \in [{"exit", "reload"} -> Nat]
    /\ exitSent \in BOOLEAN

\* A handler that has passed its test (line 100/111) writes into a descriptor
\* that is still open, in the supervisor and in the worker: asyncsafe_close()
\* makes signalfd[1] -1 before it closes the descriptor (lines 470-478, used
\* at 484 and 619), so no handler, however it interleaves, writes to a closed
\* (or reused) descriptor.
HandlerWritesOpenPipe ==
    \A p \in Procs : \A i \in 1..Len(stack[p]) :
        stack[p][i].at = "write" => wrOpen[p]

\* The supervisor leaves waitpid() only once its worker is dead and reaped
\* (line 631), although a handler interrupts waitpid() with EINTR: it never
\* tears the bridge down, decides, or forks a new worker while one runs.
WorkerReaped == spc # "wait" => wpc = "none"

\* Once the supervisor's exit_handler has recorded should_exit after the
\* reset of InitSignals(), no further generation starts, whatever reload
\* signals or worker crashes follow (priority of line 635 over 642 and 658).
ExitIsFinal ==
    [][shouldExit["sup"] # 0 /\ spc \notin {"pipe", "reset"} => gen' = gen]_vars

\* A signal recorded by the supervisor's handler ends the generation: its
\* byte in the pipe makes the worker's select() break out of the loop
\* (line 166-170), the worker exits, the supervisor reaps it and either
\* returns or starts the next generation.
RequestEndsGeneration ==
    \A g \in 1..MaxGen :
        (/\ gen = g
         /\ spc \notin {"pipe", "reset"}
         /\ shouldExit["sup"] # 0 \/ shouldReload["sup"] # 0)
        ~> (gen > g \/ spc = "done")

(* Statements of spec.md that the code does not keep.                       *)

\* spec.md 3 and 4.2: a handler sets each of should_exit and should_reload
\* at most once per generation, a second signal of the same class being
\* dropped (the comment at line 83 says that all signals are blocked while
\* one is handled).
FlagsSetOnce == \A c \in {"exit", "reload"} : handled[c] <= 1

\* spec.md 8: at most one of should_exit and should_reload is non-zero in a
\* generation.
AtMostOneFlag == shouldExit["sup"] = 0 \/ shouldReload["sup"] = 0

\* spec.md 4.2 and 7: a terminal signal caught by the supervisor makes it
\* exit with 0, and a HUP caught by it (with no terminal signal) makes it
\* reload, whatever happens at the end of the generation.
CaughtSignalHonoured ==
    [][spc = "decide" /\ spc' # "decide" =>
         /\ handled["exit"] > 0 => result' = "ok"
         /\ handled["reload"] > 0 /\ handled["exit"] = 0 => gen' > gen]_vars

\* spec.md 7: the daemon exits with 0 on INT, QUIT or TERM, while HUP
\* re-enters the supervisor loop; so it never exits with 0 unless a terminal
\* signal was sent.
CleanExitNeedsExitSignal == result = "ok" => exitSent

=============================================================================
