-------------------------- MODULE SupervisorProofs --------------------------
(***************************************************************************)
(* Proofs about the Supervisor module, for every value of the constants:   *)
(* type correctness, HandlerWritesOpenPipe, WorkerReaped, ExitIsFinal.     *)
(***************************************************************************)
EXTENDS Supervisor, SequenceTheorems, TLAPS

-----------------------------------------------------------------------------
(* Lemmas on the handler stack: what popping the innermost frame and        *)
(* marking it as past its test leave in the stack.                          *)

LEMMA PopFrame ==
    ASSUME NEW S, NEW q \in Seq(S), q # <<>>
    PROVE  /\ WithoutTop(q) \in Seq(S)
           /\ Len(WithoutTop(q)) = Len(q) - 1
           /\ \A i \in 1..Len(q) - 1 : WithoutTop(q)[i] = q[i]
<1>1. Len(q) - 1 \in Nat
  BY EmptySeq
<1>2. \A i \in 1..Len(q) - 1 : q[i] \in S
  BY <1>1, ElementOfSeq
<1>3. WithoutTop(q) \in Seq(S)
  BY <1>1, <1>2, IsASeq DEF WithoutTop
<1>4. Len(WithoutTop(q)) = Len(q) - 1
  BY <1>1, <1>3, LenProperties DEF WithoutTop
<1>5. QED
  BY <1>3, <1>4 DEF WithoutTop

LEMMA MarkFrame ==
    ASSUME NEW q \in Seq(Frames), q # <<>>
    PROVE  /\ [q EXCEPT ![Len(q)].at = "write"] \in Seq(Frames)
           /\ Len([q EXCEPT ![Len(q)].at = "write"]) = Len(q)
           /\ \A i \in 1..Len(q) - 1 : [q EXCEPT ![Len(q)].at = "write"][i] = q[i]
<1>1. Len(q) \in 1..Len(q)
  BY EmptySeq
<1>2. [q[Len(q)] EXCEPT !.at = "write"] \in Frames
  <2>1. q[Len(q)] \in Frames
    BY <1>1, ElementOfSeq
  <2>2. QED
    BY <2>1 DEF Frames
<1>3. [q EXCEPT ![Len(q)].at = "write"] = [q EXCEPT ![Len(q)] = [q[Len(q)] EXCEPT !.at = "write"]]
  OBVIOUS
<1>4. QED
  BY <1>1, <1>2, <1>3, ExceptSeq

LEMMA PushFrame ==
    ASSUME NEW q \in Seq(Frames), NEW s \in Sigs
    PROVE  /\ Append(q, [sig |-> s, at |-> "check"]) \in Seq(Frames)
           /\ Len(Append(q, [sig |-> s, at |-> "check"])) = Len(q) + 1
           /\ \A i \in 1..Len(q) : Append(q, [sig |-> s, at |-> "check"])[i] = q[i]
           /\ Append(q, [sig |-> s, at |-> "check"])[Len(q) + 1].at = "check"
<1>1. [sig |-> s, at |-> "check"] \in Frames
  BY DEF Frames
<1>2. QED
  BY <1>1, AppendProperties

-----------------------------------------------------------------------------
(* Type correctness.  TypeOK is split in the Boolean state, which Zenon    *)
(* handles, and the rest, which SMT handles.                                *)

BoolTypes ==
    /\ wrSet \in [Procs -> BOOLEAN]
    /\ wrOpen \in [Procs -> BOOLEAN]
    /\ intr \in [Procs -> BOOLEAN]
    /\ installed \in BOOLEAN
    /\ exitSent \in BOOLEAN

OtherTypes ==
    /\ spc \in SupPCs
    /\ wpc \in WrkPCs
    /\ shouldExit \in [Procs -> Sigs \cup {0}]
    /\ shouldReload \in [Procs -> Sigs \cup {0}]
    /\ pipe \in Nat
    /\ stack \in [Procs -> Seq(Frames)]
    /\ wstatus \in Statuses
    /\ result \in Results
    /\ gen \in Nat \ {0}
    /\ sent \in 0..MaxSignals
    /\ crashes \in 0..MaxCrashes
    /\ handled \in [{"exit", "reload"} -> Nat]

LEMMA TypeSplit == TypeOK <=> BoolTypes /\ OtherTypes
  BY Zenon DEF TypeOK, BoolTypes, OtherTypes

LEMMA InitTypeOK == Init => TypeOK
<1> SUFFICES ASSUME Init PROVE TypeOK
  OBVIOUS
<1>1. BoolTypes
  BY Zenon DEF Init, BoolTypes
<1>2. stack \in [Procs -> Seq(Frames)]
  BY EmptySeq DEF Init
<1>3. OtherTypes
  BY <1>2, BoundAssumption
  DEF Init, OtherTypes, Procs, SupPCs, WrkPCs, Statuses, Results
<1>4. QED
  BY <1>1, <1>3, TypeSplit

\* The stack after each of the handler steps and after a delivery.
LEMMA StackStepType ==
    ASSUME stack \in [Procs -> Seq(Frames)], NEW p \in Procs, stack[p] # <<>>
    PROVE  /\ Pop(p) \in [Procs -> Seq(Frames)]
           /\ [stack EXCEPT ![p][Len(stack[p])].at = "write"] \in [Procs -> Seq(Frames)]
           /\ Top(p) \in Frames
<1>1. stack[p] \in Seq(Frames)
  OBVIOUS
<1>2. Pop(p) \in [Procs -> Seq(Frames)]
  BY <1>1, PopFrame DEF Pop
<1>3. [stack EXCEPT ![p][Len(stack[p])].at = "write"] \in [Procs -> Seq(Frames)]
  <2>1. [stack[p] EXCEPT ![Len(stack[p])].at = "write"] \in Seq(Frames)
    BY <1>1, MarkFrame
  <2>2. [stack EXCEPT ![p][Len(stack[p])].at = "write"]
        = [stack EXCEPT ![p] = [stack[p] EXCEPT ![Len(stack[p])].at = "write"]]
    OBVIOUS
  <2>3. QED
    BY <2>1, <2>2
<1>4. Top(p) \in Frames
  BY <1>1, EmptySeq, ElementOfSeq DEF Top
<1>5. QED
  BY <1>2, <1>3, <1>4

\* The Boolean state keeps its type in every step.
LEMMA NextBoolTypes == BoolTypes /\ [Next]_vars => BoolTypes'
<1> SUFFICES ASSUME BoolTypes, [Next]_vars PROVE BoolTypes'
  OBVIOUS
<1> USE DEF Procs
<1>1. ASSUME NEW s \in Sigs, NEW T \in {{"sup"}, {"wrk"}, Procs}, Kill(s, T)
      PROVE  BoolTypes'
  BY <1>1, Zenon DEF Kill, BoolTypes
<1>2. ASSUME NEW s \in Sigs, KillUninstalled(s)
      PROVE  BoolTypes'
  BY <1>2, Zenon DEF KillUninstalled, BoolTypes
<1>3. ASSUME NEW p \in Procs, handler_check(p) \/ handler_write(p)
      PROVE  BoolTypes'
  BY <1>3, Zenon DEF handler_check, handler_write, BoolTypes
<1>4. CASE InitSignals_pipe
  BY <1>4, Zenon DEF InitSignals_pipe, Stop, BoolTypes
<1>5. CASE InitSignals_reset
  BY <1>5, Zenon DEF InitSignals_reset, SupStep, BoolTypes
<1>6. CASE ParseConf
  BY <1>6, Zenon DEF ParseConf, Stop, BoolTypes
<1>7. CASE Fork
  BY <1>7, Zenon DEF Fork, Stop, BoolTypes
<1>8. CASE WaitPid
  BY <1>8, Zenon DEF WaitPid, SupStep, BoolTypes
<1>9. CASE WaitPidEINTR
  BY <1>9, Zenon DEF WaitPidEINTR, BoolTypes
<1>10. CASE DeinitSignals_unset
  BY <1>10, Zenon DEF DeinitSignals_unset, SupStep, asyncsafe_close_unset, BoolTypes
<1>11. CASE DeinitSignals_close
  BY <1>11, Zenon DEF DeinitSignals_close, SupStep, asyncsafe_close_release, BoolTypes
<1>12. CASE Decide
  BY <1>12, Zenon DEF Decide, Stop, Reload, BoolTypes
<1>13. CASE Child_unset
  BY <1>13, Zenon DEF Child_unset, WrkStep, asyncsafe_close_unset, BoolTypes
<1>14. CASE Child_close
  BY <1>14, Zenon DEF Child_close, WrkStep, asyncsafe_close_release, BoolTypes
<1>15. CASE miredo_run_setup
  BY <1>15, Zenon DEF miredo_run_setup, WorkerEnds, BoolTypes
<1>16. CASE Select
  BY <1>16, Zenon DEF Select, WorkerEnds, BoolTypes
<1>17. CASE ProcessTick
  BY <1>17, Zenon DEF ProcessTick, WrkStep, BoolTypes
<1>18. CASE WorkerKilled
  BY <1>18, Zenon DEF WorkerKilled, WorkerEnds, BoolTypes
<1>19. CASE Terminated \/ UNCHANGED vars
  BY <1>19, Zenon DEF Terminated, vars, BoolTypes
<1>20. QED
  BY <1>1, <1>2, <1>3, <1>4, <1>5, <1>6, <1>7, <1>8, <1>9, <1>10, <1>11, <1>12, <1>13, <1>14, <1>15, <1>16, <1>17, <1>18, <1>19
  DEF Next, Supervisor, Worker, Handlers, Environment

LEMMA NextOtherTypes == TypeOK /\ [Next]_vars => OtherTypes'
<1> SUFFICES ASSUME OtherTypes, [Next]_vars PROVE OtherTypes'
  BY TypeSplit
<1> USE DEF Procs
<1>1. ASSUME NEW s \in Sigs, NEW T \in {{"sup"}, {"wrk"}, Procs}, Kill(s, T)
      PROVE  OtherTypes'
  <2>1. stack' \in [Procs -> Seq(Frames)]
    BY <1>1, PushFrame DEF Kill, OtherTypes
  <2>2. /\ sent < MaxSignals /\ sent' = sent + 1
        /\ UNCHANGED <<spc, wpc, shouldExit, shouldReload, pipe, wstatus,
                       result, gen, crashes, handled>>
    BY <1>1, Zenon DEF Kill
  <2>3. QED
    BY <2>1, <2>2, BoundAssumption DEF OtherTypes
<1>2. ASSUME NEW s \in Sigs, KillUninstalled(s)
      PROVE  OtherTypes'
  <2>1. /\ sent < MaxSignals /\ sent' = sent + 1
        /\ spc' = "done" /\ result' = "killed"
        /\ UNCHANGED <<wpc, shouldExit, shouldReload, pipe, stack, wstatus,
                       gen, crashes, handled>>
    BY <1>2, Zenon DEF KillUninstalled
  <2>2. QED
    BY <2>1, BoundAssumption DEF OtherTypes, SupPCs, Results
<1>3. ASSUME NEW p \in Procs, handler_check(p)
      PROVE  OtherTypes'
  <2>1. stack' \in [Procs -> Seq(Frames)]
    BY <1>3, StackStepType, Zenon DEF handler_check, OtherTypes
  <2>2. UNCHANGED <<spc, wpc, shouldExit, shouldReload, pipe, wstatus,
                    result, gen, sent, crashes, handled>>
    BY <1>3, Zenon DEF handler_check
  <2>3. QED
    BY <2>1, <2>2 DEF OtherTypes
<1>4. ASSUME NEW p \in Procs, handler_write(p)
      PROVE  OtherTypes'
  <2> DEFINE s == Top(p).sig
  <2>1. s \in Sigs /\ stack' \in [Procs -> Seq(Frames)]
    BY <1>4, StackStepType DEF handler_write, Frames, OtherTypes
  <2>2. /\ pipe' \in {pipe, pipe + 1}
        /\ shouldExit' = IF s \in ExitSigs
                         THEN [shouldExit EXCEPT ![p] = s] ELSE shouldExit
        /\ shouldReload' = IF s \in ReloadSigs
                           THEN [shouldReload EXCEPT ![p] = s] ELSE shouldReload
        /\ handled' = IF p = "sup"
                      THEN [handled EXCEPT ![SigClass(s)] = @ + 1] ELSE handled
        /\ UNCHANGED <<spc, wpc, wstatus, result, gen, sent, crashes>>
    BY <1>4, Zenon DEF handler_write
  <2>3. QED
    BY <2>1, <2>2 DEF OtherTypes, SigClass
<1>5. CASE InitSignals_pipe
  BY <1>5 DEF InitSignals_pipe, Stop, OtherTypes, SupPCs, Results
<1>6. CASE InitSignals_reset
  BY <1>6 DEF InitSignals_reset, SupStep, OtherTypes, SupPCs
<1>7. CASE ParseConf
  BY <1>7 DEF ParseConf, Stop, OtherTypes, SupPCs, Results
<1>8. CASE Fork
  BY <1>8 DEF Fork, Stop, OtherTypes, SupPCs, WrkPCs, Results, Statuses
<1>9. CASE WaitPid
  BY <1>9 DEF WaitPid, SupStep, OtherTypes, SupPCs, WrkPCs
<1>10. CASE WaitPidEINTR
  BY <1>10 DEF WaitPidEINTR, OtherTypes
<1>11. CASE DeinitSignals_unset
  BY <1>11 DEF DeinitSignals_unset, asyncsafe_close_unset, SupStep,
               OtherTypes, SupPCs
<1>12. CASE DeinitSignals_close
  BY <1>12 DEF DeinitSignals_close, asyncsafe_close_release, SupStep,
               OtherTypes, SupPCs
<1>13. CASE Decide
  <2>1. /\ spc' \in {"done", "pipe"}
        /\ result' \in {result, "ok", "failed"}
        /\ gen' \in {gen, gen + 1}
        /\ wstatus' \in {wstatus, "none"}
        /\ UNCHANGED <<wpc, shouldExit, shouldReload, pipe, stack, sent,
                       crashes, handled>>
    BY <1>13, Zenon DEF Decide, Stop, Reload
  <2>2. QED
    BY <2>1 DEF OtherTypes, SupPCs, Results, Statuses
<1>14. CASE Child_unset
  BY <1>14 DEF Child_unset, asyncsafe_close_unset, WrkStep, OtherTypes,
               WrkPCs
<1>15. CASE Child_close
  BY <1>15 DEF Child_close, asyncsafe_close_release, WrkStep,
               OtherTypes, WrkPCs
<1>16. CASE miredo_run_setup
  <2>1. /\ wpc' \in {"select", "process", "exited"}
        /\ wstatus' \in {wstatus, "exited0", "exited1"}
        /\ stack' \in {stack, [stack EXCEPT !["wrk"] = <<>>]}
        /\ UNCHANGED <<spc, shouldExit, shouldReload, pipe, result, gen,
                       sent, crashes, handled>>
    BY <1>16, Zenon DEF miredo_run_setup, WorkerEnds
  <2>2. stack' \in [Procs -> Seq(Frames)]
    <3>1. [stack EXCEPT !["wrk"] = <<>>] \in [Procs -> Seq(Frames)]
      BY EmptySeq DEF OtherTypes
    <3>2. QED
      BY <2>1, <3>1, Zenon DEF OtherTypes
  <2>3. QED
    BY <2>1, <2>2 DEF OtherTypes, WrkPCs, Statuses
<1>17. CASE Select
  <2>1. /\ wpc' \in {"select", "process", "exited"}
        /\ wstatus' \in {wstatus, "exited0", "exited1"}
        /\ stack' \in {stack, [stack EXCEPT !["wrk"] = <<>>]}
        /\ UNCHANGED <<spc, shouldExit, shouldReload, pipe, result, gen,
                       sent, crashes, handled>>
    BY <1>17, Zenon DEF Select, WorkerEnds
  <2>2. stack' \in [Procs -> Seq(Frames)]
    <3>1. [stack EXCEPT !["wrk"] = <<>>] \in [Procs -> Seq(Frames)]
      BY EmptySeq DEF OtherTypes
    <3>2. QED
      BY <2>1, <3>1, Zenon DEF OtherTypes
  <2>3. QED
    BY <2>1, <2>2 DEF OtherTypes, WrkPCs, Statuses
<1>18. CASE ProcessTick
  BY <1>18 DEF ProcessTick, WrkStep, OtherTypes, WrkPCs
<1>19. CASE WorkerKilled
  BY <1>19, EmptySeq, BoundAssumption DEF WorkerKilled, WorkerEnds,
                                          OtherTypes, WrkPCs, Statuses
<1>20. CASE Terminated \/ UNCHANGED vars
  BY <1>20 DEF Terminated, vars, OtherTypes
<1>21. QED
  BY <1>1, <1>2, <1>3, <1>4, <1>5, <1>6, <1>7, <1>8, <1>9, <1>10, <1>11,
     <1>12, <1>13, <1>14, <1>15, <1>16, <1>17, <1>18, <1>19, <1>20
  DEF Next, Supervisor, Worker, Handlers, Environment

LEMMA NextTypeOK == TypeOK /\ [Next]_vars => TypeOK'
<1> SUFFICES ASSUME TypeOK, [Next]_vars PROVE TypeOK'
  OBVIOUS
<1>1. BoolTypes'
  BY NextBoolTypes, TypeSplit
<1>2. OtherTypes'
  BY NextOtherTypes
<1>3. QED
  BY <1>1, <1>2, Zenon DEF TypeOK, BoolTypes, OtherTypes

\* The variables always have the types TypeOK gives them.
THEOREM TypeCorrect == Spec => []TypeOK
BY InitTypeOK, NextTypeOK, PTL DEF Spec

-----------------------------------------------------------------------------
(* HandlerWritesOpenPipe and WorkerReaped.  Neither is inductive by itself. *)
(* A handler passes its test only while signalfd[1] is set, so a set        *)
(* descriptor must be open: asyncsafe_close() clears it before it closes    *)
(* it, and the process that closes it has no handler running.  fork()       *)
(* copies the supervisor's descriptor into a child that has no handler      *)
(* frames, because the previous child has been reaped (WorkerReaped), which *)
(* needs the handlers installed once the supervisor waits, since before     *)
(* that a signal kills the supervisor.                                      *)

\* no frame of the stack q is past its test unless b holds
OKSeq(q, b) == \A i \in 1..Len(q) : q[i].at = "write" => b

WritesOK == \A p \in Procs : OKSeq(stack[p], wrOpen[p])

SetOpen == \A p \in Procs : wrSet[p] => wrOpen[p]

ChildClean == wpc \in {"none", "exited"} => stack["wrk"] = <<>>

InstalledAfterReset ==
    spc \in {"parse", "fork", "wait", "deinit1", "deinit2", "decide"} => installed

UnsetBeforeClose ==
    /\ spc = "deinit2" => ~wrSet["sup"]
    /\ wpc = "close2" => ~wrSet["wrk"]

IRest ==
    /\ WritesOK
    /\ SetOpen
    /\ ChildClean
    /\ WorkerReaped
    /\ InstalledAfterReset
    /\ UnsetBeforeClose

IInv == TypeOK /\ IRest


LEMMA OKEmpty == ASSUME NEW b PROVE OKSeq(<<>>, b)
  BY DEF OKSeq

LEMMA OKHolds == ASSUME NEW q, NEW b, b PROVE OKSeq(q, b)
  BY Zenon DEF OKSeq

LEMMA OKPop ==
    ASSUME NEW q \in Seq(Frames), q # <<>>, NEW b, OKSeq(q, b)
    PROVE  OKSeq(WithoutTop(q), b)
<1>1. /\ Len(WithoutTop(q)) = Len(q) - 1
      /\ \A i \in 1..Len(q) - 1 : WithoutTop(q)[i] = q[i]
  BY PopFrame
<1>2. \A i \in 1..Len(q) - 1 : i \in 1..Len(q)
  BY EmptySeq
<1>3. QED
  BY <1>1, <1>2, Zenon DEF OKSeq

LEMMA OKPush ==
    ASSUME NEW q \in Seq(Frames), NEW s \in Sigs, NEW b, OKSeq(q, b)
    PROVE  OKSeq(Append(q, [sig |-> s, at |-> "check"]), b)
<1> DEFINE r == Append(q, [sig |-> s, at |-> "check"])
<1>1. /\ Len(r) = Len(q) + 1
      /\ \A i \in 1..Len(q) : r[i] = q[i]
      /\ r[Len(q) + 1].at = "check"
  BY PushFrame
<1>2. \A i \in 1..Len(r) : i \in 1..Len(q) \/ i = Len(q) + 1
  BY <1>1
<1>3. QED
  BY <1>1, <1>2, Zenon DEF OKSeq

LEMMA InitIInv == Init => IInv
<1> SUFFICES ASSUME Init PROVE IInv
  OBVIOUS
<1>1. TypeOK
  BY InitTypeOK
<1>2. WritesOK
  BY OKEmpty, Zenon DEF Init, WritesOK
<1>3. SetOpen /\ UnsetBeforeClose
  BY Zenon DEF Init, SetOpen, UnsetBeforeClose
<1>4. ChildClean /\ WorkerReaped /\ InstalledAfterReset
  BY Zenon DEF Init, ChildClean, WorkerReaped, InstalledAfterReset, Procs
<1>5. QED
  BY <1>1, <1>2, <1>3, <1>4 DEF IInv, IRest


\* A step that leaves the descriptors, the stacks, the program counters and
\* the installation alone keeps IRest.
LEMMA IRestFrame ==
    ASSUME IRest, UNCHANGED <<spc, wpc, wrSet, wrOpen, stack, installed>>
    PROVE  IRest'
  BY Zenon DEF IRest, WritesOK, SetOpen, ChildClean, WorkerReaped,
               InstalledAfterReset, UnsetBeforeClose

\* The end of the worker process, by exit() or by a signal.
LEMMA IRestWorkerEnds ==
    ASSUME TypeOK, IRest, NEW st, wpc \notin {"none", "exited"}, WorkerEnds(st),
           UNCHANGED <<spc, installed, wrSet["sup"], wrOpen["sup"], stack["sup"]>>
    PROVE  IRest'
<1> USE DEF Procs
<1>1. spc = "wait"
  BY Zenon DEF IRest, WorkerReaped
<1>2. /\ wpc' = "exited"
      /\ wrSet' = [wrSet EXCEPT !["wrk"] = FALSE]
      /\ wrOpen' = [wrOpen EXCEPT !["wrk"] = FALSE]
      /\ stack' = [stack EXCEPT !["wrk"] = <<>>]
  BY DEF WorkerEnds
<1>3. WritesOK'
  <2>1. OKSeq(stack'["wrk"], wrOpen'["wrk"])
    <3>1. stack'["wrk"] = <<>>
      BY <1>2 DEF TypeOK
    <3>2. QED
      BY <3>1, OKEmpty, Zenon
  <2>2. OKSeq(stack'["sup"], wrOpen'["sup"])
    BY Zenon DEF IRest, WritesOK
  <2>3. QED
    BY <2>1, <2>2 DEF WritesOK
<1>4. SetOpen'
  BY <1>2, Zenon DEF TypeOK, IRest, SetOpen
<1>5. ChildClean' /\ WorkerReaped' /\ InstalledAfterReset' /\ UnsetBeforeClose'
  BY <1>1, <1>2, Zenon DEF TypeOK, IRest, ChildClean, WorkerReaped,
                           InstalledAfterReset, UnsetBeforeClose
<1>6. QED
  BY <1>3, <1>4, <1>5 DEF IRest

\* A signal delivered to some of the processes.
LEMMA IRestKill ==
    ASSUME TypeOK, IRest, NEW s \in Sigs, NEW T \in {{"sup"}, {"wrk"}, Procs},
           Kill(s, T)
    PROVE  IRest'
<1> USE DEF Procs
<1>1. /\ UNCHANGED <<spc, wpc, wrSet, wrOpen, installed>>
      /\ stack' = [p \in Procs |-> IF p \in T
                                   THEN Append(stack[p], [sig |-> s, at |-> "check"])
                                   ELSE stack[p]]
      /\ \A p \in T : Alive(p)
  BY Zenon DEF Kill, CanReceive
<1>2. WritesOK'
  <2> SUFFICES ASSUME NEW p \in Procs PROVE OKSeq(stack'[p], wrOpen'[p])
    BY DEF WritesOK
  <2>1. CASE p \in T
    <3>1. stack'[p] = Append(stack[p], [sig |-> s, at |-> "check"])
      BY <1>1, <2>1
    <3>2. QED
      BY <1>1, <3>1, OKPush, Zenon DEF TypeOK, IRest, WritesOK
  <2>2. CASE p \notin T
    <3>1. stack'[p] = stack[p]
      BY <1>1, <2>2
    <3>2. QED
      BY <1>1, <3>1, Zenon DEF IRest, WritesOK
  <2>3. QED
    BY <2>1, <2>2
<1>3. ChildClean'
  <2>1. CASE "wrk" \in T
    BY <1>1, <2>1, Zenon DEF ChildClean, Alive
  <2>2. CASE "wrk" \notin T
    <3>1. stack'["wrk"] = stack["wrk"]
      BY <1>1, <2>2
    <3>2. QED
      BY <1>1, <3>1, Zenon DEF IRest, ChildClean
  <2>3. QED
    BY <2>1, <2>2
<1>4. QED
  BY <1>1, <1>2, <1>3, Zenon DEF IRest, SetOpen, WorkerReaped,
                                 InstalledAfterReset, UnsetBeforeClose

\* Before sigaction() a signal kills the supervisor, which has no child then.
LEMMA IRestKillUninstalled ==
    ASSUME IRest, NEW s \in Sigs, KillUninstalled(s)
    PROVE  IRest'
<1>1. /\ ~installed /\ spc' = "done"
      /\ UNCHANGED <<wpc, wrSet, wrOpen, stack, installed>>
  BY Zenon DEF KillUninstalled
<1>2. wpc = "none"
  BY <1>1, Zenon DEF IRest, InstalledAfterReset, WorkerReaped
<1>3. QED
  BY <1>1, <1>2, Zenon DEF IRest, WritesOK, SetOpen, ChildClean, WorkerReaped,
                           InstalledAfterReset, UnsetBeforeClose

\* A handler running in a process: the worker runs handlers only while it is
\* alive.
LEMMA HandlerWorkerAlive ==
    ASSUME IRest, NEW p \in Procs, stack[p] # <<>>, p = "wrk"
    PROVE  wpc \notin {"none", "exited"}
  BY Zenon DEF IRest, ChildClean

LEMMA IRestHandlerCheck ==
    ASSUME TypeOK, IRest, NEW p \in Procs, handler_check(p)
    PROVE  IRest'
<1> USE DEF Procs
<1>1. /\ stack[p] # <<>>
      /\ \/ stack' = Pop(p)
         \/ wrSet[p] /\ stack' = [stack EXCEPT ![p][Len(stack[p])].at = "write"]
      /\ UNCHANGED <<spc, wpc, wrSet, wrOpen, installed>>
  BY Zenon DEF handler_check
<1>2. \A q \in Procs \ {p} : stack'[q] = stack[q]
  BY <1>1 DEF Pop, TypeOK
<1>3. OKSeq(stack'[p], wrOpen'[p])
  <2>1. CASE stack' = Pop(p)
    <3>1. stack'[p] = WithoutTop(stack[p])
      BY <2>1 DEF Pop, TypeOK
    <3>2. OKSeq(WithoutTop(stack[p]), wrOpen[p])
      <4>1. stack[p] \in Seq(Frames) /\ OKSeq(stack[p], wrOpen[p])
        BY Zenon DEF TypeOK, IRest, WritesOK
      <4>2. QED
        BY <1>1, <4>1, OKPop
    <3>3. QED
      BY <1>1, <3>1, <3>2, Zenon
  <2>2. CASE wrSet[p] /\ stack' = [stack EXCEPT ![p][Len(stack[p])].at = "write"]
    BY <1>1, <2>2, OKHolds, Zenon DEF IRest, SetOpen
  <2>3. QED
    BY <1>1, <2>1, <2>2
<1>4. WritesOK'
  BY <1>1, <1>2, <1>3, Zenon DEF IRest, WritesOK
<1>5. ChildClean'
  BY <1>1, <1>2, HandlerWorkerAlive, Zenon DEF IRest, ChildClean
<1>6. QED
  BY <1>1, <1>4, <1>5, Zenon DEF IRest, SetOpen, WorkerReaped,
                                 InstalledAfterReset, UnsetBeforeClose

LEMMA IRestHandlerWrite ==
    ASSUME TypeOK, IRest, NEW p \in Procs, handler_write(p)
    PROVE  IRest'
<1> USE DEF Procs
<1>1. /\ stack[p] # <<>>
      /\ stack' = Pop(p)
      /\ UNCHANGED <<spc, wpc, wrSet, wrOpen, installed>>
  BY Zenon DEF handler_write
<1>2. \A q \in Procs \ {p} : stack'[q] = stack[q]
  BY <1>1 DEF Pop, TypeOK
<1>3. OKSeq(stack'[p], wrOpen'[p])
  <2>1. stack'[p] = WithoutTop(stack[p])
    BY <1>1 DEF Pop, TypeOK
  <2>2. OKSeq(WithoutTop(stack[p]), wrOpen[p])
    <3>1. stack[p] \in Seq(Frames) /\ OKSeq(stack[p], wrOpen[p])
      BY Zenon DEF TypeOK, IRest, WritesOK
    <3>2. QED
      BY <1>1, <3>1, OKPop
  <2>3. QED
    BY <1>1, <2>1, <2>2, Zenon
<1>4. WritesOK'
  BY <1>1, <1>2, <1>3, Zenon DEF IRest, WritesOK
<1>5. ChildClean'
  BY <1>1, <1>2, HandlerWorkerAlive, Zenon DEF IRest, ChildClean
<1>6. QED
  BY <1>1, <1>4, <1>5, Zenon DEF IRest, SetOpen, WorkerReaped,
                                 InstalledAfterReset, UnsetBeforeClose

LEMMA NextIRest == IInv /\ [Next]_vars => IRest'
<1> SUFFICES ASSUME TypeOK, IRest, [Next]_vars PROVE IRest'
  BY DEF IInv
<1> USE DEF Procs
<1>1. CASE \E s \in Sigs : \E T \in {{"sup"}, {"wrk"}, Procs} : Kill(s, T)
  BY <1>1, IRestKill
<1>2. CASE \E s \in Sigs : KillUninstalled(s)
  BY <1>2, IRestKillUninstalled
<1>3. CASE \E p \in Procs : handler_check(p) \/ handler_write(p)
  BY <1>3, IRestHandlerCheck, IRestHandlerWrite
<1>4. CASE InitSignals_pipe
  <2>1. /\ spc = "pipe" /\ spc' \in {"reset", "done"}
        /\ \/ UNCHANGED <<wrSet, wrOpen>>
           \/ /\ wrSet' = [wrSet EXCEPT !["sup"] = TRUE]
              /\ wrOpen' = [wrOpen EXCEPT !["sup"] = TRUE]
        /\ UNCHANGED <<wpc, stack, installed>>
    BY <1>4, Zenon DEF InitSignals_pipe, Stop
  <2>2. OKSeq(stack'["sup"], wrOpen'["sup"])
    <3>1. CASE UNCHANGED <<wrSet, wrOpen>>
      BY <2>1, <3>1, Zenon DEF IRest, WritesOK
    <3>2. CASE wrOpen' = [wrOpen EXCEPT !["sup"] = TRUE]
      <4>1. wrOpen'["sup"] = TRUE
        BY <3>2 DEF TypeOK
      <4>2. QED
        BY <4>1, OKHolds
    <3>3. QED
      BY <2>1, <3>1, <3>2
  <2>3. QED
    BY <2>1, <2>2, Zenon DEF TypeOK, IRest, WritesOK, SetOpen, ChildClean,
                             WorkerReaped, InstalledAfterReset, UnsetBeforeClose
<1>5. CASE InitSignals_reset
  <2>1. spc = "reset" /\ spc' = "parse" /\ installed'
        /\ UNCHANGED <<wpc, wrSet, wrOpen, stack>>
    BY <1>5, Zenon DEF InitSignals_reset, SupStep
  <2>2. QED
    BY <2>1, Zenon DEF IRest, WritesOK, SetOpen, ChildClean, WorkerReaped,
        InstalledAfterReset, UnsetBeforeClose
<1>6. CASE ParseConf
  <2>1. spc = "parse" /\ spc' \in {"fork", "done"}
        /\ UNCHANGED <<wpc, wrSet, wrOpen, stack, installed>>
    BY <1>6, Zenon DEF ParseConf, Stop
  <2>2. QED
    BY <2>1, Zenon DEF IRest, WritesOK, SetOpen, ChildClean, WorkerReaped,
        InstalledAfterReset, UnsetBeforeClose
<1>7. CASE Fork
  <2>1. spc = "fork" /\ wpc = "none" /\ stack["wrk"] = <<>>
    BY <1>7, Zenon DEF Fork, IRest, WorkerReaped, ChildClean
  <2>2. CASE spc' = "done"
    <3>1. UNCHANGED <<wpc, wrSet, wrOpen, stack, installed>>
      BY <1>7, <2>2, Zenon DEF Fork, Stop
    <3>2. QED
      BY <2>1, <2>2, <3>1, Zenon DEF IRest, WritesOK, SetOpen, ChildClean, WorkerReaped,
        InstalledAfterReset, UnsetBeforeClose
  <2>3. CASE spc' # "done"
    <3>1. /\ spc' = "wait" /\ wpc' = "close1"
          /\ wrSet' = [wrSet EXCEPT !["wrk"] = wrSet["sup"]]
          /\ wrOpen' = [wrOpen EXCEPT !["wrk"] = wrOpen["sup"]]
          /\ UNCHANGED <<stack, installed>>
      BY <1>7, <2>3, Zenon DEF Fork, Stop
    <3>2. OKSeq(stack'["wrk"], wrOpen'["wrk"])
      BY <2>1, <3>1, OKEmpty, Zenon
    <3>3. QED
      BY <2>1, <3>1, <3>2, Zenon DEF TypeOK, IRest, WritesOK, SetOpen,
                 ChildClean, WorkerReaped, InstalledAfterReset, UnsetBeforeClose
  <2>4. QED
    BY <2>2, <2>3
<1>8. CASE WaitPid
  <2>1. /\ spc = "wait" /\ spc' = "deinit1" /\ wpc = "exited" /\ wpc' = "none"
        /\ UNCHANGED <<wrSet, wrOpen, stack, installed>>
    BY <1>8, Zenon DEF WaitPid, SupStep
  <2>2. QED
    BY <2>1, Zenon DEF IRest, WritesOK, SetOpen, ChildClean, WorkerReaped,
        InstalledAfterReset, UnsetBeforeClose
<1>9. CASE WaitPidEINTR \/ Terminated \/ UNCHANGED vars
  <2>1. UNCHANGED <<spc, wpc, wrSet, wrOpen, stack, installed>>
    BY <1>9, Zenon DEF WaitPidEINTR, Terminated, vars
  <2>2. QED
    BY <2>1, IRestFrame
<1>17. CASE ProcessTick
  <2>1. /\ wpc = "process" /\ wpc' = "select"
        /\ UNCHANGED <<spc, wrSet, wrOpen, stack, installed>>
    BY <1>17, Zenon DEF ProcessTick, WrkStep
  <2>2. QED
    BY <2>1, Zenon DEF IRest, WritesOK, SetOpen, ChildClean, WorkerReaped,
        InstalledAfterReset, UnsetBeforeClose
<1>10. CASE DeinitSignals_unset
  <2>1. /\ spc = "deinit1" /\ spc' = "deinit2"
        /\ wrSet' = [wrSet EXCEPT !["sup"] = FALSE]
        /\ UNCHANGED <<wpc, wrOpen, stack, installed>>
    BY <1>10, Zenon DEF DeinitSignals_unset, SupStep, asyncsafe_close_unset
  <2>2. QED
    BY <2>1, Zenon DEF TypeOK, IRest, WritesOK, SetOpen, ChildClean,
                       WorkerReaped, InstalledAfterReset, UnsetBeforeClose
<1>11. CASE DeinitSignals_close
  <2>1. /\ spc = "deinit2" /\ spc' = "decide" /\ stack["sup"] = <<>>
        /\ wrOpen' = [wrOpen EXCEPT !["sup"] = FALSE]
        /\ UNCHANGED <<wpc, wrSet, stack, installed>>
    BY <1>11, Zenon DEF DeinitSignals_close, SupStep, Running,
                        asyncsafe_close_release
  <2>2. OKSeq(stack'["sup"], wrOpen'["sup"])
    BY <2>1, OKEmpty, Zenon
  <2>3. QED
    BY <2>1, <2>2, Zenon DEF TypeOK, IRest, WritesOK, SetOpen, ChildClean,
                             WorkerReaped, InstalledAfterReset, UnsetBeforeClose
<1>12. CASE Decide
  <2>1. spc = "decide" /\ spc' \in {"done", "pipe"}
        /\ UNCHANGED <<wpc, wrSet, wrOpen, stack, installed>>
    BY <1>12, Zenon DEF Decide, Stop, Reload
  <2>2. QED
    BY <2>1, Zenon DEF IRest, WritesOK, SetOpen, ChildClean, WorkerReaped,
        InstalledAfterReset, UnsetBeforeClose
<1>13. CASE Child_unset
  <2>1. /\ wpc = "close1" /\ wpc' = "close2"
        /\ wrSet' = [wrSet EXCEPT !["wrk"] = FALSE]
        /\ UNCHANGED <<spc, wrOpen, stack, installed>>
    BY <1>13, Zenon DEF Child_unset, WrkStep, asyncsafe_close_unset
  <2>2. QED
    BY <2>1, Zenon DEF TypeOK, IRest, WritesOK, SetOpen, ChildClean,
                       WorkerReaped, InstalledAfterReset, UnsetBeforeClose
<1>14. CASE Child_close
  <2>1. /\ wpc = "close2" /\ wpc' = "setup" /\ stack["wrk"] = <<>>
        /\ wrOpen' = [wrOpen EXCEPT !["wrk"] = FALSE]
        /\ UNCHANGED <<spc, wrSet, stack, installed>>
    BY <1>14, Zenon DEF Child_close, WrkStep, Running, asyncsafe_close_release
  <2>2. OKSeq(stack'["wrk"], wrOpen'["wrk"])
    BY <2>1, OKEmpty, Zenon
  <2>3. QED
    BY <2>1, <2>2, Zenon DEF TypeOK, IRest, WritesOK, SetOpen, ChildClean,
                             WorkerReaped, InstalledAfterReset, UnsetBeforeClose
<1>15. CASE miredo_run_setup \/ Select
  <2>1. wpc \in {"setup", "select"}
        /\ UNCHANGED <<spc, installed, wrSet["sup"], wrOpen["sup"], stack["sup"]>>
    BY <1>15, Zenon DEF miredo_run_setup, Select, WorkerEnds, TypeOK
  <2>2. CASE wpc' # "exited"
    <3>1. wpc' \in {"select", "process"} /\ UNCHANGED <<wrSet, wrOpen, stack>>
      BY <1>15, <2>2, Zenon DEF miredo_run_setup, Select, WorkerEnds
    <3>2. QED
      BY <2>1, <3>1, Zenon DEF IRest, WritesOK, SetOpen, ChildClean, WorkerReaped,
        InstalledAfterReset, UnsetBeforeClose
  <2>3. CASE wpc' = "exited"
    <3>1. \E st \in Statuses : WorkerEnds(st)
      BY <1>15, <2>3, Zenon DEF miredo_run_setup, Select, Statuses
    <3>2. QED
      BY <2>1, <3>1, IRestWorkerEnds
  <2>4. QED
    BY <2>2, <2>3
<1>16. CASE WorkerKilled
  <2>1. /\ wpc \notin {"none", "exited"} /\ WorkerEnds("signaled")
        /\ UNCHANGED <<spc, installed, wrSet["sup"], wrOpen["sup"], stack["sup"]>>
    BY <1>16, Zenon DEF WorkerKilled, WorkerEnds, TypeOK
  <2>2. QED
    BY <2>1, IRestWorkerEnds
<1>18. QED
  BY <1>1, <1>2, <1>3, <1>4, <1>5, <1>6, <1>7, <1>8, <1>9, <1>10, <1>11,
     <1>12, <1>13, <1>14, <1>15, <1>16, <1>17
  DEF Next, Supervisor, Worker, Handlers, Environment

LEMMA NextIInv == IInv /\ [Next]_vars => IInv'
  BY NextTypeOK, NextIRest DEF IInv

\* The inductive invariant holds in every reachable state.
LEMMA IInvInvariant == Spec => []IInv
BY InitIInv, NextIInv, PTL DEF Spec

\* No handler, in the supervisor or in the worker, ever writes into a closed
\* signalfd[1]: asyncsafe_close() (miredo.cpp:470-478) clears the descriptor
\* before closing it, in DeinitSignals() and in the child after fork().
THEOREM HandlerWritesOpenPipeHolds == Spec => []HandlerWritesOpenPipe
<1>1. IInv => HandlerWritesOpenPipe
  BY Zenon DEF IInv, IRest, WritesOK, OKSeq, HandlerWritesOpenPipe
<1>2. QED
  BY <1>1, IInvInvariant, PTL

\* The supervisor leaves waitpid() only once the child has been reaped:
\* while (waitpid (pid, &retval, 0) == -1); at miredo.cpp:630 retries after
\* every EINTR, so a new generation never forks while a child still runs.
THEOREM WorkerReapedHolds == Spec => []WorkerReaped
<1>1. IInv => WorkerReaped
  BY DEF IInv, IRest
<1>2. QED
  BY <1>1, IInvInvariant, PTL

-----------------------------------------------------------------------------
(* The action property ExitIsFinal.                                         *)

\* Only Decide starts a generation, and only when should_exit is 0: every
\* other step of either process, of a handler or of the environment leaves
\* the generation number alone.
LEMMA GenChangesOnlyInDecide ==
    [Next]_vars /\ gen' # gen => spc = "decide" /\ shouldExit["sup"] = 0
<1> SUFFICES ASSUME [Next]_vars, gen' # gen
             PROVE  spc = "decide" /\ shouldExit["sup"] = 0
  OBVIOUS
<1>1. ~(InitSignals_pipe \/ InitSignals_reset \/ ParseConf \/ Fork
        \/ WaitPid \/ WaitPidEINTR \/ DeinitSignals_unset
        \/ DeinitSignals_close)
  BY Zenon DEF InitSignals_pipe, InitSignals_reset, ParseConf, Fork, WaitPid,
               WaitPidEINTR, DeinitSignals_unset, DeinitSignals_close,
               SupStep, Stop
<1>2. ~(Child_unset \/ Child_close \/ miredo_run_setup \/ Select
        \/ ProcessTick)
  BY Zenon DEF Child_unset, Child_close, miredo_run_setup, Select, ProcessTick,
               WrkStep
<1>3. ASSUME NEW p PROVE ~Handlers(p)
  BY Zenon DEF Handlers, handler_check, handler_write
<1>4. ~Environment
  BY Zenon DEF Environment, Kill, KillUninstalled, WorkerKilled
<1>5. ~Terminated /\ ~UNCHANGED vars
  BY Zenon DEF Terminated, vars
<1>6. Decide
  BY <1>1, <1>2, <1>3, <1>4, <1>5 DEF Next, Supervisor, Worker
<1>7. spc = "decide"
  BY <1>6 DEF Decide
<1>8. shouldExit["sup"] # 0 => gen' = gen
  BY <1>6, Zenon DEF Decide, Stop
<1>. QED
  BY <1>7, <1>8

\* Once the supervisor has recorded should_exit after InitSignals() reset
\* it, it never starts another generation (should_exit is tested before
\* should_reload and the child's status, miredo.cpp:634-664), for every
\* signal set and bound.
THEOREM ExitIsFinalHolds == Spec => ExitIsFinal
<1>1. [Next]_vars
        => [shouldExit["sup"] # 0 /\ spc \notin {"pipe", "reset"}
              => gen' = gen]_vars
  BY GenChangesOnlyInDecide
<1>. QED
  BY <1>1, PTL DEF Spec, ExitIsFinal

=============================================================================
