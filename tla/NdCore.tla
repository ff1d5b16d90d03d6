------------------------------- MODULE NdCore -------------------------------
(***************************************************************************)
(* crates/nd-core/src/main.rs: requests of the desktop are read by the     *)
(* main thread, queued in the dispatcher and run by its workers against    *)
(* the scheduler and the process manager, until the end of input stops     *)
(* nd-core. Composes Dispatcher and ManagedProcess.                        *)
(*                                                                         *)
(* A request is an operation on a permit or a child. The desktop (as       *)
(* core-child-process.ts and execution-coordinator.ts do) renews and uses  *)
(* only permits it was told of and has not given back, and writes to a     *)
(* child only after its spawn was answered. The journal may refuse any     *)
(* append (unavailable, full, or an uncertain key).                        *)
(***************************************************************************)
EXTENDS Naturals, Sequences, FiniteSets

CONSTANTS
  Procs, Permits, PermitOf, NoPermit,
  Workers, Foreground, Idle, Gone, Capacity

VARIABLES
  queue, doing, closed,                    \* Dispatcher
  lease, os, registered, waiter, told,     \* ManagedProcess
  step,       \* how far the job of each worker is
  main,       \* the main thread
  known,      \* permits the desktop holds, as far as it knows
  answered,   \* children whose spawn was answered
  late        \* history: children being spawned when shutdown cancelled

dispatcherVars == <<queue, doing, closed>>
processVars == <<lease, os, registered, waiter, told>>
desktopVars == <<known, answered>>
vars == <<dispatcherVars, processVars, desktopVars, step, main, late>>

OnProc == {"spawn", "write", "cancel"}
OnPermit == {"acquire", "heartbeat", "release"}
Request(op, x) == [op |-> op, on |-> x]
Requests ==
  {Request(op, p) : op \in OnProc, p \in Procs}
    \cup {Request(op, r) : op \in OnPermit, r \in Permits}

ASSUME NdCoreAssumption ==
  /\ PermitOf \in [Procs -> Permits \cup {NoPermit}] /\ NoPermit \notin Permits
  /\ Capacity \in [{"high", "normal", "background"} -> Nat]
  /\ Foreground \in Workers /\ Workers # {Foreground}
  /\ Idle # Gone /\ {Idle, Gone} \cap Requests = {}

(* priority_for_method.                                                    *)
LevelOf ==
  [j \in Requests |-> IF j.op \in {"spawn", "acquire"} THEN "normal" ELSE "high"]

D == INSTANCE Dispatcher WITH Jobs <- Requests
P == INSTANCE ManagedProcess

Init ==
  /\ D!Init /\ P!Init
  /\ step = [w \in Workers |-> "start"]
  /\ main = "reading"
  /\ known = {} /\ answered = {} /\ late = {}

-----------------------------------------------------------------------------
(* The desktop and the main thread.                                        *)

Wanted(j) ==
  CASE j.op = "acquire" -> lease[j.on] = "none"
    [] j.op \in {"heartbeat", "release"} -> j.on \in known
    [] j.op = "spawn" ->
         os[j.on] = "none"
           /\ (PermitOf[j.on] # NoPermit => PermitOf[j.on] \in known)
    [] j.op \in {"write", "cancel"} -> j.on \in answered

(* A permit is forgotten by the desktop when it asks for its release.      *)
Forgets(j) ==
  /\ known' = IF j.op = "release" THEN known \ {j.on} ELSE known
  /\ UNCHANGED answered

Send(j) ==
  /\ main = "reading" /\ Wanted(j)
  /\ D!Submit(j)
  /\ Forgets(j)
  /\ UNCHANGED <<processVars, step, main, late>>

(* The queue is full: a release is not tried again.                        *)
Refuse(j) ==
  /\ main = "reading" /\ Wanted(j) /\ j.op = "release"
  /\ ~D!Queued(j) /\ ~D!Running(j) /\ ~D!HasRoom(j)
  /\ Forgets(j)
  /\ UNCHANGED <<dispatcherVars, processVars, step, main, late>>

(* End of input: the desktop asks for nothing more; interrupts.cancel_all. *)
EndOfInput ==
  /\ main = "reading"
  /\ main' = "stopping"
  /\ known' = {} /\ answered' = {}
  /\ UNCHANGED <<dispatcherVars, processVars, step, late>>

BeingSpawned ==
  {p \in Procs : \E w \in Workers :
     doing[w] = Request("spawn", p) /\ step[w] \in {"admitted", "started"}}

(* Mutant: the workers are joined before the children are cancelled.       *)
JoinFirst ==
  /\ main = "stopping"
  /\ main' = "joining"
  /\ D!Close
  /\ late' = BeingSpawned
  /\ UNCHANGED <<processVars, desktopVars, step>>

(* processes.shutdown, then dispatcher.shutdown up to the joining.         *)
Stop ==
  /\ main = "stopping"
  /\ main' = "joining"
  /\ P!Cancel(registered)
  /\ D!Close
  /\ late' = BeingSpawned
  /\ UNCHANGED <<desktopVars, step>>

End ==
  /\ main = "joining"
  /\ \A w \in Workers : doing[w] = Gone
  /\ main' = "ended"
  /\ UNCHANGED <<dispatcherVars, processVars, desktopVars, step, late>>

-----------------------------------------------------------------------------
(* The workers.                                                            *)

Up == main # "ended"

TakeJob(w) ==
  /\ D!Take(w)
  /\ UNCHANGED <<processVars, desktopVars, step, main, late>>

LeaveJobs(w) ==
  /\ D!Leave(w)
  /\ UNCHANGED <<processVars, desktopVars, step, main, late>>

At(w, op, x, place) == doing[w] = Request(op, x) /\ step[w] = place

(* The job goes on at another place, or is answered.                       *)
Goto(w, place) ==
  /\ step' = [step EXCEPT ![w] = place]
  /\ UNCHANGED <<dispatcherVars, desktopVars>>
Answer(w) == D!Finish(w) /\ step' = [step EXCEPT ![w] = "start"]
AnswerOnly(w) == Answer(w) /\ UNCHANGED <<processVars, desktopVars>>

(* Mutant: requests in the queue are run although the end has come.        *)
NeverInterrupted == FALSE

(* interrupt.check of a request that has not begun: cancel_all has marked  *)
(* all of them.                                                            *)
Interrupted == main # "reading"

(* The check refuses, or the deadline of the request is over.              *)
Refused(w) ==
  /\ doing[w] \in Requests /\ step[w] = "start"
  /\ AnswerOnly(w)

Spawn(w, p) ==
  \/ /\ At(w, "spawn", p, "start") /\ ~Interrupted
     /\ IF P!Admits(p) THEN Goto(w, "admitted") /\ UNCHANGED processVars
                       ELSE AnswerOnly(w)
  \/ /\ At(w, "spawn", p, "admitted")
     /\ \/ P!Start(p) /\ Goto(w, "started")
        \/ AnswerOnly(w)
  \/ /\ At(w, "spawn", p, "started")
     /\ P!Register(p)
     /\ Answer(w)
     /\ answered' = IF Interrupted THEN {} ELSE answered \cup {p}
     /\ UNCHANGED known

(* write_all blocks while the pipe is full and the child lives. A child    *)
(* whose input was closed (process.closeStdin) is written to no more.      *)
Write(w, p) ==
  \/ /\ At(w, "write", p, "start") /\ ~Interrupted
     /\ \/ p \in registered /\ Goto(w, "blocked") /\ UNCHANGED processVars
        \/ AnswerOnly(w)
  \/ /\ At(w, "write", p, "blocked") /\ os[p] = "dead"
     /\ AnswerOnly(w)

ChildReads(w, p) == At(w, "write", p, "blocked") /\ AnswerOnly(w)

CancelProcess(w, p) ==
  /\ At(w, "cancel", p, "start") /\ ~Interrupted
  /\ P!Cancel({p}) /\ Answer(w) /\ UNCHANGED desktopVars

(* intent, scheduler.acquire, complete. If the last append fails the       *)
(* desktop is told of an error although the permit is granted.             *)
Acquire(w, r) ==
  \/ /\ At(w, "acquire", r, "start") /\ ~Interrupted
     /\ \/ Goto(w, "intended") /\ UNCHANGED processVars
        \/ AnswerOnly(w)
  \/ /\ At(w, "acquire", r, "intended")
     /\ P!Grant(r) /\ Goto(w, "granted")
  \/ /\ At(w, "acquire", r, "granted")
     /\ Answer(w)
     /\ \/ ~Interrupted /\ known' = known \cup {r}
        \/ UNCHANGED known
     /\ UNCHANGED <<processVars, answered>>

Heartbeat(w, r) ==
  /\ At(w, "heartbeat", r, "start") /\ ~Interrupted
  /\ P!Renew(r) /\ Answer(w) /\ UNCHANGED desktopVars

(* intent, cancel_permit, scheduler.release, complete. If the intent       *)
(* cannot be written nothing is done.                                      *)
Release(w, r) ==
  \/ /\ At(w, "release", r, "start") /\ ~Interrupted
     /\ \/ Goto(w, "intended") /\ UNCHANGED processVars
        \/ AnswerOnly(w)
  \/ /\ At(w, "release", r, "intended")
     /\ P!Cancel({p \in Procs : PermitOf[p] = r})
     /\ Goto(w, "canceled")
  \/ /\ At(w, "release", r, "canceled")
     /\ P!GiveBack(r)
     /\ Answer(w) /\ UNCHANGED desktopVars

(* What a worker does of its own accord.                                   *)
Work(w) ==
  /\ \/ \E p \in Procs : Spawn(w, p) \/ Write(w, p) \/ CancelProcess(w, p)
     \/ \E r \in Permits : Acquire(w, r) \/ Heartbeat(w, r) \/ Release(w, r)
     \/ Interrupted /\ Refused(w)
  /\ UNCHANGED <<main, late>>

(* What depends on others: a child reads its input, a deadline is over.    *)
MayEnd(w) ==
  /\ (\E p \in Procs : ChildReads(w, p)) \/ Refused(w)
  /\ UNCHANGED <<main, late>>

-----------------------------------------------------------------------------
(* Leases, children and their wait threads, which end with nd-core.        *)

Outside == UNCHANGED <<dispatcherVars, desktopVars, step, main, late>>
LeaseLapses(r) == Up /\ P!Lapse(r) /\ Outside
ChildExits(p) == P!Exits(p) /\ Outside
Wait(p) == Up /\ (P!WaiterCancels(p) \/ P!WaiterReaps(p)) /\ Outside

Next ==
  \/ \E j \in Requests : Send(j) \/ Refuse(j)
  \/ \E w \in Workers : TakeJob(w) \/ LeaveJobs(w) \/ Work(w) \/ MayEnd(w)
  \/ \E r \in Permits : LeaseLapses(r)
  \/ \E p \in Procs : ChildExits(p) \/ Wait(p)
  \/ EndOfInput \/ Stop \/ End

(* Threads go on and clocks run. No child needs to read, exit or be asked  *)
(* to; the desktop needs not send anything nor end.                        *)
Fairness ==
  /\ \A w \in Workers : WF_vars(TakeJob(w) \/ LeaveJobs(w) \/ Work(w))
  /\ \A r \in Permits : WF_vars(LeaseLapses(r))
  /\ \A p \in Procs : WF_vars(Wait(p))
  /\ WF_vars(Stop \/ End)

Spec == Init /\ [][Next]_vars
FairSpec == Spec /\ Fairness

-----------------------------------------------------------------------------
(* The variables have their types, those of the dispatcher and of the      *)
(* process manager included.                                               *)
TypeOK ==
  /\ D!TypeOK /\ P!ProcessTypeOK
  /\ step \in [Workers -> {"start", "admitted", "started", "blocked",
                           "intended", "granted", "canceled"}]
  /\ main \in {"reading", "stopping", "joining", "ended"}
  /\ known \subseteq Permits /\ answered \subseteq Procs /\ late \subseteq Procs

(* Between the start of a child and its end somebody answers for it: the   *)
(* spawn that is about to register it (process.rs), or its registration    *)
(* and a wait thread that watches it, whatever cancels, releases and       *)
(* shutdowns happen in between.                                            *)
Watched ==
  \A p \in Procs : os[p] = "alive" =>
    \/ p \in registered /\ waiter[p] = "watching"
    \/ \E w \in Workers : At(w, "spawn", p, "started")

(* A wait thread (process.rs) ends only for a child that is dead and with  *)
(* its process.exit sent: until then its record stays in the registry,     *)
(* whoever kills the child.                                                *)
ExitReported ==
  \A p \in Procs :
    /\ waiter[p] = "watching" => p \in registered
    /\ waiter[p] = "done" => os[p] = "dead" /\ p \in told

(* A write that a living child holds up can be ended from outside: the     *)
(* child is registered and watched, so that cancel and the loss of its     *)
(* permit reach it. While the workers are joined none is held up at all:   *)
(* AppState::shutdown has killed every child that is written to, also by   *)
(* writes accepted before the end of input.                                *)
WritersFreed ==
  \A w \in Workers, p \in Procs :
    At(w, "write", p, "blocked") /\ os[p] = "alive" =>
      main \in {"reading", "stopping"} /\ p \in registered /\ waiter[p] = "watching"

(* From its start to the report of its exit a child is in somebody's hands,*)
(* and whom it holds up it does not hold up for good (process.rs).         *)
Accounted == Watched /\ ExitReported /\ WritersFreed

(* A child that is alive at the end was being spawned when shutdown        *)
(* cancelled the others (AppState::shutdown).                              *)
LeftAreLate == main = "ended" => \A p \in Procs : os[p] = "alive" => p \in late

(* At the end every request that was accepted has been taken up: a worker  *)
(* leaves only queues it has emptied, and the reserved one is not alone    *)
(* (Dispatcher::new and shutdown).                                         *)
AllServed == main = "ended" => \A l \in D!Levels : queue[l] = <<>>

(* nd-core leaves neither a child nor a request behind, but for a child    *)
(* that shutdown overtakes.                                                *)
StoppedLeavesNothing == LeftAreLate /\ AllServed

(* A child does not outlive its permit (cancel_permit and the wait loop),  *)
(* also one whose spawn passed the check before the permit went.           *)
DiesWithPermit ==
  \A p \in {c \in Procs : PermitOf[c] # NoPermit} :
    (os[p] = "alive" /\ ~P!Admits(p)) ~> (os[p] = "dead" \/ main = "ended")

(* Every child that was registered and died is reported by process.exit    *)
(* (on which core-child-process.ts settles), whoever killed it.            *)
ExitIsTold ==
  LET Untold == {p \in Procs : waiter[p] # "none" /\ os[p] = "dead" /\ p \notin told}
  IN Untold # {} ~> Untold = {} \/ main = "ended"

(* The calls that keep and return permits are served (Dispatcher::new)     *)
(* although writes to children that do not read hold workers, the reserved *)
(* one too: without heartbeats a lease lapses, its children are killed and *)
(* their writers freed. Children without a permit must be fewer than the   *)
(* workers.                                                                *)
ControlServed ==
  \A r \in Permits : \A op \in {"heartbeat", "release"} :
    D!Queued(Request(op, r)) ~> ~D!Queued(Request(op, r))

(* The sidecar ends when its input does (main), and not before it has run  *)
(* or refused all it accepted: no job, also no write to a child that does  *)
(* not read, holds the joining of the workers up.                          *)
ShutdownEnds ==
  main = "stopping" ~> main = "ended" /\ \A l \in D!Levels : queue[l] = <<>>
=============================================================================
