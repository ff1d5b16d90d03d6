-------------------------- MODULE CoreClientProofs --------------------------
(***************************************************************************)
(* Proofs about CoreClient for any callers, any number of generations and  *)
(* any faults.                                                             *)
(***************************************************************************)
EXTENDS CoreClient, TLAPS

ClientTypes ==
  /\ gen \in Generations /\ child \in {0, gen}
  /\ proc \in [Generations -> {"none", "alive", "dead", "gone"}]
  /\ told \subseteq 1 .. gen
  /\ healthy \in BOOLEAN /\ starting \in BOOLEAN /\ unavailable \in BOOLEAN
  /\ closing \in BOOLEAN /\ closeWaits \in BOOLEAN /\ disturbed \in BOOLEAN
  /\ req \in [Requests -> {"idle", "waits", "sent"}]
  /\ sentIn \in [Requests -> Int]
  /\ timer \in {"off", "armed", "waits"}
  /\ attempts \in 0 .. MaxAttempts
  /\ announced \subseteq Generations /\ ready \subseteq 1 .. gen
  /\ stable \in 0 .. MaxGen /\ restarts \in Nat
  /\ \A r \in Requests : req[r] = "waits" => starting

(* What the restart timer has used of the budget, and is about to use, has *)
(* been counted as an attempt.                                             *)
BudgetCounted == restarts + (IF timer = "armed" THEN 1 ELSE 0) <= attempts

(* While no frame was unreadable and close() was not called, a start that  *)
(* is at work is the restart timer's or has it still ahead; a sidecar that *)
(* is neither healthy nor starting has exited and is about to be restarted,*)
(* unless the client has given up; and what exited was announced.          *)
Undisturbed ==
  /\ ~closing /\ ~closeWaits
  /\ starting => timer # "off" /\ ~healthy /\ ~unavailable
  /\ healthy \/ starting => child = gen /\ gen \notin told
  /\ ~healthy /\ ~starting /\ ~unavailable => proc[gen] = "gone" /\ timer = "armed"
  /\ proc[gen] = "gone" => ~healthy /\ ~starting /\ gen \in announced
  /\ \A r \in Requests : req[r] = "sent" => healthy /\ sentIn[r] = gen
  /\ \A g \in Generations : proc[g] = "alive" /\ g # gen => g \in told
  /\ \A g \in ready : g < gen => g \in announced

IInv == ClientTypes /\ BudgetCounted /\ (~disturbed => Undisturbed)

LEMMA InvInit == Init => IInv
<1> SUFFICES ASSUME Init PROVE IInv
  OBVIOUS
<1>1. 1 \in Generations
  BY CoreClientAssumption DEF Generations
<1>2. ClientTypes
  <2>1. proc \in [Generations -> {"none", "alive", "dead", "gone"}]
    BY DEF Init
  <2>2. gen \in Generations /\ told \subseteq 1 .. gen /\ ready \subseteq 1 .. gen
    BY <1>1 DEF Init
  <2>3. stable \in 0 .. MaxGen
    BY CoreClientAssumption DEF Init
  <2>4. attempts \in 0 .. MaxAttempts
    BY DEF Init, MaxAttempts
  <2>5. req \in [Requests -> {"idle", "waits", "sent"}] /\ sentIn \in [Requests -> Int]
    BY DEF Init
  <2>6. \A r \in Requests : req[r] # "waits"
    BY DEF Init
  <2>7. /\ child \in {0, gen} /\ announced \subseteq Generations
        /\ {healthy, starting, unavailable, closing, closeWaits, disturbed} \subseteq BOOLEAN
        /\ timer \in {"off", "armed", "waits"} /\ restarts \in Nat
    BY DEF Init
  <2> QED
    BY <2>1, <2>2, <2>3, <2>4, <2>5, <2>6, <2>7 DEF ClientTypes
<1>4. BudgetCounted
  BY DEF Init, BudgetCounted
<1>3. Undisturbed
  BY <1>1 DEF Init, Undisturbed, Generations
<1> QED
  BY <1>2, <1>3, <1>4 DEF IInv

-----------------------------------------------------------------------------
(* Launching a process.                                                    *)

LEMMA SpawnKeeps ==
  ASSUME IInv, Spawn,
         UNCHANGED <<told, healthy, attempts, unavailable, stable, closeWaits,
                     announced, ready, disturbed>>,
         ~disturbed => timer' # "off",
         timer' \in {"armed", "waits", "off"},
         \/ timer' = timer /\ restarts' = restarts
         \/ timer = "armed" /\ timer' = "waits" /\ restarts' = restarts + 1,
         sentIn' = sentIn,
         req' = req \/ \E r \in Requests : req' = [req EXCEPT ![r] = "waits"]
  PROVE  IInv'
<1> USE DEF IInv, Spawn, Usable
<1>0. gen' = gen + 1 /\ gen' \in Generations /\ gen \in Nat /\ MaxGen \in Nat
  BY CoreClientAssumption DEF ClientTypes, Generations
<1>1. ClientTypes'
  <2>1. proc' \in [Generations -> {"none", "alive", "dead", "gone"}]
    BY DEF ClientTypes
  <2>2. told' \subseteq 1 .. gen' /\ ready' \subseteq 1 .. gen'
    BY <1>0 DEF ClientTypes, Generations
  <2>3. req' \in [Requests -> {"idle", "waits", "sent"}] /\ starting'
    BY DEF ClientTypes
  <2>4. restarts' \in Nat /\ timer' \in {"off", "armed", "waits"}
    BY DEF ClientTypes
  <2> QED
    BY <1>0, <2>1, <2>2, <2>3, <2>4 DEF ClientTypes
<1>2. BudgetCounted'
  BY DEF ClientTypes, BudgetCounted
<1>3. ASSUME ~disturbed' PROVE Undisturbed'
  <2>1. Undisturbed /\ ~disturbed
    BY <1>3
  <2>2. ~healthy /\ ~starting /\ ~unavailable /\ proc[gen] = "gone"
    BY <2>1 DEF Undisturbed, ClientTypes, Generations
  <2>3. gen' \notin told
    BY <1>0 DEF ClientTypes
  <2>4. \A g \in ready' : g < gen' => g \in announced'
    BY <1>0, <2>1, <2>2 DEF Undisturbed, ClientTypes, Generations
  <2>5. \A r \in Requests : req'[r] # "sent"
    BY <2>1, <2>2 DEF Undisturbed, ClientTypes
  <2>6. \A g \in Generations : proc'[g] = "alive" /\ g # gen' => g \in told'
    BY <1>0, <2>1, <2>2 DEF Undisturbed, ClientTypes, Generations
  <2>7. proc'[gen'] = "alive"
    BY <1>0 DEF ClientTypes
  <2> QED
    BY <2>1, <2>2, <2>3, <2>4, <2>5, <2>6, <2>7 DEF Undisturbed
<1> QED
  BY <1>1, <1>2, <1>3

LEMMA RequestKeeps ==
  ASSUME IInv, NEW r \in Requests, Request(r)
  PROVE  IInv'
<1>1. CASE Usable /\ UNCHANGED <<gen, proc, child, starting, closing>>
  <2>1. req' = [req EXCEPT ![r] = "sent"] /\ sentIn' = [sentIn EXCEPT ![r] = gen]
    BY <1>1 DEF Request, Spawn
  <2> QED
    BY <1>1, <2>1 DEF Request, IInv, ClientTypes, BudgetCounted, Undisturbed,
                      Usable, Generations
<1>2. CASE starting /\ UNCHANGED <<gen, proc, child, starting, closing, sentIn>>
           /\ req' = [req EXCEPT ![r] = "waits"]
  BY <1>2 DEF Request, IInv, ClientTypes, BudgetCounted, Undisturbed, Generations
<1>3. CASE Spawn /\ req' = [req EXCEPT ![r] = "waits"] /\ UNCHANGED sentIn
  <2>1. UNCHANGED <<told, healthy, attempts, unavailable, timer, stable,
                    closeWaits, announced, ready, restarts, disturbed>>
    BY DEF Request
  <2>2. timer \in {"off", "armed", "waits"}
    BY DEF IInv, ClientTypes
  <2>3. ~disturbed => timer # "off"
    BY <1>3 DEF IInv, ClientTypes, Undisturbed, Spawn, Usable, Generations
  <2> QED
    BY <1>3, <2>1, <2>2, <2>3, SpawnKeeps
<1> QED
  BY <1>1, <1>2, <1>3 DEF Request

LEMMA RestartTimerKeeps == IInv /\ RestartTimer => IInv'
<1> SUFFICES ASSUME IInv, RestartTimer PROVE IInv'
  OBVIOUS
<1>0. timer = "armed"
  BY DEF RestartTimer
<1>1. CASE timer' = "off" /\ (closing \/ Usable \/ unavailable)
           /\ UNCHANGED <<gen, proc, child, starting, closing, unavailable, restarts>>
  BY <1>0, <1>1 DEF RestartTimer, IInv, ClientTypes, BudgetCounted, Undisturbed,
                    Usable, MaxAttempts
<1>2. CASE timer' = "waits" /\ starting
           /\ UNCHANGED <<gen, proc, child, starting, closing, unavailable, restarts>>
  BY <1>0, <1>2 DEF RestartTimer, IInv, ClientTypes, BudgetCounted, Undisturbed,
                    MaxAttempts
<1>3. CASE Spawn /\ timer' = "waits" /\ restarts' = restarts + 1 /\ UNCHANGED unavailable
  <2>1. UNCHANGED <<told, healthy, req, sentIn, attempts, stable, closeWaits,
                    announced, ready, disturbed>>
    BY DEF RestartTimer
  <2> QED
    BY <1>0, <1>3, <2>1, SpawnKeeps
<1> QED
  BY <1>1, <1>2, <1>3 DEF RestartTimer

-----------------------------------------------------------------------------
(* The other turns of the event loop.                                      *)

LEMMA HandshakeKeeps == IInv /\ (HandshakeOK \/ HandshakeFails) => IInv'
<1> SUFFICES ASSUME IInv, HandshakeOK \/ HandshakeFails PROVE IInv'
  OBVIOUS
<1> USE DEF IInv
<1>1. CASE HandshakeOK
  <2>1. ClientTypes'
    <3>1. /\ req' \in [Requests -> {"idle", "waits", "sent"}]
          /\ sentIn' \in [Requests -> Int]
          /\ \A r \in Requests : req'[r] # "waits"
      BY <1>1 DEF HandshakeOK, ClientTypes, Generations
    <3>2. attempts' \in 0 .. MaxAttempts /\ stable' \in 0 .. MaxGen
      BY <1>1 DEF HandshakeOK, ClientTypes, AttemptsAfterHandshake, Generations
    <3>3. ready' \subseteq 1 .. gen' /\ gen' = gen
      BY <1>1 DEF HandshakeOK, ClientTypes, Generations
    <3> QED
      BY <1>1, <3>1, <3>2, <3>3 DEF HandshakeOK, ClientTypes
  <2>2. BudgetCounted'
    BY <1>1 DEF HandshakeOK, BudgetCounted, AttemptsAfterHandshake, ClientTypes
  <2>3. ASSUME ~disturbed' PROVE Undisturbed'
    BY <1>1, <2>3 DEF HandshakeOK, Undisturbed, ClientTypes, Generations
  <2> QED
    BY <2>1, <2>2, <2>3
<1>2. CASE HandshakeFails
  <2>1. ClientTypes'
    <3>1. told' \subseteq 1 .. gen' /\ gen' = gen
      BY <1>2 DEF HandshakeFails, ClientTypes, Generations
    <3>2. /\ req' \in [Requests -> {"idle", "waits", "sent"}]
          /\ \A r \in Requests : req'[r] # "waits"
      BY <1>2 DEF HandshakeFails, ClientTypes
    <3> QED
      BY <1>2, <3>1, <3>2 DEF HandshakeFails, ClientTypes, UnavailableAfterFailedStart
  <2>2. BudgetCounted'
    BY <1>2 DEF HandshakeFails, BudgetCounted, ClientTypes
  <2>3. ASSUME ~disturbed' PROVE Undisturbed'
    BY <1>2, <2>3 DEF HandshakeFails, Undisturbed, ClientTypes, UnavailableAfterFailedStart
  <2> QED
    BY <2>1, <2>2, <2>3
<1> QED
  BY <1>1, <1>2

LEMMA ExitKeeps == IInv /\ Exit => IInv'
<1> SUFFICES ASSUME IInv, Exit PROVE IInv'
  OBVIOUS
<1> USE DEF IInv
<1>0. /\ req' = [r \in Requests |-> "idle"]
      /\ proc' = [proc EXCEPT ![gen] = "gone"]
      /\ child' = 0 /\ healthy' = FALSE /\ stable' = 0 /\ starting' = FALSE
      /\ UNCHANGED <<gen, told, sentIn, closing, closeWaits, ready, restarts, disturbed>>
  BY DEF Exit, Rejected
<1>1. /\ timer' \in {"off", "armed", "waits"} /\ unavailable' \in BOOLEAN
      /\ attempts' \in 0 .. MaxAttempts /\ announced' \subseteq Generations
      /\ ~closing => announced' = announced \cup {gen}
                      /\ (unavailable' \/ timer' = "armed")
  <2> USE DEF ClientTypes, UnavailableAfterFailedStart, Announced, MaxAttempts
  <2>1. CASE closing /\ UNCHANGED <<attempts, announced>>
             /\ timer' = (IF timer = "waits" THEN "off" ELSE timer)
             /\ unavailable' = UnavailableAfterFailedStart
    BY <2>1
  <2>2. CASE ~closing /\ attempts < MaxAttempts /\ announced' = Announced
             /\ attempts' = attempts + 1 /\ timer' = "armed"
             /\ unavailable' = UnavailableAfterFailedStart
    BY <2>2
  <2>3. CASE ~closing /\ announced' = Announced /\ unavailable' = TRUE
             /\ timer' = (IF timer = "waits" THEN "off" ELSE timer)
             /\ UNCHANGED attempts
    BY <2>3
  <2> QED
    BY <2>1, <2>2, <2>3 DEF Exit
<1>2. ClientTypes'
  <2>1. proc' \in [Generations -> {"none", "alive", "dead", "gone"}]
    BY <1>0 DEF ClientTypes
  <2>2. /\ req' \in [Requests -> {"idle", "waits", "sent"}]
        /\ \A r \in Requests : req'[r] # "waits"
    BY <1>0
  <2>3. stable' \in 0 .. MaxGen
    BY <1>0, CoreClientAssumption
  <2> QED
    BY <1>0, <1>1, <2>1, <2>2, <2>3 DEF ClientTypes
<1>3. BudgetCounted'
  BY <1>0 DEF Exit, BudgetCounted, ClientTypes, MaxAttempts
<1>4. ASSUME ~disturbed' PROVE Undisturbed'
  BY <1>0, <1>1, <1>4 DEF Undisturbed, ClientTypes, Generations
<1> QED
  BY <1>2, <1>3, <1>4

LEMMA DisturbingKeeps == IInv /\ (ProtocolFault \/ Close \/ CloseEnds) => IInv'
<1> SUFFICES ASSUME IInv, ProtocolFault \/ Close \/ CloseEnds PROVE IInv'
  OBVIOUS
<1>0. ASSUME child # 0 PROVE told \cup {child} \subseteq 1 .. gen
  BY <1>0 DEF IInv, ClientTypes, Generations
<1> USE DEF IInv
<1>1. CASE ProtocolFault
  <2> USE <1>1 DEF ProtocolFault, RejectPending, Rejected, UnavailableAfterFailedStart
  <2>1. told' \subseteq 1 .. gen' /\ gen' = gen
    BY <1>0
  <2>2. /\ req' \in [Requests -> {"idle", "waits", "sent"}]
        /\ \A r \in Requests : req'[r] # "waits"
    OBVIOUS
  <2>3. timer' \in {"off", "armed", "waits"} /\ unavailable' \in BOOLEAN
    BY DEF ClientTypes
  <2>4. ClientTypes'
    BY <2>1, <2>2, <2>3 DEF ClientTypes
  <2>5. BudgetCounted'
    BY DEF BudgetCounted, ClientTypes
  <2> QED
    BY <2>4, <2>5
<1>2. CASE Close
  <2>1. told' \subseteq 1 .. gen' /\ gen' = gen /\ closeWaits' \in BOOLEAN
    BY <1>0, <1>2 DEF Close, ClientTypes
  <2>2. ClientTypes'
    <3>1. /\ child' = 0 /\ stable' = 0 /\ healthy' = FALSE /\ closing' = TRUE
          /\ disturbed' = TRUE
          /\ UNCHANGED <<gen, proc, starting, req, sentIn, attempts, unavailable, timer,
                         announced, ready, restarts>>
      BY <1>2 DEF Close
    <3>2. stable' \in 0 .. MaxGen
      BY <3>1, CoreClientAssumption
    <3> QED
      BY <2>1, <3>1, <3>2 DEF ClientTypes
  <2>3. BudgetCounted'
    BY <1>2 DEF Close, BudgetCounted
  <2> QED
    BY <1>2, <2>2, <2>3 DEF Close
<1>3. CASE CloseEnds
  <2>1. disturbed
    BY <1>3 DEF CloseEnds, Undisturbed
  <2> QED
    BY <1>3, <2>1 DEF CloseEnds, RejectPending, Rejected, UnavailableAfterFailedStart,
                      ClientTypes, BudgetCounted
<1> QED
  BY <1>1, <1>2, <1>3

LEMMA QuietKeeps ==
  ASSUME IInv,
         \/ \E r \in Requests : Settle(r)
         \/ \E g \in Generations : ProcessDies(g) \/ LateExit(g)
         \/ StableTimer
  PROVE  IInv'
<1> USE DEF IInv, ClientTypes, BudgetCounted, Generations
<1>1. ASSUME NEW r \in Requests, Settle(r) PROVE IInv'
  BY <1>1 DEF Settle, Undisturbed
<1>2. ASSUME NEW g \in Generations, ProcessDies(g) \/ LateExit(g) PROVE IInv'
  <2>1. /\ \E p \in {"dead", "gone"} : proc' = [proc EXCEPT ![g] = p]
        /\ proc[g] # "gone" /\ (g = gen => proc'[g] = "dead")
        /\ UNCHANGED <<gen, told, child, healthy, starting, req, sentIn, attempts,
                       unavailable, timer, stable, closing, closeWaits, announced,
                       ready, restarts, disturbed>>
    BY <1>2 DEF ProcessDies, LateExit
  <2>2. proc' \in [Generations -> {"none", "alive", "dead", "gone"}]
    BY <2>1
  <2>3. ClientTypes' /\ BudgetCounted'
    BY <2>1, <2>2
  <2>4. ASSUME ~disturbed' PROVE Undisturbed'
    <3>1. Undisturbed /\ ~disturbed
      BY <2>1, <2>4
    <3>2. \A h \in Generations : proc'[h] = "alive" => proc[h] = "alive"
      BY <2>1
    <3>3. proc'[gen] = "gone" <=> proc[gen] = "gone"
      BY <2>1
    <3> QED
      BY <2>1, <3>1, <3>2, <3>3 DEF Undisturbed
  <2> QED
    BY <2>3, <2>4
<1>3. CASE StableTimer
  <2>1. /\ UNCHANGED <<gen, proc, told, child, healthy, starting, req, sentIn, timer,
                      closing, closeWaits, announced, ready, disturbed>>
        /\ timer # "armed" /\ stable' = 0
        /\ \/ attempts' = 0 /\ unavailable' = FALSE /\ restarts' = 0 /\ healthy
           \/ UNCHANGED <<attempts, unavailable, restarts>>
    BY <1>3 DEF StableTimer
  <2>2. attempts' \in 0 .. MaxAttempts /\ stable' \in 0 .. MaxGen /\ restarts' \in Nat
    BY <2>1, CoreClientAssumption DEF MaxAttempts
  <2>3. ClientTypes'
    BY <2>1, <2>2
  <2>4. BudgetCounted'
    BY <2>1
  <2>5. ASSUME ~disturbed' PROVE Undisturbed'
    BY <2>1, <2>5 DEF Undisturbed
  <2> QED
    BY <2>3, <2>4, <2>5
<1> QED
  BY <1>1, <1>2, <1>3

-----------------------------------------------------------------------------

LEMMA InvStep == IInv /\ [Next]_vars => IInv'
<1> SUFFICES ASSUME IInv, [Next]_vars PROVE IInv'
  OBVIOUS
<1>1. CASE UNCHANGED vars
  BY <1>1 DEF vars, IInv, ClientTypes, BudgetCounted, Undisturbed
<1> QED
  BY <1>1, RequestKeeps, RestartTimerKeeps, HandshakeKeeps, ExitKeeps,
     DisturbingKeeps, QuietKeeps DEF Next

LEMMA InvHolds == Spec => []IInv
  BY InvInit, InvStep, PTL DEF Spec

(* Types; and an answer that is waited for was asked of the process whose  *)
(* answers are read, until a frame was unreadable or close() was called.   *)
THEOREM CoreClientTypeOK == Spec => []TypeOK
<1>1. IInv => TypeOK
  <2> SUFFICES ASSUME IInv PROVE TypeOK
    OBVIOUS
  <2>1. told \subseteq Generations /\ ready \subseteq Generations
    BY CoreClientAssumption DEF IInv, ClientTypes, Generations
  <2>2. \A r \in Requests : req[r] = "sent" => sentIn[r] = gen \/ disturbed
    BY DEF IInv, Undisturbed
  <2> QED
    BY <2>1, <2>2 DEF IInv, ClientTypes, TypeOK
<1> QED
  BY <1>1, InvHolds, PTL

(* handleExit and armStableRestartReset: one automatic restart until a     *)
(* restarted core has been stable, with any deaths, faults and callers.    *)
THEOREM OneAutomaticRestart == Spec => []RestartBudget
<1>1. IInv => RestartBudget
  BY DEF IInv, ClientTypes, BudgetCounted, RestartBudget, MaxAttempts
<1> QED
  BY <1>1, InvHolds, PTL

(* The newest process is the child until it ends or is told to end. *)
ChildKept == proc[gen] = "alive" /\ gen \notin told => child = gen

LEMMA ChildStays == IInv /\ ChildKept /\ [Next]_vars => ChildKept'
<1> SUFFICES ASSUME IInv, ChildKept, [Next]_vars PROVE ChildKept'
  OBVIOUS
<1> USE DEF ChildKept
<1>0. /\ proc \in [Generations -> {"none", "alive", "dead", "gone"}]
      /\ gen \in Generations /\ child \in {0, gen}
  BY DEF IInv, ClientTypes
<1>1. CASE Spawn
  BY <1>1 DEF Spawn
<1>2. CASE UNCHANGED <<gen, proc, told, child>>
  BY <1>2
<1>3. ASSUME NEW g \in Generations, ProcessDies(g) \/ LateExit(g) PROVE ChildKept'
  BY <1>0, <1>3 DEF ProcessDies, LateExit
<1>4. CASE HandshakeFails \/ Exit
  BY <1>0, <1>4 DEF HandshakeFails, Exit
<1>5. CASE ProtocolFault \/ Close
  BY <1>0, <1>5 DEF ProtocolFault, Close
<1>6. ASSUME NEW r \in Requests, Request(r) \/ Settle(r) PROVE ChildKept'
  BY <1>1, <1>2, <1>6 DEF Request, Settle
<1>7. CASE RestartTimer
  BY <1>1, <1>2, <1>7 DEF RestartTimer
<1>8. CASE HandshakeOK \/ StableTimer \/ CloseEnds \/ UNCHANGED vars
  BY <1>2, <1>8 DEF HandshakeOK, StableTimer, CloseEnds, vars
<1> QED
  BY <1>3, <1>4, <1>5, <1>6, <1>7, <1>8 DEF Next

(* No process is started beside one that lives and was not told to end,    *)
(* and the newest is not dropped for the late exit of another.             *)
THEOREM OneSidecar == Spec => []SingleCore
<1>1. Init => ChildKept
  BY DEF Init, ChildKept
<1>2. IInv /\ ChildKept => SingleCore
  BY DEF IInv, Undisturbed, ChildKept, SingleCore
<1> QED
  BY <1>1, <1>2, ChildStays, InvHolds, PTL DEF Spec

(* The loss of a generation is announced before its successor is used.     *)
THEOREM LossIsAnnounced == Spec => []LossAnnouncedUndisturbed
<1>1. IInv => LossAnnouncedUndisturbed
  BY DEF IInv, Undisturbed, LossAnnouncedUndisturbed
<1> QED
  BY <1>1, InvHolds, PTL
=============================================================================
