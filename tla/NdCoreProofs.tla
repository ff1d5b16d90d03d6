---------------------------- MODULE NdCoreProofs ----------------------------
(***************************************************************************)
(* Proofs about NdCore for any number of workers, children and permits and *)
(* any capacities of the queues.                                           *)
(***************************************************************************)
EXTENDS NdCore, TLAPS

-----------------------------------------------------------------------------
(* Requests and queues.                                                    *)

LEMMA RequestsAreJobs ==
  /\ \A op \in OnProc, p \in Procs : Request(op, p) \in Requests
  /\ \A op \in OnPermit, r \in Permits : Request(op, r) \in Requests
  /\ \A j \in Requests : LevelOf[j] \in D!Levels
  /\ \A j \in Requests : j # Idle /\ j # Gone
BY NdCoreAssumption DEF Requests, LevelOf, D!Levels

(* Two requests are the same if they ask the same of the same. *)
LEMMA RequestsDiffer ==
  ASSUME NEW op, NEW x, NEW op2, NEW y, Request(op, x) = Request(op2, y)
  PROVE  op = op2 /\ x = y
BY DEF Request

-----------------------------------------------------------------------------
(* Types of the parts.                                                     *)

LEMMA SubmitType ==
  ASSUME D!TypeOK, NEW j \in Requests, D!Submit(j)
  PROVE  D!TypeOK'
<1> DEFINE l == LevelOf[j]
<1>1. l \in D!Levels /\ Capacity[l] \in Nat
  BY RequestsAreJobs, NdCoreAssumption DEF D!Levels
<1> HIDE DEF l
<1>2. queue' = [queue EXCEPT ![l] = Append(@, j)] /\ Len(queue[l]) < Capacity[l]
  BY DEF D!Submit, D!HasRoom, l
<1>3. queue[l] \in Seq(Requests)
  BY <1>1 DEF D!TypeOK
<1>4. Append(queue[l], j) \in Seq(Requests) /\ Len(Append(queue[l], j)) = Len(queue[l]) + 1
  BY <1>3
<1>5. Len(queue[l]) \in Nat
  BY <1>3
<1> QED
  BY <1>1, <1>2, <1>3, <1>4, <1>5 DEF D!TypeOK, D!Submit

LEMMA TakeType ==
  ASSUME D!TypeOK, NEW w \in Workers, D!Take(w)
  PROVE  D!TypeOK' /\ doing'[w] \in Requests /\ doing[w] = Idle
           /\ \A v \in Workers \ {w} : doing'[v] = doing[v]
<1>1. PICK l \in D!Levels :
        /\ doing[w] = Idle
        /\ D!PopsFrom(w, l)
        /\ doing' = [doing EXCEPT ![w] = Head(queue[l])]
        /\ queue' = [queue EXCEPT ![l] = Tail(@)]
        /\ UNCHANGED closed
  BY DEF D!Take
<1>2. queue[l] \in Seq(Requests) /\ queue[l] # <<>>
  BY <1>1 DEF D!TypeOK, D!PopsFrom
<1>3. /\ Head(queue[l]) \in Requests
      /\ Tail(queue[l]) \in Seq(Requests)
      /\ Len(Tail(queue[l])) = Len(queue[l]) - 1
  BY <1>2
<1>4. Len(queue[l]) <= Capacity[l] /\ Capacity[l] \in Nat /\ Len(queue[l]) \in Nat
  BY <1>2, NdCoreAssumption DEF D!TypeOK, D!Levels
<1> QED
  BY <1>1, <1>3, <1>4 DEF D!TypeOK

LEMMA FinishType ==
  ASSUME D!TypeOK, NEW w \in Workers, D!Finish(w)
  PROVE  D!TypeOK'
BY DEF D!TypeOK, D!Finish

LEMMA CancelType ==
  ASSUME P!ProcessTypeOK, NEW S, P!Cancel(S)
  PROVE  P!ProcessTypeOK'
BY DEF P!ProcessTypeOK, P!Cancel

LEMMA LeaseType ==
  ASSUME P!ProcessTypeOK, NEW r \in Permits,
         P!Grant(r) \/ P!Renew(r) \/ P!GiveBack(r) \/ P!Lapse(r)
  PROVE  P!ProcessTypeOK'
BY DEF P!ProcessTypeOK, P!Grant, P!Renew, P!GiveBack, P!Lapse, P!SetLease, P!HasPermit

LEMMA ProcessType ==
  ASSUME P!ProcessTypeOK, NEW p \in Procs,
         \/ P!Start(p) \/ P!Register(p) \/ P!Exits(p)
         \/ P!WaiterCancels(p) \/ P!WaiterReaps(p)
  PROVE  P!ProcessTypeOK'
BY CancelType
DEF P!ProcessTypeOK, P!Start, P!Register, P!Exits, P!WaiterCancels, P!WaiterReaps

-----------------------------------------------------------------------------
(* What a job of a worker does, in the terms of the parts.                 *)

(* The places of a job. *)
Places == {"start", "admitted", "started", "blocked", "intended", "granted", "canceled"}

(* Every step of a worker moves its own job on or ends it, and does one of *)
(* a few things to leases and children.                                    *)
Moves(w) ==
  /\ \/ \E place \in Places : Goto(w, place)
     \/ /\ D!Finish(w) /\ step' = [step EXCEPT ![w] = "start"]
        /\ known' \in {known} \cup {known \cup {r} : r \in Permits}
        /\ answered' \in {answered, {}} \cup {answered \cup {p} : p \in Procs}
  /\ UNCHANGED <<main, late>>

Touches ==
  \/ UNCHANGED processVars
  \/ \E p \in Procs : P!Start(p) \/ P!Register(p)
  \/ \E r \in Permits : P!Grant(r) \/ P!Renew(r) \/ P!GiveBack(r)
  \/ \E S \in SUBSET Procs : P!Cancel(S)

LEMMA WorkerMoves ==
  ASSUME NEW w \in Workers, Work(w) \/ MayEnd(w)
  PROVE  Moves(w) /\ Touches
<1>1. ASSUME NEW p \in Procs, Spawn(w, p), UNCHANGED <<main, late>>
      PROVE  Moves(w) /\ Touches
  BY <1>1 DEF Spawn, Moves, Touches, Places, Goto, AnswerOnly, Answer, desktopVars
<1>2. ASSUME NEW p \in Procs, Write(w, p) \/ ChildReads(w, p), UNCHANGED <<main, late>>
      PROVE  Moves(w) /\ Touches
  BY <1>2 DEF Write, ChildReads, Moves, Touches, Places, Goto, AnswerOnly, Answer, desktopVars
<1>3. ASSUME NEW p \in Procs, CancelProcess(w, p), UNCHANGED <<main, late>>
      PROVE  Moves(w) /\ Touches
  <2>1. {p} \in SUBSET Procs
    OBVIOUS
  <2> QED
    BY <1>3, <2>1 DEF CancelProcess, Moves, Touches, Answer, desktopVars
<1>4. ASSUME NEW r \in Permits, Acquire(w, r), UNCHANGED <<main, late>>
      PROVE  Moves(w) /\ Touches
  BY <1>4 DEF Acquire, Moves, Touches, Places, Goto, AnswerOnly, Answer, desktopVars
<1>5. ASSUME NEW r \in Permits, Heartbeat(w, r), UNCHANGED <<main, late>>
      PROVE  Moves(w) /\ Touches
  BY <1>5 DEF Heartbeat, Moves, Touches, Answer, desktopVars
<1>6. ASSUME NEW r \in Permits, Release(w, r), UNCHANGED <<main, late>>
      PROVE  Moves(w) /\ Touches
  <2>1. {p \in Procs : PermitOf[p] = r} \in SUBSET Procs
    OBVIOUS
  <2> QED
    BY <1>6, <2>1 DEF Release, Moves, Touches, Places, Goto, AnswerOnly, Answer, desktopVars
<1>7. ASSUME Refused(w), UNCHANGED <<main, late>>
      PROVE  Moves(w) /\ Touches
  BY <1>7 DEF Refused, Moves, Touches, AnswerOnly, Answer, desktopVars
<1> QED
  BY <1>1, <1>2, <1>3, <1>4, <1>5, <1>6, <1>7 DEF Work, MayEnd

LEMMA TouchesType ==
  ASSUME P!ProcessTypeOK, Touches
  PROVE  P!ProcessTypeOK'
<1>1. CASE UNCHANGED processVars
  BY <1>1 DEF processVars, P!ProcessTypeOK
<1> QED
  BY <1>1, ProcessType, LeaseType, CancelType DEF Touches

LEMMA MovesType ==
  ASSUME TypeOK, NEW w \in Workers, Moves(w), Touches
  PROVE  TypeOK'
<1>1. P!ProcessTypeOK'
  BY TouchesType DEF TypeOK
<1>2. CASE \E place \in Places : Goto(w, place)
  <2>1. D!TypeOK'
    BY <1>2 DEF TypeOK, D!TypeOK, Goto, dispatcherVars
  <2> QED
    BY <1>1, <1>2, <2>1 DEF TypeOK, Moves, Places, Goto, desktopVars
<1>3. CASE /\ D!Finish(w) /\ step' = [step EXCEPT ![w] = "start"]
           /\ known' \in {known} \cup {known \cup {r} : r \in Permits}
           /\ answered' \in {answered, {}} \cup {answered \cup {p} : p \in Procs}
  <2>1. D!TypeOK'
    BY <1>3, FinishType DEF TypeOK
  <2>2. known' \subseteq Permits /\ answered' \subseteq Procs
    BY <1>3 DEF TypeOK
  <2> QED
    BY <1>1, <1>3, <2>1, <2>2 DEF TypeOK, Moves
<1> QED
  BY <1>2, <1>3 DEF Moves

-----------------------------------------------------------------------------
LEMMA TypeInit == Init => TypeOK
<1> SUFFICES ASSUME Init PROVE TypeOK
  OBVIOUS
<1>1. D!TypeOK
  <2>1. <<>> \in Seq(Requests) /\ Len(<<>>) = 0
    OBVIOUS
  <2>2. \A l \in D!Levels : Capacity[l] \in Nat
    BY NdCoreAssumption DEF D!Levels
  <2>3. D!Init
    BY DEF Init
  <2>4. queue = [l \in D!Levels |-> <<>>]
    BY <2>3 DEF D!Init
  <2>5. queue \in [D!Levels -> Seq(Requests)]
    BY <2>1, <2>4
  <2>6. \A l \in D!Levels : Len(queue[l]) <= Capacity[l]
    <3> TAKE l \in D!Levels
    <3>1. queue[l] = <<>>
      BY <2>4
    <3>2. Len(queue[l]) = 0
      BY <2>1, <3>1
    <3> QED
      BY <2>2, <3>2
  <2>7. doing \in [Workers -> Requests \cup {Idle, Gone}] /\ closed \in BOOLEAN
    BY <2>3 DEF D!Init
  <2> QED
    BY <2>5, <2>6, <2>7 DEF D!TypeOK
<1>2. P!ProcessTypeOK
  BY DEF Init, P!Init, P!ProcessTypeOK
<1> QED
  BY <1>1, <1>2 DEF Init, TypeOK

LEMMA TypeNext == TypeOK /\ [Next]_vars => TypeOK'
<1> SUFFICES ASSUME TypeOK, [Next]_vars PROVE TypeOK'
  OBVIOUS
<1>1. ASSUME NEW j \in Requests, Send(j) \/ Refuse(j) PROVE TypeOK'
  <2>1. D!TypeOK'
    <3>1. CASE Send(j)
      BY <3>1, SubmitType DEF Send, TypeOK
    <3>2. CASE Refuse(j)
      BY <3>2 DEF Refuse, TypeOK, D!TypeOK, dispatcherVars
    <3> QED
      BY <1>1, <3>1, <3>2
  <2>2. P!ProcessTypeOK'
    BY <1>1 DEF Send, Refuse, TypeOK, P!ProcessTypeOK, processVars
  <2> QED
    BY <1>1, <2>1, <2>2 DEF Send, Refuse, Forgets, TypeOK
<1>2. ASSUME NEW w \in Workers, TakeJob(w) \/ LeaveJobs(w) PROVE TypeOK'
  <2>1. D!TypeOK'
    BY <1>2, TakeType DEF TakeJob, LeaveJobs, TypeOK, D!Leave, D!TypeOK
  <2>2. P!ProcessTypeOK'
    BY <1>2 DEF TakeJob, LeaveJobs, TypeOK, P!ProcessTypeOK, processVars
  <2> QED
    BY <1>2, <2>1, <2>2 DEF TakeJob, LeaveJobs, TypeOK, desktopVars
<1>3. ASSUME NEW w \in Workers, Work(w) \/ MayEnd(w) PROVE TypeOK'
  BY <1>3, WorkerMoves, MovesType
<1>4. ASSUME Outside, P!ProcessTypeOK' PROVE TypeOK'
  BY <1>4 DEF Outside, TypeOK, D!TypeOK, dispatcherVars, desktopVars
<1>5. ASSUME NEW r \in Permits, LeaseLapses(r) PROVE TypeOK'
  BY <1>4, <1>5, LeaseType DEF LeaseLapses, TypeOK
<1>6. ASSUME NEW p \in Procs, ChildExits(p) \/ Wait(p) PROVE TypeOK'
  BY <1>4, <1>6, ProcessType DEF ChildExits, Wait, TypeOK
<1>7. CASE EndOfInput
  BY <1>7 DEF EndOfInput, TypeOK, D!TypeOK, P!ProcessTypeOK, dispatcherVars, processVars
<1>8. CASE Stop
  <2>1. P!ProcessTypeOK'
    BY <1>8, CancelType DEF Stop, TypeOK
  <2>2. D!TypeOK'
    BY <1>8 DEF Stop, TypeOK, D!Close, D!TypeOK
  <2> QED
    BY <1>8, <2>1, <2>2 DEF Stop, TypeOK, desktopVars, BeingSpawned
<1>9. CASE End
  BY <1>9 DEF End, TypeOK, D!TypeOK, P!ProcessTypeOK, dispatcherVars, processVars, desktopVars
<1>10. CASE UNCHANGED vars
  BY <1>10
  DEF vars, TypeOK, D!TypeOK, P!ProcessTypeOK, dispatcherVars, processVars, desktopVars
<1> QED
  BY <1>1, <1>2, <1>3, <1>5, <1>6, <1>7, <1>8, <1>9, <1>10 DEF Next

(* The variables of nd-core keep their types and no queue of its           *)
(* dispatcher exceeds its capacity.                                        *)
THEOREM NdCoreTypeOK == Spec => []TypeOK
BY TypeInit, TypeNext, PTL DEF Spec
-----------------------------------------------------------------------------
(* Children in the hands of a worker.                                      *)

(* A worker that has no job is at the start of the next one. *)
FreshJobs == \A w \in Workers : doing[w] \notin Requests => step[w] = "start"

(* Children may be killed, and nothing else becomes of them. *)
MayKill ==
  /\ \A p \in Procs : os'[p] = os[p] \/ (os[p] = "alive" /\ os'[p] = "dead")
  /\ UNCHANGED <<registered, waiter, told>>

(* What a worker does besides starting and registering a child: no child   *)
(* comes to life, none is struck off, and after the end of input no spawn  *)
(* passes its check and no write begins.                                   *)
Quiet(w) ==
  /\ \A p \in Procs : ~At(w, "spawn", p, "started")
  /\ MayKill /\ UNCHANGED answered
  /\ step'[w] # "started"
  /\ step'[w] \in {"admitted", "blocked"} => main = "reading"

Starts(w, p) == At(w, "spawn", p, "admitted") /\ P!Start(p) /\ Goto(w, "started")

Registers(w, p) ==
  /\ At(w, "spawn", p, "started") /\ P!Register(p)
  /\ D!Finish(w) /\ step' = [step EXCEPT ![w] = "start"]
  /\ answered' \subseteq answered \cup {p}

LEMMA CancelIsQuiet ==
  ASSUME TypeOK, NEW S, P!Cancel(S)
  PROVE  MayKill
BY DEF TypeOK, P!ProcessTypeOK, P!Cancel, P!Children, MayKill

LEMMA LeaseIsQuiet ==
  ASSUME NEW r, P!Grant(r) \/ P!Renew(r) \/ P!GiveBack(r) \/ P!Lapse(r)
  PROVE  UNCHANGED <<os, registered, waiter, told>>
BY DEF P!Grant, P!Renew, P!GiveBack, P!Lapse, P!SetLease

LEMMA WorkerKeeps ==
  ASSUME TypeOK, NEW w \in Workers, Work(w) \/ MayEnd(w)
  PROVE  /\ doing[w] \in Requests
         /\ \/ Quiet(w)
            \/ \E p \in Procs : Starts(w, p) \/ Registers(w, p)
<1> DEFINE Kept == /\ doing[w] \in Requests
                   /\ Quiet(w) \/ \E p \in Procs : Starts(w, p) \/ Registers(w, p)
<1>s. step \in [Workers -> Places]
  BY DEF TypeOK, Places
<1>1. ASSUME NEW op \in {"spawn", "write", "cancel"}, NEW p \in Procs, NEW place,
             At(w, op, p, place)
      PROVE  doing[w] \in Requests
  BY <1>1, RequestsAreJobs DEF At, OnProc
<1>2. ASSUME NEW op \in {"acquire", "heartbeat", "release"}, NEW r \in Permits, NEW place,
             At(w, op, r, place)
      PROVE  doing[w] \in Requests
  BY <1>2, RequestsAreJobs DEF At, OnPermit
<1>3. ASSUME NEW op, NEW x, NEW place, At(w, op, x, place), place # "started" \/ op # "spawn"
      PROVE  \A p \in Procs : ~At(w, "spawn", p, "started")
  BY <1>3, RequestsDiffer DEF At
<1>4. ASSUME UNCHANGED <<os, registered, waiter, told, answered>>,
             \A p \in Procs : ~At(w, "spawn", p, "started"),
             \/ AnswerOnly(w) \/ Answer(w)
             \/ \E place \in {"intended", "granted", "canceled"} : Goto(w, place)
             \/ main = "reading" /\ (Goto(w, "admitted") \/ Goto(w, "blocked"))
      PROVE  Quiet(w)
  BY <1>4, <1>s DEF Quiet, MayKill, AnswerOnly, Answer, Goto
<1>5. ASSUME NEW p \in Procs, Spawn(w, p) PROVE Kept
  <2>1. CASE At(w, "spawn", p, "start")
    BY <1>1, <1>3, <1>4, <1>5, <2>1 DEF Spawn, At, Goto, Interrupted, AnswerOnly, processVars, desktopVars
  <2>2. CASE At(w, "spawn", p, "admitted")
    <3>1. CASE P!Start(p) /\ Goto(w, "started")
      BY <1>1, <2>2, <3>1 DEF Starts
    <3>2. CASE AnswerOnly(w)
      BY <1>1, <1>3, <1>4, <2>2, <3>2 DEF AnswerOnly, processVars, desktopVars
    <3> QED
      BY <1>5, <2>2, <3>1, <3>2 DEF Spawn, At
  <2>3. CASE At(w, "spawn", p, "started")
    BY <1>1, <1>5, <2>3 DEF Spawn, At, Registers, Answer
  <2> QED
    BY <1>5, <2>1, <2>2, <2>3 DEF Spawn
<1>6. ASSUME NEW p \in Procs, Write(w, p) \/ ChildReads(w, p) PROVE Kept
  BY <1>1, <1>3, <1>4, <1>6 DEF Write, ChildReads, Interrupted, Goto, AnswerOnly, processVars, desktopVars
<1>7. ASSUME NEW p \in Procs, CancelProcess(w, p) PROVE Kept
  BY <1>1, <1>3, <1>s, <1>7, CancelIsQuiet DEF CancelProcess, Answer, Quiet, desktopVars
<1>8. ASSUME NEW r \in Permits, Acquire(w, r) PROVE Kept
  BY <1>2, <1>3, <1>4, <1>8, LeaseIsQuiet DEF Acquire, Goto, AnswerOnly, processVars, desktopVars
<1>9. ASSUME NEW r \in Permits, Heartbeat(w, r) PROVE Kept
  BY <1>2, <1>3, <1>4, <1>9, LeaseIsQuiet DEF Heartbeat, desktopVars
<1>10. ASSUME NEW r \in Permits, Release(w, r) PROVE Kept
  <2>1. CASE At(w, "release", r, "start")
    BY <1>2, <1>3, <1>4, <1>10, <2>1 DEF Release, At, Goto, AnswerOnly, processVars, desktopVars
  <2>2. CASE At(w, "release", r, "intended")
    BY <1>2, <1>3, <1>s, <1>10, <2>2, CancelIsQuiet DEF Release, At, Goto, Quiet, desktopVars
  <2>3. CASE At(w, "release", r, "canceled")
    BY <1>2, <1>3, <1>4, <1>10, <2>3, LeaseIsQuiet DEF Release, At, desktopVars
  <2> QED
    BY <1>10, <2>1, <2>2, <2>3 DEF Release
<1>11. ASSUME Refused(w) PROVE Kept
  BY <1>4, <1>11 DEF Refused, At, AnswerOnly, processVars, desktopVars
<1> QED
  BY <1>5, <1>6, <1>7, <1>8, <1>9, <1>10, <1>11 DEF Work, MayEnd

-----------------------------------------------------------------------------
(* Who answers for a living child, and what the end of nd-core leaves.     *)

(* Past the cancelling of shutdown no spawn passes its check, so all that  *)
(* live or will live were being spawned at that moment.                    *)
LateOnly ==
  main \in {"joining", "ended"} =>
    /\ BeingSpawned \subseteq late
    /\ \A p \in Procs : os[p] = "alive" => p \in late

KeepsInv == FreshJobs /\ Watched /\ LateOnly

(* Workers other than w keep their jobs and places. *)
OthersStay(w) ==
  \A v \in Workers \ {w} : doing'[v] = doing[v] /\ step'[v] = step[v]

LEMMA WorkerOthers ==
  ASSUME TypeOK, NEW w \in Workers, Work(w) \/ MayEnd(w)
  PROVE  /\ OthersStay(w) /\ UNCHANGED <<queue, closed, main, late>>
         /\ doing'[w] = doing[w] \/ (doing'[w] = Idle /\ step'[w] = "start")
BY WorkerMoves
DEF TypeOK, D!TypeOK, Moves, Goto, D!Finish, OthersStay, dispatcherVars

LEMMA WorkerInv ==
  ASSUME TypeOK, KeepsInv, NEW w \in Workers, Work(w) \/ MayEnd(w)
  PROVE  KeepsInv'
<1>o. /\ OthersStay(w) /\ UNCHANGED <<main, late>>
      /\ doing'[w] = doing[w] \/ (doing'[w] = Idle /\ step'[w] = "start")
  BY WorkerOthers
<1>k. doing[w] \in Requests /\ FreshJobs /\ Watched /\ LateOnly
  BY WorkerKeeps DEF KeepsInv
<1>1. FreshJobs'
  BY <1>o, <1>k, RequestsAreJobs DEF FreshJobs, OthersStay
<1>2. CASE Quiet(w)
  <2>1. \A v \in Workers, p \in Procs : At(v, "spawn", p, "started") => At(v, "spawn", p, "started")'
    BY <1>o, <1>2 DEF Quiet, OthersStay, At
  <2>2. Watched'
    BY <1>k, <1>2, <2>1 DEF Watched, Quiet, MayKill
  <2>3. main # "reading" => BeingSpawned' \subseteq BeingSpawned
    <3> SUFFICES ASSUME main # "reading", NEW p \in Procs, NEW v \in Workers,
                        doing'[v] = Request("spawn", p), step'[v] \in {"admitted", "started"}
                 PROVE  p \in BeingSpawned
      BY DEF BeingSpawned
    <3>1. v # w
      BY <1>2 DEF Quiet
    <3> QED
      BY <1>o, <3>1 DEF OthersStay, BeingSpawned
  <2>4. LateOnly'
    BY <1>o, <1>k, <1>2, <2>3 DEF LateOnly, Quiet, MayKill
  <2> QED
    BY <1>1, <2>2, <2>4 DEF KeepsInv
<1>3. ASSUME NEW p \in Procs, Starts(w, p)
      PROVE  KeepsInv'
  <2>1. /\ \A v \in Workers, q \in Procs :
             At(v, "spawn", q, "started") => At(v, "spawn", q, "started")'
        /\ At(w, "spawn", p, "started")'
    BY <1>3, <1>o DEF Starts, OthersStay, At, Goto, dispatcherVars, TypeOK
  <2>2. \A q \in Procs \ {p} : os'[q] = os[q]
    BY <1>3 DEF Starts, P!Start, TypeOK, P!ProcessTypeOK
  <2>3. UNCHANGED <<registered, waiter>>
    BY <1>3 DEF Starts, P!Start
  <2>4. Watched'
    BY <1>k, <2>1, <2>2, <2>3 DEF Watched
  <2>5. p \in BeingSpawned /\ BeingSpawned' \subseteq BeingSpawned
    <3>1. p \in BeingSpawned
      BY <1>3 DEF Starts, At, BeingSpawned
    <3>2. ASSUME NEW q \in Procs, NEW v \in Workers,
                 doing'[v] = Request("spawn", q), step'[v] \in {"admitted", "started"}
          PROVE  q \in BeingSpawned
      <4>1. CASE v = w
        BY <1>3, <3>1, <3>2, <4>1, RequestsDiffer DEF Starts, At, Goto, dispatcherVars
      <4>2. CASE v # w
        BY <1>o, <3>2, <4>2 DEF OthersStay, BeingSpawned
      <4> QED
        BY <4>1, <4>2
    <3> QED
      BY <3>1, <3>2 DEF BeingSpawned
  <2>6. LateOnly'
    BY <1>o, <1>k, <2>2, <2>5 DEF LateOnly
  <2> QED
    BY <1>1, <2>4, <2>6 DEF KeepsInv
<1>4. ASSUME NEW p \in Procs, Registers(w, p)
      PROVE  KeepsInv'
  <2>1. p \in registered' /\ waiter'[p] = "watching" /\ UNCHANGED os
    BY <1>4 DEF Registers, P!Register, TypeOK, P!ProcessTypeOK
  <2>2. \A q \in Procs \ {p} : (q \in registered' <=> q \in registered) /\ waiter'[q] = waiter[q]
    BY <1>4 DEF Registers, P!Register, TypeOK, P!ProcessTypeOK
  <2>3. \A v \in Workers, q \in Procs \ {p} :
          At(v, "spawn", q, "started") => At(v, "spawn", q, "started")'
    BY <1>4, <1>o, RequestsDiffer DEF Registers, OthersStay, At
  <2>4. Watched'
    BY <1>k, <2>1, <2>2, <2>3 DEF Watched
  <2>5. BeingSpawned' \subseteq BeingSpawned
    <3> SUFFICES ASSUME NEW q \in Procs, NEW v \in Workers,
                        doing'[v] = Request("spawn", q), step'[v] \in {"admitted", "started"}
                 PROVE  q \in BeingSpawned
      BY DEF BeingSpawned
    <3>1. v # w
      BY <1>4 DEF Registers, TypeOK
    <3> QED
      BY <1>o, <3>1 DEF OthersStay, BeingSpawned
  <2>6. LateOnly'
    BY <1>o, <1>k, <2>1, <2>5 DEF LateOnly
  <2> QED
    BY <1>1, <2>4, <2>6 DEF KeepsInv
<1> QED
  BY <1>2, <1>3, <1>4, WorkerKeeps

(* A step that leaves the jobs alone, or only takes and leaves some. *)
LEMMA CalmInv ==
  ASSUME TypeOK, KeepsInv, FreshJobs', UNCHANGED <<main, late>>,
         \A w \in Workers, p \in Procs, place \in {"admitted", "started"} :
           At(w, "spawn", p, place) <=> At(w, "spawn", p, place)',
         \A p \in Procs : os'[p] = "alive" =>
           /\ os[p] = "alive"
           /\ p \in registered /\ waiter[p] = "watching" =>
                p \in registered' /\ waiter'[p] = "watching"
  PROVE  KeepsInv'
<1>1. Watched'
  BY DEF KeepsInv, Watched
<1>2. BeingSpawned' = BeingSpawned
  BY DEF BeingSpawned, At
<1>3. LateOnly'
  BY <1>2 DEF KeepsInv, LateOnly
<1> QED
  BY <1>1, <1>3 DEF KeepsInv

LEMMA KeepsNext ==
  ASSUME TypeOK, KeepsInv, [Next]_vars
  PROVE  KeepsInv'
<1> DEFINE JobsStay == UNCHANGED <<doing, step>>
<1>j. JobsStay => /\ FreshJobs'
                  /\ \A w \in Workers, p \in Procs, place \in {"admitted", "started"} :
                       At(w, "spawn", p, place) <=> At(w, "spawn", p, place)'
  BY DEF KeepsInv, FreshJobs, At
<1>1. ASSUME NEW j \in Requests, Send(j) \/ Refuse(j) PROVE KeepsInv'
  BY <1>j, <1>1, CalmInv DEF Send, Refuse, D!Submit, dispatcherVars, processVars
<1>2. ASSUME NEW w \in Workers, TakeJob(w) \/ LeaveJobs(w) PROVE KeepsInv'
  <2>1. /\ doing[w] = Idle
        /\ \A v \in Workers \ {w} : doing'[v] = doing[v]
    <3>1. CASE TakeJob(w)
      BY <3>1, TakeType DEF TakeJob, TypeOK
    <3>2. CASE LeaveJobs(w)
      BY <3>2 DEF LeaveJobs, D!Leave, TypeOK, D!TypeOK
    <3> QED
      BY <1>2, <3>1, <3>2
  <2>2. step[w] = "start" /\ UNCHANGED <<processVars, step, main, late>>
    BY <1>2, <2>1, RequestsAreJobs DEF TakeJob, LeaveJobs, KeepsInv, FreshJobs
  <2>3. FreshJobs'
    BY <2>1, <2>2 DEF KeepsInv, FreshJobs
  <2>4. \A v \in Workers, p \in Procs, place \in {"admitted", "started"} :
          At(v, "spawn", p, place) <=> At(v, "spawn", p, place)'
    BY <2>1, <2>2 DEF At
  <2> QED
    BY <2>2, <2>3, <2>4, CalmInv DEF processVars
<1>3. ASSUME NEW w \in Workers, Work(w) \/ MayEnd(w) PROVE KeepsInv'
  BY <1>3, WorkerInv
<1>4. ASSUME NEW r \in Permits, LeaseLapses(r) PROVE KeepsInv'
  BY <1>j, <1>4, CalmInv, LeaseIsQuiet DEF LeaseLapses, Outside, dispatcherVars
<1>5. ASSUME NEW p \in Procs, ChildExits(p) PROVE KeepsInv'
  BY <1>j, <1>5, CalmInv
  DEF ChildExits, P!Exits, Outside, dispatcherVars, TypeOK, P!ProcessTypeOK
<1>6. ASSUME NEW p \in Procs, Wait(p) PROVE KeepsInv'
  <2>1. CASE P!WaiterCancels(p)
    BY <1>j, <1>6, <2>1, CalmInv, CancelIsQuiet DEF MayKill, Wait, P!WaiterCancels, Outside, dispatcherVars
  <2>2. CASE P!WaiterReaps(p)
    BY <1>j, <1>6, <2>2, CalmInv
    DEF Wait, P!WaiterReaps, Outside, dispatcherVars, TypeOK, P!ProcessTypeOK
  <2> QED
    BY <1>6, <2>1, <2>2 DEF Wait
<1>7. CASE EndOfInput
  <2>1. JobsStay /\ UNCHANGED <<os, registered, waiter>> /\ main' = "stopping"
    BY <1>7 DEF EndOfInput, dispatcherVars, processVars
  <2>2. Watched'
    BY <2>1, <1>j DEF KeepsInv, Watched
  <2> QED
    BY <1>j, <2>1, <2>2 DEF KeepsInv, LateOnly
<1>8. CASE Stop
  <2>1. JobsStay /\ P!Cancel(registered) /\ late' = BeingSpawned
    BY <1>8 DEF Stop, D!Close
  <2>2. Watched'
    BY <2>1, <1>j, CancelIsQuiet DEF MayKill, KeepsInv, Watched
  <2>3. BeingSpawned' = BeingSpawned
    BY <2>1 DEF BeingSpawned
  <2>4. ASSUME NEW p \in Procs, os'[p] = "alive" PROVE p \in BeingSpawned
    <3>1. os[p] = "alive" /\ p \notin registered
      BY <2>1, <2>4 DEF P!Cancel, P!Children, TypeOK, P!ProcessTypeOK
    <3> QED
      BY <3>1 DEF KeepsInv, Watched, BeingSpawned, At
  <2>5. LateOnly'
    BY <2>1, <2>3, <2>4 DEF LateOnly
  <2> QED
    BY <1>j, <2>1, <2>2, <2>5 DEF KeepsInv
<1>9. CASE End
  <2>1. JobsStay /\ UNCHANGED <<os, registered, waiter, late>> /\ main = "joining"
    BY <1>9 DEF End, dispatcherVars, processVars
  <2>2. Watched'
    BY <2>1, <1>j DEF KeepsInv, Watched
  <2>3. BeingSpawned' = BeingSpawned
    BY <2>1 DEF BeingSpawned
  <2> QED
    BY <1>j, <2>1, <2>2, <2>3 DEF KeepsInv, LateOnly
<1>10. CASE UNCHANGED vars
  BY <1>j, <1>10, CalmInv DEF vars, dispatcherVars, processVars
<1> QED
  BY <1>1, <1>2, <1>3, <1>4, <1>5, <1>6, <1>7, <1>8, <1>9, <1>10 DEF Next

LEMMA Keeps == Spec => []KeepsInv
<1>1. Init => KeepsInv
  BY DEF Init, P!Init, KeepsInv, FreshJobs, Watched, LateOnly
<1>2. TypeOK /\ KeepsInv /\ [Next]_vars => KeepsInv'
  BY KeepsNext
<1> QED
  BY <1>1, <1>2, NdCoreTypeOK, PTL DEF Spec

-----------------------------------------------------------------------------
(* Which requests nd-core holds: those in a queue and those that run.      *)

Asked(j) ==
  \/ \E l \in D!Levels : \E i \in 1..Len(queue[l]) : queue[l][i] = j
  \/ \E w \in Workers : doing[w] = j

LEMMA SubmitAsks ==
  ASSUME TypeOK, NEW j \in Requests, D!Submit(j), NEW k, Asked(k)'
  PROVE  Asked(k) \/ k = j
<1> DEFINE m == LevelOf[j]
<1>1. m \in D!Levels /\ queue[m] \in Seq(Requests)
  BY RequestsAreJobs DEF TypeOK, D!TypeOK
<1> HIDE DEF m
<1>2. queue' = [queue EXCEPT ![m] = Append(@, j)] /\ doing' = doing
  BY DEF D!Submit, m
<1>3. CASE \E w \in Workers : doing'[w] = k
  BY <1>2, <1>3 DEF Asked
<1>4. ASSUME NEW l \in D!Levels, NEW i \in 1..Len(queue'[l]), queue'[l][i] = k
      PROVE  Asked(k) \/ k = j
  <2>1. CASE l # m
    <3>1. queue'[l] = queue[l]
      BY <1>2, <2>1 DEF TypeOK, D!TypeOK
    <3> QED
      BY <1>4, <3>1 DEF Asked
  <2>2. CASE l = m
    <3>1. queue'[l] = Append(queue[m], j)
      BY <1>1, <1>2, <2>2 DEF TypeOK, D!TypeOK
    <3>2. \/ i = Len(queue[m]) + 1 /\ queue'[l][i] = j
          \/ i \in 1..Len(queue[m]) /\ queue'[l][i] = queue[m][i]
      BY <1>1, <1>4, <3>1
    <3> QED
      BY <1>1, <1>4, <3>2 DEF Asked
  <2> QED
    BY <2>1, <2>2
<1> QED
  BY <1>3, <1>4 DEF Asked

LEMMA TakeAsks ==
  ASSUME TypeOK, NEW w \in Workers, D!Take(w), NEW k, Asked(k)'
  PROVE  Asked(k)
<1>1. PICK m \in D!Levels :
        /\ D!PopsFrom(w, m)
        /\ doing' = [doing EXCEPT ![w] = Head(queue[m])]
        /\ queue' = [queue EXCEPT ![m] = Tail(@)]
  BY DEF D!Take
<1>2. queue[m] \in Seq(Requests) /\ queue[m] # <<>>
  BY <1>1 DEF TypeOK, D!TypeOK, D!PopsFrom
<1>3. /\ 1 \in 1..Len(queue[m]) /\ Head(queue[m]) = queue[m][1]
      /\ \A i \in 1..Len(Tail(queue[m])) :
           i + 1 \in 1..Len(queue[m]) /\ Tail(queue[m])[i] = queue[m][i + 1]
  BY <1>2
<1>4. ASSUME NEW v \in Workers, doing'[v] = k PROVE Asked(k)
  <2>1. CASE v = w
    <3>1. queue[m][1] = k
      BY <1>1, <1>3, <1>4, <2>1 DEF TypeOK, D!TypeOK
    <3> QED
      BY <1>3, <3>1 DEF Asked
  <2>2. CASE v # w
    BY <1>1, <1>4, <2>2 DEF TypeOK, D!TypeOK, Asked
  <2> QED
    BY <2>1, <2>2
<1>5. ASSUME NEW l \in D!Levels, NEW i \in 1..Len(queue'[l]), queue'[l][i] = k
      PROVE  Asked(k)
  <2>1. CASE l # m
    <3>1. queue'[l] = queue[l]
      BY <1>1, <2>1 DEF TypeOK, D!TypeOK
    <3> QED
      BY <1>5, <3>1 DEF Asked
  <2>2. CASE l = m
    <3>1. queue'[l] = Tail(queue[m])
      BY <1>1, <2>2 DEF TypeOK, D!TypeOK
    <3>2. i + 1 \in 1..Len(queue[m]) /\ queue[m][i + 1] = k
      BY <1>3, <1>5, <3>1
    <3> QED
      BY <3>2 DEF Asked
  <2> QED
    BY <2>1, <2>2
<1> QED
  BY <1>4, <1>5 DEF Asked

-----------------------------------------------------------------------------
(* A child that somebody may write to was registered, so every write can   *)
(* be ended by a cancel, and the cancelling of shutdown ends them all.     *)

HandsInv ==
  /\ \A p \in Procs : p \in answered \/ Asked(Request("write", p)) => waiter[p] # "none"
  /\ \A w \in Workers, p \in Procs :
       At(w, "spawn", p, "started") => os[p] # "none" /\ waiter[p] = "none"
  /\ \A p \in Procs : os[p] = "none" => waiter[p] = "none"
  /\ \A v, w \in Workers, p \in Procs :
       At(v, "spawn", p, "started") /\ At(w, "spawn", p, "started") => v = w
  /\ \A w \in Workers, p \in Procs :
       At(w, "write", p, "blocked") /\ main \in {"joining", "ended"} => os[p] = "dead"
  /\ ExitReported

(* A child that is written to is known to the registry as long as it lives. *)
LEMMA WritersFreedNow ==
  ASSUME TypeOK, KeepsInv, HandsInv
  PROVE  WritersFreed
<1> SUFFICES ASSUME NEW w \in Workers, NEW p \in Procs,
                    At(w, "write", p, "blocked"), os[p] = "alive"
             PROVE  /\ main \in {"reading", "stopping"}
                    /\ p \in registered /\ waiter[p] = "watching"
  BY DEF WritersFreed
<1>1. main \in {"reading", "stopping"}
  BY DEF TypeOK, HandsInv
<1>2. Asked(Request("write", p))
  BY DEF At, Asked
<1>3. waiter[p] # "none"
  BY <1>2 DEF HandsInv
<1>4. \A v \in Workers : ~At(v, "spawn", p, "started")
  BY <1>3 DEF HandsInv
<1> QED
  BY <1>1, <1>4 DEF KeepsInv, Watched

(* A step that kills at most, and has no new child at hand. *)
LEMMA HandsCalm ==
  ASSUME TypeOK, HandsInv, MayKill,
         \A p \in Procs : p \in answered' \/ Asked(Request("write", p))' =>
           p \in answered \/ Asked(Request("write", p)),
         \A w \in Workers, p \in Procs :
           At(w, "spawn", p, "started")' => At(w, "spawn", p, "started"),
         \A w \in Workers, p \in Procs :
           At(w, "write", p, "blocked")' /\ main' \in {"joining", "ended"} =>
             At(w, "write", p, "blocked") /\ main \in {"joining", "ended"}
  PROVE  HandsInv'
<1>1. \A p \in Procs : p \in answered' \/ Asked(Request("write", p))' => waiter'[p] # "none"
  BY DEF HandsInv, MayKill
<1>2. \A w \in Workers, p \in Procs :
        At(w, "spawn", p, "started")' => os'[p] # "none" /\ waiter'[p] = "none"
  BY DEF HandsInv, MayKill
<1>3. \A p \in Procs : os'[p] = "none" => waiter'[p] = "none"
  BY DEF HandsInv, MayKill
<1>4. \A w \in Workers, p \in Procs :
        At(w, "write", p, "blocked")' /\ main' \in {"joining", "ended"} => os'[p] = "dead"
  BY DEF HandsInv, MayKill
<1>5. ExitReported'
  BY DEF HandsInv, MayKill, ExitReported
<1>6. \A v, w \in Workers, p \in Procs :
        At(v, "spawn", p, "started")' /\ At(w, "spawn", p, "started")' => v = w
  BY DEF HandsInv
<1> QED
  BY <1>1, <1>2, <1>3, <1>4, <1>5, <1>6 DEF HandsInv

(* The same if the workers and the requests stay as they are too. *)
LEMMA HandsStay ==
  ASSUME TypeOK, HandsInv, MayKill, UNCHANGED <<queue, doing, step>>,
         answered' \subseteq answered,
         main' \in {"joining", "ended"} => main \in {"joining", "ended"}
  PROVE  HandsInv'
<1>1. \A p \in Procs : Asked(Request("write", p))' <=> Asked(Request("write", p))
  BY DEF Asked
<1>2. \A w \in Workers, p \in Procs, op \in OnProc, place \in Places :
        At(w, op, p, place)' <=> At(w, op, p, place)
  BY DEF At
<1> QED
  BY <1>1, <1>2, HandsCalm DEF OnProc, Places

LEMMA WorkerHands ==
  ASSUME TypeOK, HandsInv, NEW w \in Workers, Work(w) \/ MayEnd(w)
  PROVE  HandsInv'
<1>o. /\ OthersStay(w) /\ UNCHANGED <<queue, closed, main, late>>
      /\ doing'[w] = doing[w] \/ (doing'[w] = Idle /\ step'[w] = "start")
  BY WorkerOthers
<1>a. \A j \in Requests : Asked(j)' => Asked(j)
  BY <1>o, RequestsAreJobs DEF Asked, OthersStay
<1>r. \A p \in Procs : Request("write", p) \in Requests /\ Request("spawn", p) \in Requests
  BY RequestsAreJobs DEF OnProc
<1>1. CASE Quiet(w)
  <2>1. \A p \in Procs : p \in answered' \/ Asked(Request("write", p))' =>
          p \in answered \/ Asked(Request("write", p))
    BY <1>1, <1>a, <1>r DEF Quiet
  <2>2. \A v \in Workers, p \in Procs :
          At(v, "spawn", p, "started")' => At(v, "spawn", p, "started")
    BY <1>o, <1>1 DEF Quiet, OthersStay, At
  <2>3. \A v \in Workers, p \in Procs :
          At(v, "write", p, "blocked")' /\ main' \in {"joining", "ended"} =>
            At(v, "write", p, "blocked") /\ main \in {"joining", "ended"}
    BY <1>o, <1>1 DEF Quiet, OthersStay, At
  <2> QED
    BY <1>1, <2>1, <2>2, <2>3, HandsCalm DEF Quiet
<1>2. ASSUME NEW p \in Procs, Starts(w, p) PROVE HandsInv'
  <2>1. /\ os[p] = "none" /\ os' = [os EXCEPT ![p] = "alive"]
        /\ UNCHANGED <<registered, waiter, told, answered, doing>>
        /\ doing[w] = Request("spawn", p) /\ step' = [step EXCEPT ![w] = "started"]
    BY <1>2 DEF Starts, P!Start, Goto, At, dispatcherVars, desktopVars
  <2>2. \A q \in Procs : q # p => os'[q] = os[q]
    BY <2>1 DEF TypeOK, P!ProcessTypeOK
  <2>3. os'[p] = "alive" /\ waiter[p] = "none" /\ step'[w] = "started"
    BY <2>1 DEF HandsInv, TypeOK, P!ProcessTypeOK
  <2>4. \A q \in Procs : q \in answered' \/ Asked(Request("write", q))' => waiter'[q] # "none"
    BY <1>a, <1>r, <2>1 DEF HandsInv
  <2>5. ASSUME NEW v \in Workers, NEW q \in Procs, At(v, "spawn", q, "started")'
        PROVE  os'[q] # "none" /\ waiter'[q] = "none"
    <3>1. CASE v = w
      BY <2>1, <2>3, <2>5, <3>1, RequestsDiffer DEF At
    <3>2. CASE v # w
      <4>1. At(v, "spawn", q, "started")
        BY <1>o, <2>5, <3>2 DEF OthersStay, At
      <4> QED
        BY <2>1, <2>2, <2>3, <4>1 DEF HandsInv
    <3> QED
      BY <3>1, <3>2
  <2>6. \A q \in Procs : os'[q] = "none" => waiter'[q] = "none"
    BY <2>1, <2>2, <2>3 DEF HandsInv
  <2>7. ASSUME NEW u \in Workers, NEW v \in Workers, NEW q \in Procs,
               At(u, "spawn", q, "started")', At(v, "spawn", q, "started")'
        PROVE  u = v
    <3>1. ~At(w, "spawn", q, "started")' \/ q = p
      BY <2>1, RequestsDiffer DEF At
    <3>2. \A x \in Workers \ {w} :
            At(x, "spawn", q, "started")' => At(x, "spawn", q, "started") /\ os[q] # "none"
      BY <1>o DEF OthersStay, At, HandsInv
    <3> QED
      BY <2>1, <2>7, <3>1, <3>2 DEF HandsInv
  <2>8. ASSUME NEW v \in Workers, NEW q \in Procs, At(v, "write", q, "blocked")',
               main' \in {"joining", "ended"}
        PROVE  os'[q] = "dead"
    <3>1. v # w
      BY <2>3, <2>8 DEF At
    <3>2. os[q] = "dead"
      BY <1>o, <2>8, <3>1 DEF OthersStay, At, HandsInv
    <3> QED
      BY <2>1, <2>2, <3>2
  <2>9. ExitReported'
    BY <2>1, <2>2, <2>3 DEF HandsInv, ExitReported
  <2> QED
    BY <2>4, <2>5, <2>6, <2>7, <2>8, <2>9 DEF HandsInv
<1>3. ASSUME NEW p \in Procs, Registers(w, p) PROVE HandsInv'
  <2>1. /\ registered' = registered \cup {p} /\ waiter' = [waiter EXCEPT ![p] = "watching"]
        /\ UNCHANGED <<os, told>> /\ answered' \subseteq answered \cup {p}
        /\ step' = [step EXCEPT ![w] = "start"] /\ At(w, "spawn", p, "started")
    BY <1>3 DEF Registers, P!Register
  <2>2. /\ waiter'[p] = "watching" /\ step'[w] = "start"
        /\ \A q \in Procs : q # p => waiter'[q] = waiter[q]
    BY <2>1 DEF TypeOK, P!ProcessTypeOK
  <2>3. os[p] # "none" /\ waiter[p] = "none"
    BY <2>1 DEF HandsInv
  <2>4. \A q \in Procs : q \in answered' \/ Asked(Request("write", q))' => waiter'[q] # "none"
    BY <1>a, <1>r, <2>1, <2>2 DEF HandsInv
  <2>5. ASSUME NEW v \in Workers, NEW q \in Procs, At(v, "spawn", q, "started")'
        PROVE  os'[q] # "none" /\ waiter'[q] = "none"
    <3>1. v # w
      BY <2>2, <2>5 DEF At
    <3>2. At(v, "spawn", q, "started")
      BY <1>o, <2>5, <3>1 DEF OthersStay, At
    <3>3. CASE q # p
      BY <2>1, <2>2, <3>2, <3>3 DEF HandsInv
    <3>4. CASE q = p
      BY <2>1, <3>1, <3>2, <3>4 DEF HandsInv
    <3> QED
      BY <3>3, <3>4
  <2>6. \A q \in Procs : os'[q] = "none" => waiter'[q] = "none"
    BY <2>1, <2>2, <2>3 DEF HandsInv
  <2>7. \A v \in Workers, q \in Procs :
          At(v, "write", q, "blocked")' /\ main' \in {"joining", "ended"} => os'[q] = "dead"
    BY <1>o, <2>1, <2>2 DEF OthersStay, At, HandsInv
  <2>8. ExitReported'
    BY <2>1, <2>2 DEF HandsInv, ExitReported
  <2>9. \A u, v \in Workers, q \in Procs :
          At(u, "spawn", q, "started")' /\ At(v, "spawn", q, "started")' => u = v
    BY <1>o, <2>2 DEF OthersStay, At, HandsInv
  <2> QED
    BY <2>4, <2>5, <2>6, <2>7, <2>8, <2>9 DEF HandsInv
<1> QED
  BY <1>1, <1>2, <1>3, WorkerKeeps

LEMMA HandsNext ==
  ASSUME TypeOK, KeepsInv, HandsInv, [Next]_vars
  PROVE  HandsInv'
<1>r. \A p \in Procs : Request("write", p) \in Requests /\ Request("spawn", p) \in Requests
  BY RequestsAreJobs DEF OnProc
<1>k. UNCHANGED <<os, registered, waiter, told>> => MayKill
  BY DEF MayKill
<1>1. ASSUME NEW j \in Requests, Send(j) PROVE HandsInv'
  <2>1. /\ D!Submit(j) /\ Wanted(j) /\ UNCHANGED <<processVars, step, main, answered, doing>>
    BY <1>1 DEF Send, Forgets, D!Submit
  <2>2. ASSUME NEW p \in Procs, p \in answered' \/ Asked(Request("write", p))'
        PROVE  p \in answered \/ Asked(Request("write", p))
    <3>1. CASE j = Request("write", p)
      BY <2>1, <3>1 DEF Wanted, Request
    <3>2. CASE j # Request("write", p)
      BY <2>1, <2>2, <3>2, SubmitAsks
    <3> QED
      BY <3>1, <3>2
  <2>3. \A w \in Workers, p \in Procs, op \in OnProc, place \in Places :
          At(w, op, p, place)' <=> At(w, op, p, place)
    BY <2>1 DEF At
  <2> QED
    BY <1>k, <2>1, <2>2, <2>3, HandsCalm DEF OnProc, Places, processVars
<1>2. ASSUME NEW j \in Requests, Refuse(j) PROVE HandsInv'
  BY <1>k, <1>2, HandsStay DEF Refuse, Forgets, dispatcherVars, processVars
<1>3. ASSUME NEW w \in Workers, TakeJob(w) PROVE HandsInv'
  <2>1. /\ D!Take(w) /\ UNCHANGED <<processVars, step, main, answered>>
        /\ doing[w] = Idle /\ \A v \in Workers \ {w} : doing'[v] = doing[v]
    BY <1>3, TakeType DEF TakeJob, TypeOK, desktopVars
  <2>2. step[w] = "start"
    BY <2>1, RequestsAreJobs DEF KeepsInv, FreshJobs
  <2>3. \A p \in Procs : Asked(Request("write", p))' => Asked(Request("write", p))
    BY <2>1, TakeAsks
  <2>4. \A v \in Workers, p \in Procs, op \in OnProc, place \in {"started", "blocked"} :
          At(v, op, p, place)' => At(v, op, p, place)
    BY <2>1, <2>2 DEF At
  <2> QED
    BY <1>k, <2>1, <2>3, <2>4, HandsCalm DEF OnProc, processVars
<1>4. ASSUME NEW w \in Workers, LeaveJobs(w) PROVE HandsInv'
  <2>1. /\ UNCHANGED <<queue, processVars, step, main, answered>>
        /\ doing[w] = Idle /\ doing' = [doing EXCEPT ![w] = Gone]
    BY <1>4 DEF LeaveJobs, D!Leave, desktopVars
  <2>2. \A v \in Workers : doing'[v] = doing[v] \/ doing'[v] = Gone
    BY <2>1 DEF TypeOK, D!TypeOK
  <2>3. \A p \in Procs : Asked(Request("write", p))' => Asked(Request("write", p))
    BY <1>r, <2>1, <2>2, RequestsAreJobs DEF Asked
  <2>4. \A v \in Workers, p \in Procs, op \in {"spawn", "write"}, place \in Places :
          At(v, op, p, place)' => At(v, op, p, place)
    BY <1>r, <2>1, <2>2, RequestsAreJobs DEF At
  <2> QED
    BY <1>k, <2>1, <2>3, <2>4, HandsCalm DEF Places, processVars
<1>5. ASSUME NEW w \in Workers, Work(w) \/ MayEnd(w) PROVE HandsInv'
  BY <1>5, WorkerHands
<1>6. ASSUME NEW r \in Permits, LeaseLapses(r) PROVE HandsInv'
  BY <1>k, <1>6, HandsStay, LeaseIsQuiet DEF LeaseLapses, Outside, dispatcherVars, desktopVars
<1>7. ASSUME NEW p \in Procs, ChildExits(p) PROVE HandsInv'
  <2>1. MayKill
    BY <1>7 DEF ChildExits, P!Exits, MayKill, TypeOK, P!ProcessTypeOK
  <2> QED
    BY <1>7, <2>1, HandsStay DEF ChildExits, Outside, dispatcherVars, desktopVars
<1>8. ASSUME NEW p \in Procs, Wait(p) PROVE HandsInv'
  <2>1. UNCHANGED <<queue, doing, step, main, answered>>
    BY <1>8 DEF Wait, Outside, dispatcherVars, desktopVars
  <2>2. CASE P!WaiterCancels(p)
    BY <2>1, <2>2, HandsStay, CancelIsQuiet DEF P!WaiterCancels
  <2>3. CASE P!WaiterReaps(p)
    <3>1. /\ waiter[p] = "watching" /\ os[p] = "dead" /\ p \in registered
          /\ waiter' = [waiter EXCEPT ![p] = "done"] /\ registered' = registered \ {p}
          /\ told' = told \cup {p} /\ UNCHANGED os
      BY <2>3 DEF P!WaiterReaps, HandsInv, ExitReported
    <3>2. waiter'[p] = "done" /\ \A q \in Procs : q # p => waiter'[q] = waiter[q]
      BY <3>1 DEF TypeOK, P!ProcessTypeOK
    <3>3. \A q \in Procs : waiter'[q] = "none" <=> waiter[q] = "none"
      BY <3>1, <3>2
    <3>4. ExitReported'
      BY <3>1, <3>2 DEF HandsInv, ExitReported
    <3>5. \A q \in Procs : Asked(Request("write", q))' <=> Asked(Request("write", q))
      BY <2>1 DEF Asked
    <3>6. \A w \in Workers, q \in Procs, op \in {"spawn", "write"}, place \in Places :
            At(w, op, q, place)' <=> At(w, op, q, place)
      BY <2>1 DEF At
    <3> QED
      BY <2>1, <3>1, <3>3, <3>4, <3>5, <3>6 DEF HandsInv, Places
  <2> QED
    BY <1>8, <2>2, <2>3 DEF Wait
<1>9. CASE EndOfInput
  BY <1>k, <1>9, HandsStay DEF EndOfInput, dispatcherVars, processVars
<1>10. CASE Stop
  <2>1. UNCHANGED <<queue, doing, step, answered>> /\ P!Cancel(registered)
    BY <1>10 DEF Stop, D!Close, desktopVars
  <2>2. MayKill
    BY <2>1, CancelIsQuiet
  <2>3. \A q \in Procs : Asked(Request("write", q))' <=> Asked(Request("write", q))
    BY <2>1 DEF Asked
  <2>4. \A w \in Workers, q \in Procs, op \in {"spawn", "write"}, place \in Places :
          At(w, op, q, place)' <=> At(w, op, q, place)
    BY <2>1 DEF At
  <2>5. ASSUME NEW w \in Workers, NEW p \in Procs, At(w, "write", p, "blocked")
        PROVE  os'[p] = "dead"
    <3>1. waiter[p] # "none" /\ os[p] # "none"
      BY <2>5 DEF At, Asked, HandsInv
    <3>2. os[p] = "alive" => p \in registered
      BY <3>1 DEF HandsInv, KeepsInv, Watched
    <3> QED
      BY <2>1, <3>1, <3>2 DEF P!Cancel, P!Children, TypeOK, P!ProcessTypeOK
  <2>6. ExitReported' /\ \A p \in Procs : os'[p] = "none" => waiter'[p] = "none"
    BY <2>2 DEF HandsInv, MayKill, ExitReported
  <2>7. \A w \in Workers, p \in Procs :
          At(w, "spawn", p, "started")' => os'[p] # "none" /\ waiter'[p] = "none"
    BY <2>2, <2>4 DEF HandsInv, MayKill, Places
  <2>8. \A p \in Procs : p \in answered' \/ Asked(Request("write", p))' => waiter'[p] # "none"
    BY <2>1, <2>2, <2>3 DEF HandsInv, MayKill
  <2>9. \A v, w \in Workers, p \in Procs :
          At(v, "spawn", p, "started")' /\ At(w, "spawn", p, "started")' => v = w
    BY <2>4 DEF HandsInv, Places
  <2> QED
    BY <2>4, <2>5, <2>6, <2>7, <2>8, <2>9 DEF HandsInv, Places
<1>11. CASE End
  BY <1>k, <1>11, HandsStay DEF End, dispatcherVars, processVars, desktopVars
<1>12. CASE UNCHANGED vars
  BY <1>k, <1>12, HandsStay DEF vars, dispatcherVars, processVars, desktopVars
<1> QED
  BY <1>1, <1>2, <1>3, <1>4, <1>5, <1>6, <1>7, <1>8, <1>9, <1>10, <1>11, <1>12 DEF Next

LEMMA Hands == Spec => []HandsInv
<1>1. Init => HandsInv
  <2> SUFFICES ASSUME Init PROVE HandsInv
    OBVIOUS
  <2>1. D!Init /\ P!Init /\ answered = {} /\ \A w \in Workers : step[w] = "start"
    BY DEF Init
  <2>2. \A p \in Procs : ~Asked(Request("write", p))
    <3>1. \A p \in Procs, w \in Workers : doing[w] # Request("write", p)
      BY <2>1, RequestsAreJobs DEF D!Init, OnProc
    <3>2. \A l \in D!Levels : queue[l] = <<>>
      BY <2>1 DEF D!Init
    <3>3. Len(<<>>) = 0 /\ 1..0 = {}
      OBVIOUS
    <3> QED
      BY <3>1, <3>2, <3>3 DEF Asked
  <2>3. \A w \in Workers, p \in Procs, op \in OnProc, place \in {"started", "blocked"} :
          ~At(w, op, p, place)
    BY <2>1 DEF At
  <2> QED
    BY <2>1, <2>2, <2>3 DEF P!Init, HandsInv, ExitReported, OnProc
<1>2. TypeOK /\ KeepsInv /\ HandsInv /\ [Next]_vars => HandsInv'
  BY HandsNext
<1> QED
  BY <1>1, <1>2, NdCoreTypeOK, Keeps, PTL DEF Spec

(* No child is given up by its wait thread before it is dead and reported. *)
THEOREM EveryExitReported == Spec => []ExitReported
<1>1. HandsInv => ExitReported
  BY DEF HandsInv
<1> QED
  BY <1>1, Hands, PTL

(* A writer that a living child holds up can be freed, and shutdown has    *)
(* freed all of them when it joins the workers.                            *)
THEOREM EveryWriterFreed == Spec => []WritersFreed
<1>1. TypeOK /\ KeepsInv /\ HandsInv => WritersFreed
  BY WritersFreedNow
<1> QED
  BY <1>1, NdCoreTypeOK, Keeps, Hands, PTL

-----------------------------------------------------------------------------
(* What the workers leave when they go.                                    *)

LeftServed ==
  /\ main \in {"joining", "ended"} <=> closed
  /\ main = "ended" => \A w \in Workers : doing[w] = Gone
  /\ \A w \in Workers : doing[w] = Gone =>
       closed /\ \A l \in D!Serves(w) : queue[l] = <<>>

LEMMA LeftServedNext ==
  ASSUME TypeOK, LeftServed, [Next]_vars
  PROVE  LeftServed'
<1>1. ASSUME NEW j \in Requests, Send(j) PROVE LeftServed'
  <2>1. ~closed /\ UNCHANGED <<doing, closed, main>> /\ main = "reading"
    BY <1>1 DEF Send, D!Submit, D!HasRoom
  <2> QED
    BY <2>1 DEF LeftServed
<1>2. ASSUME NEW w \in Workers, TakeJob(w) PROVE LeftServed'
  <2>1. PICK m \in D!Levels :
          /\ doing[w] = Idle /\ queue[m] # <<>> /\ UNCHANGED <<closed, main>>
          /\ queue' = [queue EXCEPT ![m] = Tail(@)]
    BY <1>2 DEF TakeJob, D!Take, D!PopsFrom
  <2>2. \A l \in D!Levels : queue[l] = <<>> => queue'[l] = <<>>
    BY <2>1 DEF TypeOK, D!TypeOK
  <2>3. doing'[w] \in Requests /\ \A v \in Workers \ {w} : doing'[v] = doing[v]
    BY <1>2, TakeType DEF TakeJob, TypeOK
  <2>4. \A v \in Workers : D!Serves(v) \subseteq D!Levels
    BY DEF D!Serves, D!Levels
  <2>5. doing[w] # Gone /\ doing'[w] # Gone
    BY <2>1, <2>3, NdCoreAssumption, RequestsAreJobs
  <2> QED
    BY <2>1, <2>2, <2>3, <2>4, <2>5 DEF LeftServed
<1>3. ASSUME NEW w \in Workers, LeaveJobs(w) PROVE LeftServed'
  BY <1>3, NdCoreAssumption DEF LeaveJobs, D!Leave, LeftServed, TypeOK, D!TypeOK
<1>4. ASSUME NEW w \in Workers, Work(w) \/ MayEnd(w) PROVE LeftServed'
  <2>1. /\ OthersStay(w) /\ UNCHANGED <<queue, closed, main>>
        /\ doing'[w] = doing[w] \/ doing'[w] = Idle
        /\ doing[w] \in Requests
    BY <1>4, WorkerOthers, WorkerKeeps
  <2>2. doing[w] # Gone /\ doing'[w] # Gone
    BY <2>1, NdCoreAssumption, RequestsAreJobs
  <2> QED
    BY <2>1, <2>2 DEF LeftServed, OthersStay
<1>5. CASE Stop
  BY <1>5 DEF Stop, D!Close, LeftServed
<1>6. CASE End
  BY <1>6 DEF End, LeftServed, dispatcherVars
<1>7. CASE EndOfInput
  BY <1>7 DEF EndOfInput, LeftServed, dispatcherVars
<1>8. CASE UNCHANGED <<dispatcherVars, main>>
  BY <1>8 DEF LeftServed, dispatcherVars
<1> QED
  BY <1>1, <1>2, <1>3, <1>4, <1>5, <1>6, <1>7, <1>8
  DEF Next, Refuse, LeaseLapses, ChildExits, Wait, Outside, vars

(* nd-core never ends with a request it accepted and did not take up.      *)
THEOREM NothingUnserved == Spec => []AllServed
<1>1. Init => LeftServed
  <2> SUFFICES ASSUME Init PROVE LeftServed
    OBVIOUS
  <2>1. main = "reading" /\ ~closed /\ \A w \in Workers : doing[w] = Idle
    BY DEF Init, D!Init
  <2> QED
    BY <2>1, NdCoreAssumption DEF LeftServed
<1>2. TypeOK /\ LeftServed /\ [Next]_vars => LeftServed'
  BY LeftServedNext
<1>3. LeftServed => AllServed
  <2> SUFFICES ASSUME LeftServed, main = "ended" PROVE \A l \in D!Levels : queue[l] = <<>>
    BY DEF AllServed
  <2>1. PICK w \in Workers : w # Foreground
    BY NdCoreAssumption
  <2> QED
    BY <2>1 DEF LeftServed, D!Serves
<1> QED
  BY <1>1, <1>2, <1>3, NdCoreTypeOK, PTL DEF Spec

-----------------------------------------------------------------------------
(* The invariants of nd-core.                                              *)

(* No child of nd-core lives without somebody who answers for it, none is  *)
(* given up unreported, and none holds up a worker for good, in any        *)
(* interleaving of spawns, writes, cancels, releases, exits and shutdown.  *)
THEOREM EveryChildAccounted == Spec => []Accounted
<1>1. KeepsInv => Watched
  BY DEF KeepsInv
<1>2. Watched /\ ExitReported /\ WritersFreed => Accounted
  BY DEF Accounted
<1> QED
  BY <1>1, <1>2, Keeps, EveryExitReported, EveryWriterFreed, PTL

(* What lives on when nd-core has ended was being spawned at the moment    *)
(* shutdown cancelled the registered children, and no request waits.       *)
THEOREM NothingElseLeft == Spec => []StoppedLeavesNothing
<1>1. KeepsInv => LeftAreLate
  BY DEF KeepsInv, LateOnly, LeftAreLate
<1>2. LeftAreLate /\ AllServed => StoppedLeavesNothing
  BY DEF StoppedLeavesNothing
<1> QED
  BY <1>1, <1>2, Keeps, NothingUnserved, PTL
=============================================================================
