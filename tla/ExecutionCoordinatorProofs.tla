--------------------- MODULE ExecutionCoordinatorProofs ---------------------
(***************************************************************************)
(* Proofs about ExecutionCoordinator for any finite set of dispatches, any *)
(* limit, any faults and any number of deaths of nd-core.                  *)
(***************************************************************************)
EXTENDS ExecutionCoordinator, FiniteSetTheorems, TLAPS

ChainRequests == [op : {"acquire", "bind", "release", "heartbeat"}, run : Runs]

(* The places of a dispatch whose request for a permit was answered. *)
Later == Places \ {"idle", "waiting", "acquiring"}

(* A dispatch has nothing in the chain before it asks for its permit, and  *)
(* only that until it is answered.                                         *)
ChainOK(c, place) ==
  \A i \in 1 .. Len(c) :
    /\ c[i].op = "acquire" => place[c[i].run] = "acquiring"
    /\ place[c[i].run] \notin {"idle", "waiting"}
    /\ place[c[i].run] = "acquiring" =>
         c[i].op = "acquire" /\ \A j \in 1 .. Len(c) : c[j].run = c[i].run => j = i

(* Whoever holds a permit is going to give it back: the guard of its       *)
(* dispatch, or the cleanup of the session it is bound to.                 *)
PermitsOwned ==
  \A r \in permits :
    \/ pc[r] \in {"starting", "bind", "binding", "undo"}
    \/ pc[r] = "check" /\ r \in bound
    \/ pc[r] = "done" /\ r \in bound /\ (run[r] = "running" \/ cleanup[r] = "due")

(* Between the death of nd-core and the end of the reconciliation dispatch *)
(* is blocked and nothing is held.                                         *)
RecoveryBlocks ==
  /\ recovery # "none" => blocked /\ permits = {}
  /\ lost # {} => recovery = "due"

IInv ==
  /\ TypeOK
  /\ ChainOK(chain, pc)
  /\ PermitsOwned
  /\ RecoveryBlocks
  /\ ClosedHoldsNothing

-----------------------------------------------------------------------------
(* The chain and the places.                                               *)

LEMMA Elements ==
  ASSUME NEW S, NEW c \in Seq(S)
  PROVE  Len(c) \in Nat /\ \A i \in 1 .. Len(c) : c[i] \in S
OBVIOUS

LEMMA Runners ==
  ASSUME NEW c \in Seq(ChainRequests)
  PROVE  Len(c) \in Nat /\ \A i \in 1 .. Len(c) : c[i].run \in Runs
<1>1. Len(c) \in Nat /\ \A i \in 1 .. Len(c) : c[i] \in ChainRequests
  BY Elements
<1> QED
  BY <1>1 DEF ChainRequests

LEMMA Appended ==
  ASSUME NEW S, NEW c \in Seq(S), NEW e \in S
  PROVE  /\ Append(c, e) \in Seq(S)
         /\ Len(c) \in Nat /\ Len(Append(c, e)) = Len(c) + 1
         /\ \A i \in 1 .. Len(c) + 1 :
              Append(c, e)[i] = IF i = Len(c) + 1 THEN e ELSE c[i]
OBVIOUS

LEMMA Shortened ==
  ASSUME NEW S, NEW c \in Seq(S), c # <<>>
  PROVE  /\ Head(c) \in S /\ Head(c) = c[1]
         /\ Tail(c) \in Seq(S)
         /\ Len(c) \in Nat /\ Len(c) >= 1 /\ Len(Tail(c)) = Len(c) - 1
         /\ \A i \in 1 .. Len(c) - 1 : Tail(c)[i] = c[i + 1]
OBVIOUS

(* A dispatch that is past its acquire moves on. *)
LEMMA ChainMoves ==
  ASSUME NEW c \in Seq(ChainRequests), NEW place \in [Runs -> Places], ChainOK(c, place),
         NEW r \in Runs, place[r] \in Later, NEW p \in Later
  PROVE  ChainOK(c, [place EXCEPT ![r] = p])
<1> DEFINE q == [place EXCEPT ![r] = p]
<1>1. \A t \in Runs : q[t] = IF t = r THEN p ELSE place[t]
  OBVIOUS
<1>2. \A i \in 1 .. Len(c) : c[i].run \in Runs
  BY Runners
<1> HIDE DEF q
<1>3. ChainOK(c, q)
  BY <1>1, <1>2 DEF ChainOK, Later
<1> QED
  BY <1>3 DEF q

(* It issues a request of another kind. *)
LEMMA ChainGrows ==
  ASSUME NEW c \in Seq(ChainRequests), NEW place \in [Runs -> Places], ChainOK(c, place),
         NEW r \in Runs, place[r] \in Later, NEW op \in {"bind", "release", "heartbeat"}
  PROVE  ChainOK(Append(c, Request(op, r)), place)
<1> DEFINE e == Request(op, r)
           d == Append(c, e)
<1>1. e \in ChainRequests /\ e.op = op /\ e.run = r
  BY DEF Request, ChainRequests
<1> HIDE DEF e
<1>2. /\ Len(c) \in Nat /\ Len(d) = Len(c) + 1
      /\ \A i \in 1 .. Len(c) + 1 : d[i] = IF i = Len(c) + 1 THEN e ELSE c[i]
  BY <1>1, Appended
<1> HIDE DEF d
<1>3. ChainOK(d, place)
  BY <1>1, <1>2 DEF ChainOK, Later
<1> QED
  BY <1>3 DEF d, e

(* It asks for its permit. *)
LEMMA ChainAcquires ==
  ASSUME NEW c \in Seq(ChainRequests), NEW place \in [Runs -> Places], ChainOK(c, place),
         NEW r \in Runs, place[r] \in {"idle", "waiting"}
  PROVE  ChainOK(Append(c, Request("acquire", r)), [place EXCEPT ![r] = "acquiring"])
<1> DEFINE e == Request("acquire", r)
           d == Append(c, e)
           q == [place EXCEPT ![r] = "acquiring"]
<1>1. e \in ChainRequests /\ e.op = "acquire" /\ e.run = r
  BY DEF Request, ChainRequests
<1>2. \A t \in Runs : q[t] = IF t = r THEN "acquiring" ELSE place[t]
  OBVIOUS
<1>3. \A i \in 1 .. Len(c) : c[i].run \in Runs /\ c[i].run # r
  BY Runners DEF ChainOK
<1> HIDE DEF e, q
<1>4. /\ Len(c) \in Nat /\ Len(d) = Len(c) + 1
      /\ \A i \in 1 .. Len(c) + 1 : d[i] = IF i = Len(c) + 1 THEN e ELSE c[i]
  BY <1>1, Appended
<1> HIDE DEF d
<1>5. ChainOK(d, q)
  BY <1>1, <1>2, <1>3, <1>4 DEF ChainOK
<1> QED
  BY <1>5 DEF d, e, q

(* The head is answered and nobody moves: not so for an acquire. *)
LEMMA ChainShrinks ==
  ASSUME NEW c \in Seq(ChainRequests), c # <<>>, NEW place, ChainOK(c, place)
  PROVE  ChainOK(Tail(c), place)
<1>1. /\ Len(c) \in Nat /\ Len(c) >= 1 /\ Len(Tail(c)) = Len(c) - 1
      /\ \A i \in 1 .. Len(c) - 1 : Tail(c)[i] = c[i + 1]
  BY Shortened
<1> QED
  BY <1>1 DEF ChainOK

(* The head is answered and its dispatch moves: past the acquire, or, from *)
(* a full pool, back to waiting.                                           *)
LEMMA ChainAnswers ==
  ASSUME NEW c \in Seq(ChainRequests), c # <<>>,
         NEW place \in [Runs -> Places], ChainOK(c, place),
         NEW p \in Places, p \in Later \/ (p = "waiting" /\ Head(c).op = "acquire")
  PROVE  ChainOK(Tail(c), [place EXCEPT ![Head(c).run] = p])
<1> DEFINE r == Head(c).run
           q == [place EXCEPT ![r] = p]
           d == Tail(c)
<1>1. /\ Head(c) \in ChainRequests /\ Head(c) = c[1]
      /\ d \in Seq(ChainRequests)
      /\ Len(c) \in Nat /\ Len(c) >= 1 /\ Len(d) = Len(c) - 1
      /\ \A i \in 1 .. Len(c) - 1 : d[i] = c[i + 1]
  BY Shortened
<1>2. r \in Runs
  BY <1>1 DEF ChainRequests
<1>3. ChainOK(d, place)
  BY ChainShrinks
<1>4. CASE place[r] = "acquiring"
  <2>1. \A i \in 1 .. Len(d) : d[i].run \in Runs /\ d[i].run # r
    BY <1>1, <1>4, Runners DEF ChainOK
  <2>2. \A i \in 1 .. Len(d) : q[d[i].run] = place[d[i].run]
    BY <2>1
  <2> HIDE DEF d, q, r
  <2>3. ChainOK(d, q)
    BY <1>3, <2>2 DEF ChainOK
  <2> QED
    BY <2>3 DEF d, q, r
<1>5. CASE place[r] # "acquiring"
  <2>1. place[r] \in Later /\ p \in Later
    BY <1>1, <1>2, <1>5 DEF ChainOK, Later
  <2> QED
    BY <1>1, <1>2, <1>3, <2>1, ChainMoves
<1> QED
  BY <1>4, <1>5

(* close() issues a release for every permit. *)
LEMMA ChainCloses ==
  ASSUME NEW c \in Seq(ChainRequests), NEW place \in [Runs -> Places], ChainOK(c, place),
         NEW n \in Nat, NEW order \in [1 .. n -> Runs],
         \A i \in 1 .. n : place[order[i]] \in Later
  PROVE  LET d == c \o [i \in DOMAIN order |-> Request("release", order[i])]
         IN  d \in Seq(ChainRequests) /\ ChainOK(d, place)
<1> DEFINE e == [i \in 1 .. n |-> Request("release", order[i])]
           d == c \o e
<1>1. \A i \in 1 .. n : /\ e[i] \in ChainRequests
                        /\ e[i].op = "release" /\ place[e[i].run] \in Later
  BY DEF Request, ChainRequests
<1>2. e \in Seq(ChainRequests) /\ Len(e) = n
  BY <1>1
<1> HIDE DEF e
<1>3. /\ d \in Seq(ChainRequests)
      /\ Len(c) \in Nat /\ Len(d) = Len(c) + n
      /\ \A i \in 1 .. Len(c) + n : d[i] = IF i <= Len(c) THEN c[i] ELSE e[i - Len(c)]
  BY <1>2
<1> HIDE DEF d
<1>4. \A i \in 1 .. Len(d) :
        \/ i \in 1 .. Len(c) /\ d[i] = c[i]
        \/ d[i].op = "release" /\ place[d[i].run] \in Later
  BY <1>1, <1>3
<1>5. ASSUME NEW i \in 1 .. Len(d), NEW j \in 1 .. Len(d),
             place[d[i].run] = "acquiring", d[j].run = d[i].run
      PROVE  d[i].op = "acquire" /\ j = i
  <2>1. /\ i \in 1 .. Len(c) /\ d[i] = c[i]
        /\ j \in 1 .. Len(c) /\ d[j] = c[j]
    BY <1>4, <1>5 DEF Later
  <2> QED
    BY <1>5, <2>1 DEF ChainOK
<1>6. ChainOK(d, place)
  <2>1. \A i \in 1 .. Len(d) : d[i].op = "acquire" => place[d[i].run] = "acquiring"
    BY <1>4 DEF ChainOK
  <2>2. \A i \in 1 .. Len(d) : place[d[i].run] \notin {"idle", "waiting"}
    BY <1>4 DEF ChainOK, Later
  <2> QED
    BY <1>5, <2>1, <2>2 DEF ChainOK
<1> QED
  BY <1>3, <1>6 DEF d, e

-----------------------------------------------------------------------------
(* The steps, as far as the chain and the places go.                       *)

ChainPart ==
  /\ chain \in Seq(ChainRequests)
  /\ pc \in [Runs -> Places]
  /\ ChainOK(chain, pc)

LEMMA ChainPartHolds == IInv => ChainPart
BY DEF IInv, TypeOK, ChainPart, ChainRequests

LEMMA HoldersAreLater == IInv => permits \subseteq Runs /\ \A r \in permits : pc[r] \in Later
BY DEF IInv, TypeOK, PermitsOwned, Later, Places

(* A dispatch past its acquire moves on and issues at most one request. *)
LEMMA PastAcquire ==
  ASSUME ChainPart, NEW r \in Runs, pc[r] \in Later,
         NEW op \in {"bind", "release", "heartbeat"}, NEW p \in Later,
         chain' = chain \/ chain' = Append(chain, Request(op, r)),
         pc' = pc \/ pc' = [pc EXCEPT ![r] = p]
  PROVE  ChainPart'
<1>1. Request(op, r) \in ChainRequests /\ p \in Places
  BY DEF Request, ChainRequests, Later
<1>2. pc' \in [Runs -> Places] /\ pc'[r] \in Later /\ ChainOK(chain, pc')
  BY <1>1, ChainMoves DEF ChainPart
<1>3. chain' \in Seq(ChainRequests)
  BY <1>1, Appended DEF ChainPart
<1>4. ChainOK(chain', pc')
  BY <1>2, ChainGrows DEF ChainPart
<1> QED
  BY <1>2, <1>3, <1>4 DEF ChainPart

(* The head of the chain is answered. *)
LEMMA HeadAnswered ==
  ASSUME ChainPart, chain # <<>>, chain' = Tail(chain), NEW p \in Places,
         p \in Later \/ (p = "waiting" /\ Head(chain).op = "acquire"),
         pc' = pc \/ pc' = [pc EXCEPT ![Head(chain).run] = p]
  PROVE  ChainPart'
<1>1. chain' \in Seq(ChainRequests)
  BY Shortened DEF ChainPart
<1>2. pc' \in [Runs -> Places]
  BY DEF ChainPart
<1>3. ChainOK(chain', pc')
  BY ChainShrinks, ChainAnswers DEF ChainPart
<1> QED
  BY <1>1, <1>2, <1>3 DEF ChainPart

(* Only a dispatch that waits for its permit has an acquire in the chain.  *)
LEMMA AcquireInFlight ==
  ASSUME ChainPart, chain # <<>>
  PROVE  /\ Head(chain).run \in Runs
         /\ Head(chain).op = "acquire" => pc[Head(chain).run] = "acquiring"
<1>1. /\ Head(chain) \in ChainRequests /\ Head(chain) = chain[1]
      /\ Len(chain) \in Nat /\ Len(chain) >= 1
  BY Shortened DEF ChainPart
<1> QED
  BY <1>1 DEF ChainPart, ChainOK, ChainRequests

LEMMA RequestFields ==
  ASSUME NEW op, NEW r PROVE Request(op, r).op = op /\ Request(op, r).run = r
BY DEF Request

LEMMA StepChain ==
  ASSUME IInv, NEW r \in Runs, Step(r)
  PROVE  ChainPart'
<1>0. ChainPart
  BY ChainPartHolds
<1> USE DEF Later, Places
<1>1. CASE Acquire(r)
  <2>1. CASE Goto(r, "done") /\ UNCHANGED chain
    <3>1. \A i \in 1 .. Len(chain) : chain[i].run \in Runs /\ chain[i].run # r
      BY <1>0, <1>1, Runners DEF Acquire, ChainPart, ChainOK
    <3>2. \A i \in 1 .. Len(chain) : pc'[chain[i].run] = pc[chain[i].run]
      BY <1>0, <2>1, <3>1 DEF Goto, ChainPart
    <3> QED
      BY <1>0, <2>1, <3>1, <3>2 DEF Goto, ChainPart, ChainOK
  <2>2. CASE Goto(r, "acquiring") /\ Issue("acquire", r)
    <3>1. ChainOK(chain', pc')
      BY <1>0, <1>1, <2>2, ChainAcquires DEF Acquire, Goto, Issue, ChainPart
    <3>2. Request("acquire", r) \in ChainRequests
      BY DEF Request, ChainRequests
    <3> QED
      BY <1>0, <2>2, <3>1, <3>2, Appended DEF Goto, Issue, ChainPart
  <2> QED
    BY <1>1, <2>1, <2>2 DEF Acquire
<1>2. CASE Granted(r)
  <2>1. chain # <<>> /\ Head(chain).op = "acquire" /\ Head(chain).run = r
    BY <1>2, RequestFields DEF Granted, AtHead
  <2>2. CASE chain' = Tail(chain) /\ Goto(r, "starting")
    BY <1>0, <2>1, <2>2, HeadAnswered DEF Goto
  <2>3. CASE chain' = Append(Tail(chain), Request("release", r)) /\ Goto(r, "refused")
    <3>1. ChainOK(Tail(chain), pc')
      BY <1>0, <2>1, <2>3, ChainAnswers DEF Goto, ChainPart
    <3>2. Tail(chain) \in Seq(ChainRequests) /\ Request("release", r) \in ChainRequests
      BY <1>0, <2>1, Shortened DEF ChainPart, Request, ChainRequests
    <3>3. pc' \in [Runs -> Places] /\ pc'[r] = "refused"
      BY <1>0, <2>3 DEF Goto, ChainPart
    <3>4. ChainOK(chain', pc')
      BY <2>3, <3>1, <3>2, <3>3, ChainGrows
    <3> QED
      BY <2>3, <3>2, <3>3, <3>4, Appended DEF ChainPart
  <2> QED
    BY <1>2, <2>2, <2>3 DEF Granted
<1>3. CASE PoolFull(r)
  BY <1>0, <1>3, HeadAnswered, RequestFields DEF PoolFull, AtHead, Goto
<1>4. CASE Undo(r)
  BY <1>0, <1>4, PastAcquire DEF Undo, Release, Issue, Goto
<1>5. CASE Released(r)
  BY <1>0, <1>5, HeadAnswered, RequestFields DEF Released, AfterRelease, AtHead, Goto
<1>6. CASE StartRun(r)
  BY <1>0, <1>6, PastAcquire DEF StartRun, Goto
<1>7. CASE StartFails(r)
  BY <1>0, <1>7, PastAcquire DEF StartFails, Goto
<1>8. CASE Bind(r)
  BY <1>0, <1>8, PastAcquire DEF Bind, Issue, Goto
<1>9. CASE Bound(r)
  BY <1>0, <1>9, HeadAnswered, RequestFields DEF Bound, AtHead, Goto
<1>10. CASE Check(r)
  BY <1>0, <1>10, PastAcquire DEF Check, Release, Issue, Goto
<1>11. CASE CleanupSession(r)
  <2>1. CASE r \in permits
    BY <1>0, <1>11, <2>1, HoldersAreLater, PastAcquire DEF CleanupSession, Release, Issue
  <2>2. CASE r \notin permits
    BY <1>0, <1>11, <2>2 DEF CleanupSession, Release, ChainPart
  <2> QED
    BY <2>1, <2>2
<1>12. CASE Heartbeat(r)
  BY <1>0, <1>12, HoldersAreLater, PastAcquire DEF Heartbeat, Issue
<1>13. CASE HeartbeatAnswered(r)
  <2>1. chain # <<>> /\ chain' = Tail(chain) /\ pc' = pc
    BY <1>13 DEF HeartbeatAnswered, AtHead
  <2> QED
    BY <1>0, <2>1, Shortened, ChainShrinks DEF ChainPart
<1>14. CASE CallFails(r)
  <2>1. chain # <<>> /\ chain' = Tail(chain) /\ Head(chain).run = r
    BY <1>14 DEF CallFails
  <2>2. Head(chain).op \in {"acquire", "bind", "release", "heartbeat"}
    <3>1. Head(chain) \in ChainRequests
      BY <1>0, <2>1, Shortened DEF ChainPart
    <3> QED
      BY <3>1 DEF ChainRequests
  <2>3. pc' = pc \/ pc' = [pc EXCEPT ![r] = "done"] \/ pc' = [pc EXCEPT ![r] = "undo"]
    BY <1>14, <2>2 DEF CallFails, AfterRelease, Goto
  <2>4. "done" \in Later /\ "undo" \in Later
    OBVIOUS
  <2> HIDE DEF Later, Places
  <2> QED
    BY <1>0, <2>1, <2>3, <2>4, HeadAnswered DEF Later
<1>15. CASE UNCHANGED <<chain, pc>>
  BY <1>0, <1>15 DEF ChainPart
<1>16. CASE EngineEnds(r) \/ RunEnds(r) \/ Expire(r)
  BY <1>15, <1>16 DEF EngineEnds, RunEnds, Expire
<1> QED
  BY <1>1, <1>2, <1>3, <1>4, <1>5, <1>6, <1>7, <1>8, <1>9, <1>10, <1>11, <1>12,
     <1>13, <1>14, <1>16 DEF Step

LEMMA GlobalChain ==
  ASSUME IInv, CoreDies \/ Reconcile \/ Resume \/ Close
  PROVE  ChainPart'
<1>0. ChainPart
  BY ChainPartHolds
<1>1. CASE CoreDies
  <2>1. CASE UNCHANGED <<chain, pc>>
    BY <1>0, <2>1 DEF ChainPart
  <2>2. CASE /\ chain # <<>> /\ chain' = Tail(chain)
             /\ pc' = [pc EXCEPT ![Head(chain).run] = AfterRejection(Head(chain))]
    <3> DEFINE r == Head(chain).run
    <3>1. r \in Runs
      BY <1>0, <2>2, AcquireInFlight
    <3>2. pc' = pc \/ \E p \in Later : pc' = [pc EXCEPT ![r] = p]
      <4>1. AfterRejection(Head(chain)) \in {"undo", "done", pc[r]}
        BY DEF AfterRejection
      <4> QED
        BY <1>0, <2>2, <3>1, <4>1 DEF ChainPart, Later, Places
    <3>3. CASE pc' = pc
      BY <1>0, <2>2, <3>3, Shortened, ChainShrinks DEF ChainPart
    <3>4. ASSUME NEW p \in Later, pc' = [pc EXCEPT ![r] = p] PROVE ChainPart'
      BY <1>0, <2>2, <3>4, HeadAnswered DEF Later
    <3> QED
      BY <3>2, <3>3, <3>4
  <2> QED
    BY <1>1, <2>1, <2>2 DEF CoreDies, Goto
<1>2. CASE Reconcile \/ Resume
  BY <1>0, <1>2 DEF Reconcile, Resume, ChainPart
<1>3. CASE Close
  <2>1. Cardinality(permits) \in Nat
    <3>1. permits \in SUBSET Runs
      BY HoldersAreLater
    <3>2. IsFiniteSet(Runs)
      BY CoordinatorAssumption
    <3>3. IsFiniteSet(permits)
      BY <3>1, <3>2, FS_Subset, Zenon
    <3> QED
      BY <3>3, FS_CardinalityType
  <2>2. PICK order \in [1 .. Cardinality(permits) -> permits] :
          chain' = chain \o [i \in DOMAIN order |-> Request("release", order[i])]
    BY <1>3 DEF Close
  <2>3. /\ order \in [1 .. Cardinality(permits) -> Runs]
        /\ \A i \in 1 .. Cardinality(permits) : pc[order[i]] \in Later
    BY <2>2, HoldersAreLater
  <2>4. chain' \in Seq(ChainRequests) /\ ChainOK(chain', pc)
    BY <1>0, <2>1, <2>2, <2>3, ChainCloses DEF ChainPart
  <2> QED
    BY <1>0, <1>3, <2>4 DEF ChainPart, Close
<1> QED
  BY <1>1, <1>2, <1>3

-----------------------------------------------------------------------------
(* The steps, as far as permits, runs and the recovery go.                 *)

HeldTypes ==
  /\ core \subseteq Runs /\ permits \subseteq Runs /\ bound \subseteq permits
  /\ blocked \in BOOLEAN /\ closing \in BOOLEAN
  /\ run \in [Runs -> {"none", "running", "ended"}]
  /\ cleanup \in [Runs -> {"none", "due", "done"}]
  /\ engine \subseteq Runs /\ lost \subseteq Runs
  /\ recovery \in {"none", "due", "saving"} /\ deaths \in Nat
  /\ disturbed \in BOOLEAN /\ strayed \subseteq Runs

LEMMA PartsSuffice ==
  /\ ChainPart /\ HeldTypes => TypeOK
  /\ IInv => HeldTypes
BY DEF ChainPart, HeldTypes, IInv, TypeOK, ChainRequests

LEMMA StepTypes ==
  ASSUME IInv, NEW r \in Runs, Step(r)
  PROVE  HeldTypes'
<1>0. HeldTypes
  BY PartsSuffice
<1> USE DEF HeldTypes, coordinatorVars, runVars, coreVars
<1>1. CASE Acquire(r) \/ PoolFull(r) \/ Heartbeat(r) \/ Bind(r)
  BY <1>0, <1>1 DEF Acquire, PoolFull, Heartbeat, Bind
<1>2. CASE Granted(r)
  BY <1>0, <1>2 DEF Granted
<1>3. CASE Undo(r) \/ CleanupSession(r)
  BY <1>0, <1>3 DEF Undo, CleanupSession, Release
<1>4. CASE Released(r) \/ Bound(r)
  BY <1>0, <1>4 DEF Released, Bound
<1>5. CASE StartRun(r) \/ StartFails(r) \/ EngineEnds(r) \/ RunEnds(r)
  BY <1>0, <1>5 DEF StartRun, StartFails, EngineEnds, RunEnds, Strays
<1>6. CASE Check(r)
  BY <1>0, <1>6 DEF Check, Release
<1>7. CASE HeartbeatAnswered(r)
  BY <1>0, <1>7 DEF HeartbeatAnswered, DropPermit
<1>8. CASE CallFails(r)
  <2>1. /\ UNCHANGED <<blocked, closing, runVars, deaths, recovery>> /\ disturbed' = TRUE
        /\ chain # <<>>
    BY <1>8 DEF CallFails
  <2>2. Head(chain).op \in {"acquire", "bind", "release", "heartbeat"}
    <3>1. Head(chain) \in ChainRequests
      BY <2>1, ChainPartHolds, Shortened DEF ChainPart
    <3> QED
      BY <3>1 DEF ChainRequests
  <2>3. core' \subseteq Runs
    BY <1>0, <1>8, <2>2 DEF CallFails
  <2>4. permits' \subseteq Runs /\ bound' \subseteq permits'
    BY <1>0, <1>8, <2>2 DEF CallFails, DropPermit
  <2>5. strayed' \subseteq Runs
    BY <1>0, <1>8 DEF CallFails
  <2> QED
    BY <1>0, <2>1, <2>3, <2>4, <2>5
<1>9. CASE Expire(r)
  <2>1. disturbed' \in BOOLEAN /\ strayed' \subseteq Runs
    BY <1>0, <1>9 DEF Expire
  <2> QED
    BY <1>0, <1>9, <2>1 DEF Expire
<1> QED
  BY <1>1, <1>2, <1>3, <1>4, <1>5, <1>6, <1>7, <1>8, <1>9 DEF Step

(* A permit comes only from a grant that finds the coordinator neither     *)
(* closing nor blocked.                                                    *)
LEMMA OnlyGrantRegisters ==
  ASSUME IInv, NEW r \in Runs, Step(r)
  PROVE  /\ UNCHANGED <<blocked, closing, recovery>> /\ lost' \subseteq lost
         /\ permits' \subseteq permits \/ (~closing /\ ~blocked)
<1> USE DEF coordinatorVars, runVars, coreVars
<1>1. CASE Acquire(r) \/ PoolFull(r) \/ Heartbeat(r) \/ Bind(r) \/ Expire(r)
  BY <1>1 DEF Acquire, PoolFull, Heartbeat, Bind, Expire
<1>2. CASE Granted(r)
  BY <1>2 DEF Granted, Registers
<1>3. CASE Undo(r) \/ CleanupSession(r) \/ Check(r)
  BY <1>3 DEF Undo, CleanupSession, Check, Release
<1>4. CASE Released(r) \/ Bound(r)
  BY <1>4 DEF Released, Bound
<1>5. CASE StartRun(r) \/ StartFails(r) \/ EngineEnds(r) \/ RunEnds(r)
  BY <1>5 DEF StartRun, StartFails, EngineEnds, RunEnds
<1>6. CASE HeartbeatAnswered(r)
  BY <1>6 DEF HeartbeatAnswered, DropPermit
<1>7. CASE CallFails(r)
  <2>1. chain # <<>> /\ UNCHANGED <<blocked, closing, runVars, recovery>>
    BY <1>7 DEF CallFails
  <2>2. Head(chain).op \in {"acquire", "bind", "release", "heartbeat"}
    <3>1. Head(chain) \in ChainRequests
      BY <2>1, ChainPartHolds, Shortened DEF ChainPart
    <3> QED
      BY <3>1 DEF ChainRequests
  <2>3. permits' \subseteq permits
    BY <1>7, <2>2 DEF CallFails, DropPermit
  <2> QED
    BY <2>1, <2>3
<1> QED
  BY <1>1, <1>2, <1>3, <1>4, <1>5, <1>6, <1>7 DEF Step

-----------------------------------------------------------------------------
(* The steps, as far as the owners of permits go.                          *)

LEMMA StepOwned ==
  ASSUME IInv, NEW r \in Runs, Step(r)
  PROVE  PermitsOwned'
<1>0. /\ PermitsOwned /\ HeldTypes /\ ChainPart
      /\ pc \in [Runs -> Places]
      /\ permits \subseteq Runs /\ bound \subseteq permits
      /\ run \in [Runs -> {"none", "running", "ended"}]
      /\ cleanup \in [Runs -> {"none", "due", "done"}]
  BY PartsSuffice, ChainPartHolds DEF IInv, HeldTypes, ChainPart
<1> USE DEF PermitsOwned, coordinatorVars, runVars, coreVars, Goto
<1>1. CASE Acquire(r)
  BY <1>0, <1>1 DEF Acquire
<1>2. ASSUME chain # <<>>, Head(chain).op = "acquire", Head(chain).run = r
      PROVE  pc[r] = "acquiring" /\ r \notin permits
  BY <1>0, <1>2, AcquireInFlight
<1>3. CASE Granted(r)
  <2>1. pc[r] = "acquiring" /\ r \notin permits
    BY <1>2, <1>3, RequestFields DEF Granted, AtHead
  <2>2. CASE permits' = permits \cup {r} /\ pc' = [pc EXCEPT ![r] = "starting"]
    BY <1>0, <1>3, <2>1, <2>2 DEF Granted
  <2>3. CASE permits' = permits /\ pc' = [pc EXCEPT ![r] = "refused"]
    BY <1>0, <1>3, <2>1, <2>3 DEF Granted
  <2> QED
    BY <1>3, <2>2, <2>3 DEF Granted
<1>4. CASE PoolFull(r)
  <2>1. pc[r] = "acquiring" /\ r \notin permits
    BY <1>2, <1>4, RequestFields DEF PoolFull, AtHead
  <2> QED
    BY <1>0, <1>4, <2>1 DEF PoolFull
<1>5. CASE Undo(r)
  BY <1>0, <1>5 DEF Undo, Release
<1>6. CASE Released(r)
  BY <1>0, <1>6 DEF Released, AfterRelease
<1>7. CASE StartRun(r)
  BY <1>0, <1>7 DEF StartRun
<1>8. CASE StartFails(r)
  BY <1>0, <1>8 DEF StartFails
<1>9. CASE Bind(r)
  BY <1>0, <1>9 DEF Bind
<1>10. CASE Bound(r)
  BY <1>0, <1>10 DEF Bound
<1>11. CASE Check(r)
  BY <1>0, <1>11 DEF Check, Release
<1>12. CASE EngineEnds(r)
  BY <1>0, <1>12 DEF EngineEnds
<1>13. CASE RunEnds(r)
  BY <1>0, <1>13 DEF RunEnds
<1>14. CASE CleanupSession(r)
  BY <1>0, <1>14 DEF CleanupSession, Release
<1>15. CASE Heartbeat(r) \/ Expire(r)
  BY <1>0, <1>15 DEF Heartbeat, Expire
<1>16. CASE HeartbeatAnswered(r)
  BY <1>0, <1>16 DEF HeartbeatAnswered, DropPermit
<1>17. CASE CallFails(r)
  <2>1. chain # <<>> /\ Head(chain).run = r /\ UNCHANGED <<run, cleanup>>
    BY <1>17 DEF CallFails
  <2>2. Head(chain).op \in {"acquire", "bind", "release", "heartbeat"}
    <3>1. Head(chain) \in ChainRequests
      BY <1>0, <2>1, Shortened DEF ChainPart
    <3> QED
      BY <3>1 DEF ChainRequests
  <2>3. CASE Head(chain).op = "acquire"
    <3>1. r \notin permits /\ UNCHANGED <<permits, bound>> /\ pc' = [pc EXCEPT ![r] = "done"]
      BY <1>2, <1>17, <2>1, <2>3 DEF CallFails
    <3> QED
      BY <1>0, <2>1, <3>1
  <2>4. CASE Head(chain).op = "bind"
    <3>1. UNCHANGED <<permits, bound>> /\ pc' = [pc EXCEPT ![r] = "undo"]
      BY <1>17, <2>4 DEF CallFails
    <3> QED
      BY <1>0, <2>1, <3>1
  <2>5. CASE Head(chain).op = "release"
    <3>1. UNCHANGED <<permits, bound>> /\ AfterRelease(r)
      BY <1>17, <2>5 DEF CallFails
    <3> QED
      BY <1>0, <2>1, <3>1 DEF AfterRelease
  <2>6. CASE Head(chain).op = "heartbeat"
    <3>1. UNCHANGED pc /\ DropPermit(r)
      BY <1>17, <2>6 DEF CallFails
    <3> QED
      BY <1>0, <2>1, <3>1 DEF DropPermit
  <2> QED
    BY <2>2, <2>3, <2>4, <2>5, <2>6
<1> QED
  BY <1>1, <1>3, <1>4, <1>5, <1>6, <1>7, <1>8, <1>9, <1>10, <1>11, <1>12, <1>13,
     <1>14, <1>15, <1>16, <1>17 DEF Step

LEMMA GlobalHeld ==
  ASSUME IInv, CoreDies \/ Reconcile \/ Resume \/ Close
  PROVE  HeldTypes' /\ PermitsOwned' /\ RecoveryBlocks' /\ ClosedHoldsNothing'
<1>0. HeldTypes /\ PermitsOwned /\ RecoveryBlocks /\ ClosedHoldsNothing
  BY PartsSuffice DEF IInv
<1> USE DEF HeldTypes, PermitsOwned, RecoveryBlocks, ClosedHoldsNothing
<1>1. CASE CoreDies
  BY <1>0, <1>1 DEF CoreDies, BlockedAfterExit
<1>2. CASE Reconcile
  BY <1>0, <1>2 DEF Reconcile, coordinatorVars
<1>3. CASE Resume
  BY <1>0, <1>3 DEF Resume, runVars
<1>4. CASE Close
  BY <1>0, <1>4 DEF Close, runVars, coreVars
<1> QED
  BY <1>1, <1>2, <1>3, <1>4

-----------------------------------------------------------------------------
(* The invariant.                                                          *)

LEMMA InvInit == Init => IInv
<1> SUFFICES ASSUME Init PROVE IInv
  OBVIOUS
<1>1. <<>> \in Seq(ChainRequests) /\ Len(<<>>) = 0
  OBVIOUS
<1>2. ChainPart
  BY <1>1 DEF Init, ChainPart, ChainOK, Places
<1>3. HeldTypes
  BY DEF Init, HeldTypes
<1>4. PermitsOwned /\ RecoveryBlocks /\ ClosedHoldsNothing
  BY DEF Init, PermitsOwned, RecoveryBlocks, ClosedHoldsNothing
<1> QED
  BY <1>2, <1>3, <1>4, PartsSuffice DEF IInv, ChainPart

LEMMA InvStep == IInv /\ [Next]_vars => IInv'
<1> SUFFICES ASSUME IInv, [Next]_vars PROVE IInv'
  OBVIOUS
<1>1. CASE UNCHANGED vars
  BY <1>1 DEF vars, coordinatorVars, runVars, coreVars, IInv, TypeOK, PermitsOwned,
     RecoveryBlocks, ClosedHoldsNothing
<1>2. ASSUME NEW r \in Runs, Step(r)
      PROVE  ChainPart' /\ HeldTypes' /\ PermitsOwned' /\ RecoveryBlocks' /\ ClosedHoldsNothing'
  <2>1. RecoveryBlocks' /\ ClosedHoldsNothing'
    BY <1>2, OnlyGrantRegisters DEF IInv, RecoveryBlocks, ClosedHoldsNothing
  <2> QED
    BY <1>2, <2>1, StepChain, StepTypes, StepOwned
<1>3. CASE CoreDies \/ Reconcile \/ Resume \/ Close
  BY <1>3, GlobalChain, GlobalHeld DEF IInv, TypeOK, ChainPart, HeldTypes, ChainRequests
<1>4. ASSUME NEW r \in Runs, Step(r) PROVE IInv'
  BY <1>2, <1>4 DEF IInv, TypeOK, ChainPart, HeldTypes, ChainRequests
<1> QED
  BY <1>1, <1>3, <1>4 DEF Next

LEMMA InvHolds == Spec => []IInv
BY InvInit, InvStep, PTL DEF Spec

(* The coordinator's maps, its chain and the runs stay what the code takes *)
(* them for, and a bound session's permit is one that is held.             *)
THEOREM TypeCorrect == Spec => []TypeOK
<1>1. IInv => TypeOK
  BY DEF IInv
<1> QED
  BY <1>1, InvHolds, PTL

(* close(): nothing is registered after its snapshot.                      *)
THEOREM ClosedIsEmpty == Spec => []ClosedHoldsNothing
<1>1. IInv => ClosedHoldsNothing
  BY DEF IInv
<1> QED
  BY <1>1, InvHolds, PTL

(* A dispatch that is over, with its run and its cleanup, left no permit   *)
(* behind for the heartbeat to renew, whatever failed on the way.          *)
THEOREM NothingLeaks == Spec => []NoPermitLeak
<1>1. IInv => NoPermitLeak
  BY DEF IInv, PermitsOwned, NoPermitLeak, Over
<1> QED
  BY <1>1, InvHolds, PTL

(* No dispatch gets a permit while a run that nd-core's death interrupted  *)
(* has not been reconciled.                                                *)
THEOREM DispatchAfterReconciliation == Spec => ReconciledBeforeDispatch
<1>1. ASSUME IInv, [Next]_vars
      PROVE  [\A r \in Runs : r \notin permits /\ r \in permits' => lost = {}]_vars
  <2>1. ASSUME NEW r \in Runs, r \notin permits, r \in permits' PROVE lost = {}
    <3>1. CASE UNCHANGED vars
      BY <2>1, <3>1 DEF vars, coordinatorVars
    <3>2. ASSUME NEW t \in Runs, Step(t) PROVE lost = {}
      BY <1>1, <2>1, <3>2, OnlyGrantRegisters DEF IInv, RecoveryBlocks
    <3>3. CASE CoreDies \/ Reconcile \/ Resume \/ Close
      BY <2>1, <3>3 DEF CoreDies, Reconcile, Resume, Close, coordinatorVars
    <3> QED
      BY <1>1, <3>1, <3>2, <3>3 DEF Next
  <2> QED
    BY <2>1
<1> QED
  BY <1>1, InvHolds, PTL DEF Spec, ReconciledBeforeDispatch
-----------------------------------------------------------------------------
(* The scheduler's side: what its pool holds, and what works under it.     *)

(* A release of r's permit is in flight or waits. *)
DueIn(c, r) == \E i \in 1 .. Len(c) : c[i] = Request("release", r)

(* The dispatches whose engine works or is about to, strays excepted. *)
InUse == {r \in Runs : pc[r] = "starting"} \cup engine
Kept == InUse \ strayed

(* A permit that is held is not on its way back. Until close() gives the   *)
(* permits back under the feet of their runs, an engine that did not stray *)
(* works under a permit the scheduler knows, for a run that goes on.       *)
KeptHolds(r) ==
  /\ r \in permits => ~DueIn(chain, r)
  /\ pc[r] \in {"idle", "acquiring", "waiting", "starting"} => run[r] = "none" /\ r \notin engine
  /\ cleanup[r] # "none" => run[r] = "ended"
  /\ ~closing /\ r \in Kept =>
       /\ r \in permits /\ r \in core
       /\ pc[r] \in {"starting", "bind", "binding", "check", "done"}
       /\ r \in engine => run[r] = "running"

(* What the scheduler holds is held by the coordinator or on its way back. *)
InStep(r) == r \in core => r \in permits \/ DueIn(chain, r)

PoolInv ==
  /\ Cardinality(core) <= Limit
  /\ \A r \in Runs : KeptHolds(r)
  /\ Cardinality(Kept) <= Limit
  /\ ~disturbed => \A r \in Runs : InStep(r)

(* A request of r joins the chain. *)
LEMMA DueGrows ==
  ASSUME NEW c \in Seq(ChainRequests), NEW r \in Runs,
         NEW op \in {"acquire", "bind", "release", "heartbeat"}
  PROVE  /\ \A t \in Runs : DueIn(Append(c, Request(op, r)), t) <=>
                             DueIn(c, t) \/ (t = r /\ op = "release")
         /\ Append(c, Request(op, r)) \in Seq(ChainRequests)
<1> DEFINE e == Request(op, r)
           d == Append(c, e)
<1>1. e \in ChainRequests /\ e.op = op /\ e.run = r
  BY DEF Request, ChainRequests
<1>2. \A t \in Runs : e = Request("release", t) <=> t = r /\ op = "release"
  BY DEF Request
<1> HIDE DEF e
<1>3. /\ Len(c) \in Nat /\ Len(d) = Len(c) + 1 /\ d \in Seq(ChainRequests)
      /\ \A i \in 1 .. Len(c) + 1 : d[i] = IF i = Len(c) + 1 THEN e ELSE c[i]
  BY <1>1, Appended
<1> HIDE DEF d
<1>4. \A t \in Runs : DueIn(d, t) <=> DueIn(c, t) \/ e = Request("release", t)
  BY <1>3 DEF DueIn
<1> QED
  BY <1>2, <1>3, <1>4 DEF d, e

(* The head of the chain, a request of r, is answered. *)
LEMMA DueShrinks ==
  ASSUME NEW c \in Seq(ChainRequests), NEW r \in Runs, c # <<>>, NEW op,
         Head(c) = Request(op, r)
  PROVE  /\ Tail(c) \in Seq(ChainRequests)
         /\ \A t \in Runs : t # r \/ op # "release" => (DueIn(Tail(c), t) <=> DueIn(c, t))
         /\ op = "release" => DueIn(c, r)
<1> DEFINE d == Tail(c)
<1>1. /\ Head(c) = c[1] /\ d \in Seq(ChainRequests)
      /\ Len(c) \in Nat /\ Len(c) >= 1 /\ Len(d) = Len(c) - 1
      /\ \A i \in 1 .. Len(c) - 1 : d[i] = c[i + 1]
  BY Shortened
<1>2. \A t \in Runs : t # r \/ op # "release" => c[1] # Request("release", t)
  BY <1>1 DEF Request
<1> HIDE DEF d
<1>3. \A t \in Runs : DueIn(d, t) => DueIn(c, t)
  BY <1>1 DEF DueIn
<1>4. ASSUME NEW t \in Runs, t # r \/ op # "release", DueIn(c, t) PROVE DueIn(d, t)
  <2>1. PICK i \in 1 .. Len(c) : c[i] = Request("release", t)
    BY <1>4 DEF DueIn
  <2>2. i - 1 \in 1 .. Len(d) /\ d[i - 1] = c[i]
    BY <1>1, <1>2, <1>4, <2>1
  <2> QED
    BY <2>1, <2>2 DEF DueIn
<1> QED
  BY <1>1, <1>3, <1>4 DEF d, DueIn

(* Before its permit is granted a dispatch has nothing to release. *)
LEMMA AcquiringOwesNothing ==
  ASSUME ChainPart, NEW r \in Runs, pc[r] = "acquiring" PROVE ~DueIn(chain, r)
<1> SUFFICES ASSUME NEW i \in 1 .. Len(chain), chain[i] = Request("release", r) PROVE FALSE
  BY DEF DueIn
<1> QED
  BY RequestFields DEF ChainPart, ChainOK

(* What a step of r leaves alone: every other dispatch. *)
Apart(r) ==
  \A t \in Runs \ {r} :
    /\ pc'[t] = pc[t] /\ run'[t] = run[t] /\ cleanup'[t] = cleanup[t]
    /\ t \in permits' <=> t \in permits
    /\ t \in core' <=> t \in core
    /\ t \in engine' <=> t \in engine
    /\ t \in strayed' <=> t \in strayed
    /\ DueIn(chain', t) <=> DueIn(chain, t)

(* A step of r keeps what r holds in order, and leaves others apart.       *)
LEMMA StepKept ==
  ASSUME IInv, NEW r \in Runs, Step(r), KeptHolds(r)
  PROVE  /\ KeptHolds(r)' /\ Apart(r) /\ closing' = closing
         /\ closing => Kept' \subseteq Kept
         /\ ~disturbed' /\ InStep(r) => ~disturbed /\ InStep(r)'
<1>0. /\ chain \in Seq(ChainRequests) /\ pc \in [Runs -> Places]
      /\ permits \subseteq Runs /\ bound \subseteq permits /\ engine \subseteq Runs
      /\ run \in [Runs -> {"none", "running", "ended"}]
      /\ cleanup \in [Runs -> {"none", "due", "done"}]
      /\ \A t \in permits : pc[t] \in Later
      /\ pc[r] = "acquiring" => ~DueIn(chain, r)
  BY PartsSuffice, ChainPartHolds, HoldersAreLater, AcquiringOwesNothing
     DEF HeldTypes, ChainPart
<1>a. \A op \in {"acquire", "bind", "release", "heartbeat"} :
        Issue(op, r) => \A t \in Runs : DueIn(chain', t) <=>
                          DueIn(chain, t) \/ (t = r /\ op = "release")
  BY <1>0, DueGrows DEF Issue
<1>b. ASSUME NEW op, AtHead(op, r), chain' = Tail(chain)
      PROVE  /\ \A t \in Runs : t # r \/ op # "release" =>
                   (DueIn(chain', t) <=> DueIn(chain, t))
             /\ op = "release" => DueIn(chain, r)
  BY <1>0, <1>b, DueShrinks DEF AtHead
<1> USE DEF KeptHolds, InStep, Apart, InUse, Kept, coordinatorVars, runVars, coreVars, Goto
<1>1. CASE Acquire(r)
  BY <1>0, <1>1, <1>a DEF Acquire
<1>2. CASE Granted(r)
  <2>1. AtHead("acquire", r) /\ pc[r] = "acquiring"
    BY <1>2, ChainPartHolds, AcquireInFlight, RequestFields DEF Granted, AtHead
  <2>2. CASE ~closing /\ permits' = permits \cup {r} /\ chain' = Tail(chain)
             /\ pc' = [pc EXCEPT ![r] = "starting"]
    BY <1>0, <1>2, <1>b, <2>1, <2>2 DEF Granted
  <2>3. CASE UNCHANGED permits /\ pc' = [pc EXCEPT ![r] = "refused"]
             /\ chain' = Append(Tail(chain), Request("release", r))
    <3>1. \A t \in Runs : DueIn(chain', t) <=> DueIn(chain, t) \/ t = r
      BY <1>0, <2>1, <2>3, DueShrinks, DueGrows DEF AtHead
    <3> QED
      BY <1>0, <1>2, <2>1, <2>3, <3>1 DEF Granted, Later
  <2> QED
    BY <1>2, <2>2, <2>3 DEF Granted, Registers
<1>3. CASE PoolFull(r)
  <2>1. AtHead("acquire", r) /\ pc[r] = "acquiring"
    BY <1>3, ChainPartHolds, AcquireInFlight, RequestFields DEF PoolFull, AtHead
  <2> QED
    BY <1>0, <1>3, <1>b, <2>1 DEF PoolFull
<1>4. CASE Undo(r)
  BY <1>0, <1>4, <1>a DEF Undo, Release
<1>5. CASE Released(r)
  BY <1>0, <1>5, <1>b DEF Released, AfterRelease
<1>6. CASE StartRun(r)
  BY <1>0, <1>6 DEF StartRun
<1>7. CASE StartFails(r)
  BY <1>0, <1>7 DEF StartFails, Strays
<1>8. CASE Bind(r)
  BY <1>0, <1>8, <1>a DEF Bind
<1>9. CASE Bound(r)
  BY <1>0, <1>9, <1>b DEF Bound
<1>10. CASE Check(r)
  BY <1>0, <1>10, <1>a DEF Check, Release
<1>11. CASE EngineEnds(r) \/ RunEnds(r)
  BY <1>0, <1>11 DEF EngineEnds, RunEnds, Strays
<1>12. CASE CleanupSession(r)
  BY <1>0, <1>12, <1>a DEF CleanupSession, Release
<1>13. CASE Heartbeat(r)
  BY <1>0, <1>13, <1>a DEF Heartbeat
<1>14. CASE HeartbeatAnswered(r)
  BY <1>0, <1>14, <1>b DEF HeartbeatAnswered, DropPermit
<1>15. CASE Expire(r)
  BY <1>0, <1>15 DEF Expire
<1>16. CASE CallFails(r)
  <2>1. /\ chain # <<>> /\ Head(chain).run = r /\ chain' = Tail(chain) /\ disturbed'
        /\ UNCHANGED <<blocked, closing, runVars, deaths, recovery>>
    BY <1>16 DEF CallFails
  <2>2. PICK op \in {"acquire", "bind", "release", "heartbeat"} : AtHead(op, r)
    <3>1. Head(chain) \in ChainRequests
      BY <1>0, <2>1, Shortened
    <3> QED
      BY <2>1, <3>1 DEF ChainRequests, AtHead, Request
  <2>3. /\ \A t \in Runs : t # r \/ op # "release" => (DueIn(chain', t) <=> DueIn(chain, t))
        /\ op = "release" => DueIn(chain, r)
    BY <1>b, <2>1, <2>2
  <2>4. Head(chain).op = op
    BY <2>2, RequestFields DEF AtHead
  <2>5. CASE op = "acquire"
    <3>1. pc[r] = "acquiring"
      BY <2>1, <2>4, <2>5, ChainPartHolds, AcquireInFlight
    <3>2. /\ core' \subseteq core \cup {r} /\ core \subseteq core'
          /\ pc' = [pc EXCEPT ![r] = "done"] /\ UNCHANGED <<permits, bound, strayed>>
      BY <1>16, <2>4, <2>5 DEF CallFails
    <3> QED
      BY <1>0, <2>1, <2>3, <2>5, <3>1, <3>2
  <2>6. CASE op = "bind"
    <3>1. /\ pc' = [pc EXCEPT ![r] = "undo"] /\ UNCHANGED <<core, permits, bound>>
          /\ strayed' = strayed \cup {r}
      BY <1>16, <2>4, <2>6 DEF CallFails
    <3> QED
      BY <1>0, <2>1, <2>3, <2>6, <3>1
  <2>7. CASE op = "release"
    <3>1. /\ core' \in {core, core \ {r}} /\ AfterRelease(r)
          /\ UNCHANGED <<permits, bound, strayed>>
      BY <1>16, <2>4, <2>7 DEF CallFails
    <3> QED
      BY <1>0, <2>1, <2>3, <2>7, <3>1 DEF AfterRelease
  <2>8. CASE op = "heartbeat"
    <3>1. DropPermit(r) /\ UNCHANGED <<core, pc>> /\ strayed' = strayed \cup {r}
      BY <1>16, <2>4, <2>8 DEF CallFails
    <3> QED
      BY <1>0, <2>1, <2>3, <2>8, <3>1 DEF DropPermit
  <2> QED
    BY <2>2, <2>5, <2>6, <2>7, <2>8
<1> QED
  BY <1>1, <1>2, <1>3, <1>4, <1>5, <1>6, <1>7, <1>8, <1>9, <1>10, <1>11, <1>12,
     <1>13, <1>14, <1>15, <1>16 DEF Step

(* close() gives every permit back. *)
LEMMA CloseReleasesAll ==
  ASSUME IInv, Close
  PROVE  \A t \in Runs : DueIn(chain', t) <=> DueIn(chain, t) \/ t \in permits
<1> DEFINE n == Cardinality(permits)
<1>1. IsFiniteSet(permits) /\ n \in Nat
  BY PartsSuffice, CoordinatorAssumption, FS_Subset, FS_CardinalityType DEF HeldTypes
<1>2. PICK order \in [1 .. n -> permits] :
        /\ \A i, j \in DOMAIN order : order[i] = order[j] => i = j
        /\ chain' = chain \o [i \in DOMAIN order |-> Request("release", order[i])]
  BY DEF Close
<1>3. order \in Surjection(1 .. n, permits)
  <2>1. order \in Injection(1 .. n, permits)
    BY <1>2 DEF Injection, IsInjective
  <2>2. Cardinality(1 .. n) = n
    BY <1>1, FS_Interval
  <2> HIDE DEF n
  <2>3. Cardinality(1 .. n) = Cardinality(permits)
    BY <2>2 DEF n
  <2> QED
    BY <1>1, <2>1, <2>3, FS_Injection
<1>4. \A t \in permits : \E i \in 1 .. n : order[i] = t
  BY <1>3 DEF Surjection
<1> DEFINE e == [i \in 1 .. n |-> Request("release", order[i])]
<1>5. /\ \A i \in 1 .. n : e[i] = Request("release", order[i]) /\ order[i] \in permits
      /\ e \in Seq(ChainRequests) /\ Len(e) = n /\ chain' = chain \o e
  <2>1. \A i \in 1 .. n : e[i] \in ChainRequests
    BY PartsSuffice DEF HeldTypes, Request, ChainRequests
  <2>2. DOMAIN order = 1 .. n /\ \A i \in 1 .. n : order[i] \in permits
    BY <1>2
  <2>3. chain' = chain \o e
    BY <1>2, <2>2
  <2> HIDE DEF n
  <2>4. e \in Seq(ChainRequests) /\ Len(e) = n
    BY <1>1, <2>1
  <2> QED
    BY <2>2, <2>3, <2>4
<1> HIDE DEF e, n
<1>6. /\ Len(chain) \in Nat /\ Len(chain') = Len(chain) + n
      /\ \A i \in 1 .. Len(chain) + n :
           chain'[i] = IF i <= Len(chain) THEN chain[i] ELSE e[i - Len(chain)]
  <2>1. chain \in Seq(ChainRequests)
    BY ChainPartHolds DEF ChainPart
  <2> QED
    BY <1>5, <2>1
<1>7. \A t, u : Request("release", t) = Request("release", u) => t = u
  BY RequestFields
<1>8. ASSUME NEW t \in Runs, DueIn(chain', t) PROVE DueIn(chain, t) \/ t \in permits
  <2>1. PICK i \in 1 .. Len(chain) + n : chain'[i] = Request("release", t)
    BY <1>6, <1>8 DEF DueIn
  <2>2. CASE i <= Len(chain)
    BY <1>6, <2>1, <2>2 DEF DueIn
  <2>3. CASE i > Len(chain)
    <3>1. i - Len(chain) \in 1 .. n /\ e[i - Len(chain)] = Request("release", t)
      BY <1>1, <1>6, <2>1, <2>3
    <3> QED
      BY <1>5, <1>7, <3>1
  <2> QED
    BY <1>6, <2>2, <2>3
<1>9. ASSUME NEW t \in Runs, DueIn(chain, t) PROVE DueIn(chain', t)
  BY <1>1, <1>6, <1>9 DEF DueIn
<1>10. ASSUME NEW t \in permits PROVE DueIn(chain', t)
  <2>1. PICK i \in 1 .. n : order[i] = t
    BY <1>4
  <2>2. i + Len(chain) \in 1 .. Len(chain') /\ chain'[i + Len(chain)] = e[i]
    BY <1>1, <1>6
  <2> QED
    BY <1>5, <2>1, <2>2 DEF DueIn
<1> QED
  BY <1>8, <1>9, <1>10

(* The scheduler grants a place only while one is free. *)
LEMMA StepBounded ==
  ASSUME IInv, NEW r \in Runs, Step(r)
  PROVE  core' \subseteq core \/ (core' = core \cup {r} /\ Cardinality(core) < Limit)
<1> USE DEF coreVars
<1>1. CASE Granted(r)
  BY <1>1 DEF Granted
<1>2. CASE Released(r) \/ Expire(r)
  BY <1>2 DEF Released, Expire
<1>3. CASE CallFails(r)
  <2>1. chain # <<>>
    BY <1>3 DEF CallFails
  <2>2. Head(chain).op \in {"acquire", "bind", "release", "heartbeat"}
    <3>1. Head(chain) \in ChainRequests
      BY <2>1, ChainPartHolds, Shortened DEF ChainPart
    <3> QED
      BY <3>1 DEF ChainRequests
  <2> QED
    BY <1>3, <2>2 DEF CallFails
<1> QED
  BY <1>1, <1>2, <1>3 DEF Step, Acquire, PoolFull, Undo, StartRun, StartFails, Bind,
     Bound, Check, EngineEnds, RunEnds, CleanupSession, Heartbeat, HeartbeatAnswered

LEMMA PoolStep == IInv /\ IInv' /\ PoolInv /\ [Next]_vars => PoolInv'
<1> SUFFICES ASSUME IInv, IInv', PoolInv, [Next]_vars PROVE PoolInv'
  OBVIOUS
<1> USE DEF PoolInv
<1>0. /\ IsFiniteSet(core) /\ Cardinality(core) \in Nat /\ Limit \in Nat
      /\ IsFiniteSet(core') /\ core' \subseteq Runs
  BY PartsSuffice, CoordinatorAssumption, FS_Subset, FS_CardinalityType DEF IInv, TypeOK
<1>f. IsFiniteSet(Kept)
  BY CoordinatorAssumption, FS_Subset DEF IInv, TypeOK, InUse, Kept
(* While an engine works under a permit, there are no more than places. *)
<1>p. ASSUME ~closing', \A t \in Runs : KeptHolds(t)', Cardinality(core') <= Limit
      PROVE  Cardinality(Kept') <= Limit
  <2>1. Kept' \subseteq core'
    BY <1>p DEF KeptHolds, InUse, Kept, IInv, TypeOK
  <2>2. Cardinality(Kept') <= Cardinality(core') /\ Cardinality(core') \in Nat
        /\ Cardinality(Kept') \in Nat
    BY <1>0, <2>1, FS_Subset, FS_CardinalityType
  <2> QED
    BY <1>0, <1>p, <2>2
<1>s. ASSUME Kept' \subseteq Kept PROVE Cardinality(Kept') <= Limit
  <2>1. Cardinality(Kept') <= Cardinality(Kept) /\ Cardinality(Kept) \in Nat
        /\ Cardinality(Kept') \in Nat
    BY <1>f, <1>s, FS_Subset, FS_CardinalityType
  <2> QED
    BY <1>0, <2>1
<1>c. ASSUME core' \subseteq core PROVE Cardinality(core') <= Limit
  <2>1. Cardinality(core') <= Cardinality(core) /\ Cardinality(core') \in Nat
    BY <1>0, <1>c, FS_Subset, FS_CardinalityType
  <2> QED
    BY <1>0, <2>1
<1>1. CASE UNCHANGED vars
  BY <1>1, <1>c, <1>s DEF vars, coordinatorVars, runVars, coreVars, KeptHolds, InStep,
     InUse, Kept
<1>2. ASSUME NEW r \in Runs, Step(r) PROVE PoolInv'
  <2>1. Cardinality(core') <= Limit
    <3>1. CASE core' \subseteq core
      BY <1>c, <3>1
    <3>2. CASE core' = core \cup {r} /\ Cardinality(core) < Limit
      BY <1>0, <3>2, FS_AddElement
    <3> QED
      BY <1>2, <3>1, <3>2, StepBounded
  <2>2. /\ KeptHolds(r)' /\ Apart(r) /\ closing' = closing
        /\ closing => Kept' \subseteq Kept
        /\ ~disturbed' /\ InStep(r) => ~disturbed /\ InStep(r)'
    BY <1>2, StepKept
  <2>3. ASSUME NEW t \in Runs PROVE KeptHolds(t)'
    <3>1. KeptHolds(t)
      OBVIOUS
    <3>2. CASE t # r
      BY <2>2, <3>1, <3>2 DEF KeptHolds, Kept, InUse, Apart
    <3> QED
      BY <2>2, <3>2
  <2>4. ASSUME ~disturbed', NEW t \in Runs PROVE InStep(t)'
    <3>1. ~disturbed
      BY <1>2, <2>4 DEF Step, Acquire, Granted, PoolFull, Undo, Released, StartRun,
         StartFails, Bind, Bound, Check, EngineEnds, RunEnds, CleanupSession,
         Heartbeat, HeartbeatAnswered, CallFails, Expire, coreVars
    <3>2. InStep(t) /\ InStep(r)
      BY <3>1
    <3>3. CASE t # r
      BY <2>2, <3>2, <3>3 DEF InStep, Apart
    <3> QED
      BY <2>2, <2>4, <3>2, <3>3
  <2>5. Cardinality(Kept') <= Limit
    BY <1>p, <1>s, <2>1, <2>2, <2>3 DEF IInv, TypeOK
  <2> QED
    BY <2>1, <2>3, <2>4, <2>5
<1>3. CASE Close
  <2>1. /\ closing' /\ permits' = {}
        /\ UNCHANGED <<pc, blocked, runVars, coreVars>>
        /\ \A t \in Runs : DueIn(chain', t) <=> DueIn(chain, t) \/ t \in permits
    BY <1>3, CloseReleasesAll DEF Close
  <2>2. Kept' = Kept /\ core' = core /\ disturbed' = disturbed
    BY <2>1 DEF InUse, Kept, runVars, coreVars
  <2>3. ASSUME NEW t \in Runs PROVE KeptHolds(t)'
    <3>1. KeptHolds(t)
      OBVIOUS
    <3> QED
      BY <2>1, <3>1 DEF KeptHolds, runVars, coreVars
  <2>4. ASSUME NEW t \in Runs, InStep(t) PROVE InStep(t)'
    BY <2>1, <2>4 DEF InStep, runVars, coreVars
  <2> QED
    BY <2>2, <2>3, <2>4
<1>4. CASE CoreDies
  <2>1. /\ core' = {} /\ permits' = {} /\ disturbed' /\ ~closing
        /\ strayed' = strayed \cup permits \cup engine
        /\ UNCHANGED <<run, cleanup, engine>>
    BY <1>4 DEF CoreDies
  <2>2. ASSUME NEW t \in Runs PROVE pc'[t] \in {pc[t], "undo", "done"}
    BY <1>4, <2>2, ChainPartHolds, AcquireInFlight DEF CoreDies, Goto, AfterRejection, ChainPart
  <2>3. Kept' = {}
    <3> SUFFICES ASSUME NEW t \in Kept' PROVE FALSE
      OBVIOUS
    <3>1. t \in Runs /\ pc[t] = "starting" /\ t \notin strayed /\ t \notin permits
      BY <2>1, <2>2 DEF Kept, InUse, IInv, TypeOK
    <3>2. KeptHolds(t) /\ t \in Kept
      BY <3>1 DEF Kept, InUse
    <3> QED
      BY <2>1, <3>1, <3>2 DEF KeptHolds
  <2>4. ASSUME NEW t \in Runs PROVE KeptHolds(t)'
    <3>1. KeptHolds(t)
      OBVIOUS
    <3>2. t \notin permits' /\ t \notin Kept'
      BY <2>1, <2>3
    <3> QED
      BY <2>1, <2>2, <3>1, <3>2 DEF KeptHolds
  <2> QED
    BY <1>0, <2>1, <2>3, <2>4, <1>c, FS_EmptySet
<1>5. CASE Reconcile \/ Resume
  <2>1. /\ UNCHANGED <<core, disturbed, pc, engine, strayed, permits, closing, chain>>
        /\ recovery # "none"
    BY <1>5 DEF Reconcile, Resume, coordinatorVars, runVars
  <2>2. Kept' = Kept /\ (~closing => Kept = {})
    <3>1. permits = {}
      BY <2>1 DEF IInv, RecoveryBlocks
    <3> QED
      BY <2>1, <3>1 DEF Kept, InUse, KeptHolds, IInv, TypeOK
  <2>3. ASSUME NEW t \in Runs
        PROVE  /\ run[t] = "none" => run'[t] = "none"
               /\ run[t] = "ended" => run'[t] = "ended"
               /\ cleanup'[t] # "none" => cleanup[t] # "none" \/ run'[t] = "ended"
    BY <1>5 DEF Reconcile, Resume, runVars
  <2>4. ASSUME NEW t \in Runs PROVE KeptHolds(t)'
    <3>1. KeptHolds(t)
      OBVIOUS
    <3>2. ~closing' => t \notin Kept'
      BY <2>1, <2>2
    <3> QED
      BY <2>1, <2>3, <3>1, <3>2 DEF KeptHolds
  <2>5. ~disturbed' => \A t \in Runs : InStep(t)'
    BY <2>1 DEF InStep
  <2> QED
    BY <2>1, <2>2, <2>4, <2>5
<1> QED
  BY <1>1, <1>2, <1>3, <1>4, <1>5 DEF Next

LEMMA PoolHolds == Spec => [](IInv /\ PoolInv)
<1>1. Init => PoolInv
  <2> SUFFICES ASSUME Init PROVE PoolInv
    OBVIOUS
  <2>1. core = {} /\ Kept = {} /\ permits = {}
    BY DEF Init, InUse, Kept
  <2>2. \A r \in Runs : InStep(r) /\ KeptHolds(r)
    BY <2>1 DEF Init, InStep, KeptHolds
  <2> QED
    BY <2>1, <2>2, FS_EmptySet, CoordinatorAssumption DEF PoolInv
<1> QED
  BY <1>1, InvHolds, PoolStep, PTL DEF Spec

(* The guard, releaseSession and close(): without a failed request, a death*)
(* of nd-core or a permit that ran out, a dispatch that is over has given  *)
(* its place in the pool back, once what it issued is answered.            *)
THEOREM PlacesComeBack == Spec => []PlaceReturned
<1>1. IInv /\ PoolInv => PlaceReturned
  <2> SUFFICES ASSUME IInv, PoolInv, NEW r \in Runs, ~disturbed, Over(r),
                      \A i \in DOMAIN chain : chain[i].run # r, r \in core
               PROVE  FALSE
    BY DEF PlaceReturned
  <2>1. r \notin permits
    BY DEF IInv, PermitsOwned, Over
  <2>2. DueIn(chain, r)
    BY <2>1 DEF PoolInv, InStep
  <2>3. DOMAIN chain = 1 .. Len(chain)
    BY ChainPartHolds DEF ChainPart
  <2> QED
    BY <2>2, <2>3, RequestFields DEF DueIn
<1> QED
  BY <1>1, PoolHolds, PTL

(* Whatever fails, dies or closes: the engines at work fit into the pool, *)
(* but for those that themselves lost their permit by a failed request, by *)
(* running out or with nd-core, or whose run was ended without them.       *)
THEOREM EnginesFitThePool == Spec => []EnginesFit
<1>1. IInv /\ PoolInv => EnginesFit
  <2> SUFFICES ASSUME IInv, PoolInv PROVE Cardinality(engine \ strayed) <= Limit
    BY DEF EnginesFit
  <2>1. IsFiniteSet(Kept) /\ engine \ strayed \subseteq Kept
    BY CoordinatorAssumption, FS_Subset DEF IInv, TypeOK, InUse, Kept
  <2>2. /\ Cardinality(engine \ strayed) <= Cardinality(Kept)
        /\ Cardinality(engine \ strayed) \in Nat /\ Cardinality(Kept) \in Nat
    BY <2>1, FS_Subset, FS_CardinalityType
  <2> QED
    BY <2>2, CoordinatorAssumption DEF PoolInv
<1> QED
  BY <1>1, PoolHolds, PTL
=============================================================================
