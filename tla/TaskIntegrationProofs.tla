----------------------- MODULE TaskIntegrationProofs ------------------------
(***************************************************************************)
(* Proofs about TaskIntegration for any number of tasks and any conflicts  *)
(* between their branches.                                                 *)
(***************************************************************************)
EXTENDS TaskIntegration, TLAPS

-----------------------------------------------------------------------------
(* Types, and who holds index.lock.                                        *)

LEMMA TypeInit == Init => TypeOK
BY IntegrationAssumption DEF Init, TypeOK

LEMMA TypeNext == TypeOK /\ [Next]_vars => TypeOK'
<1> SUFFICES ASSUME TypeOK, [Next]_vars PROVE TypeOK'
  OBVIOUS
<1> USE IntegrationAssumption
<1>1. ASSUME NEW t \in Tasks, Begin(t) PROVE TypeOK'
  BY <1>1 DEF Begin, Return, history, TypeOK, repo, Working
<1>2. ASSUME NEW t \in Tasks, Status(t) PROVE TypeOK'
  BY <1>2 DEF Status, Goto, history, TypeOK
<1>3. ASSUME NEW t \in Tasks, StatusEnds(t) PROVE TypeOK'
  BY <1>3 DEF StatusEnds, Unlocked, Goto, Return, history, TypeOK
<1>4. ASSUME NEW t \in Tasks, IsAncestor(t) PROVE TypeOK'
  BY <1>4 DEF IsAncestor, Goto, Return, history, TypeOK, repo
<1>5. ASSUME NEW t \in Tasks, Merge(t) PROVE TypeOK'
  BY <1>5 DEF Merge, Reject, Goto, history, TypeOK
<1>6. ASSUME NEW t \in Tasks, MergeEnds(t) PROVE TypeOK'
  BY <1>6 DEF MergeEnds, Goto, Return, history, TypeOK
<1>7. ASSUME NEW t \in Tasks, MergeRejected(t) PROVE TypeOK'
  BY <1>7 DEF MergeRejected, Reject, TypeOK
<1>8. ASSUME NEW t \in Tasks, Abort(t) PROVE TypeOK'
  BY <1>8 DEF Abort, TypeOK
<1>9. CASE OrphanEnds
  BY <1>9 DEF OrphanEnds, history, TypeOK
<1>10. CASE Human
  BY <1>10 DEF Human, TypeOK, Working
<1>11. CASE UNCHANGED vars
  BY <1>11 DEF vars, repo, history, TypeOK
<1> QED
  BY <1>1, <1>2, <1>3, <1>4, <1>5, <1>6, <1>7, <1>8, <1>9, <1>10, <1>11 DEF Next

(* The variables keep their types, and index.lock is only ever held by a   *)
(* git command that runs, or was left by one whose request was rejected.   *)
THEOREM IntegrationTypeOK == Spec => []TypeOK
BY TypeInit, TypeNext, PTL DEF Spec

-----------------------------------------------------------------------------
(* What is merged stays merged.                                            *)

LEMMA ContainedNext ==
  ASSUME TypeOK, ReportedIsContained, [Next]_vars
  PROVE  ReportedIsContained'
<1> USE IntegrationAssumption DEF ReportedIsContained
<1>1. ASSUME NEW t \in Tasks, Begin(t) PROVE ReportedIsContained'
  BY <1>1 DEF Begin, Return, TypeOK, repo
<1>2. ASSUME NEW t \in Tasks, Status(t) \/ Merge(t) PROVE ReportedIsContained'
  BY <1>2 DEF Status, Merge, Reject, Goto
<1>3. ASSUME NEW t \in Tasks, StatusEnds(t) PROVE ReportedIsContained'
  BY <1>3 DEF StatusEnds, Goto, Return, TypeOK
<1>4. ASSUME NEW t \in Tasks, IsAncestor(t) PROVE ReportedIsContained'
  BY <1>4 DEF IsAncestor, Goto, Return, TypeOK, repo
<1>5. ASSUME NEW t \in Tasks, MergeEnds(t) PROVE ReportedIsContained'
  BY <1>5 DEF MergeEnds, Goto, Return, TypeOK
<1>6. ASSUME NEW t \in Tasks, MergeRejected(t) PROVE ReportedIsContained'
  <2>1. head \subseteq head' /\ UNCHANGED result
    BY <1>6 DEF MergeRejected, Reject
  <2> QED
    BY <2>1
<1>7. ASSUME NEW t \in Tasks, Abort(t) PROVE ReportedIsContained'
  BY <1>7 DEF Abort, TypeOK
<1>8. CASE Human
  BY <1>8 DEF Human
<1>9. CASE OrphanEnds
  BY <1>9 DEF OrphanEnds
<1>10. CASE UNCHANGED vars
  BY <1>10 DEF vars, repo
<1> QED
  BY <1>1, <1>2, <1>3, <1>4, <1>5, <1>6, <1>7, <1>8, <1>9, <1>10 DEF Next

(* integrate: a branch that was reported merged is in HEAD ever after,     *)
(* however many integrations run at the same time, fail and abort, and     *)
(* whichever of their requests are rejected.                               *)
THEOREM MergedStaysMerged == Spec => []ReportedIsContained
<1>1. Init => ReportedIsContained
  BY DEF Init, ReportedIsContained
<1>2. TypeOK /\ ReportedIsContained /\ [Next]_vars => ReportedIsContained'
  BY ContainedNext
<1> QED
  BY <1>1, <1>2, IntegrationTypeOK, PTL DEF Spec

-----------------------------------------------------------------------------
(* An integration that met nobody. It is the only one at work, no other    *)
(* merge stands in its way, and what it found clean is still clean: a      *)
(* merge that fails under it fails for a conflict or by a rejection of its *)
(* own, and nothing keeps its abort from index.lock but a git of its own   *)
(* that was abandoned.                                                     *)

Alone(t) == pc[t] # "idle" /\ t \notin crossed

AloneInv ==
  \A t \in Tasks : Alone(t) =>
    /\ \A u \in Tasks \ {t} : pc[u] = "idle"
    /\ merge \in {Nobody, t} /\ orphan \in {Nobody, t}
    /\ merge = t \/ orphan = t \/ lock = Left => pc[t] = "abort"
    /\ orphan = t \/ lock = Left => t \in abandoned
    /\ pc[t] \in {"isAncestor", "merge", "mergeEnds"} => ~dirty
    /\ pc[t] = "abort" => Conflicts(t) \/ t \in rejected

(* A merge that runs on is one of an integration that abandoned it, or of  *)
(* one that has begun again since.                                         *)
OrphanInv == orphan # Nobody => orphan \in crossed \cup abandoned

MetNobodyInv == AloneInv /\ OrphanInv /\ ConflictIsOne /\ AbortedAlone

(* HEAD only grows, so what conflicts goes on to conflict. *)
LEMMA ConflictsStay ==
  ASSUME NEW t, Conflicts(t), head \subseteq head'
  PROVE  Conflicts(t)'
BY DEF Conflicts

(* An integration that met nobody finds index.lock free, its own or left.  *)
LEMMA LockOfAlone ==
  ASSUME TypeOK, AloneInv, NEW t \in Tasks, Alone(t)
  PROVE  lock \in {Nobody, Left, t}
BY DEF TypeOK, AloneInv

LEMMA AloneNext ==
  ASSUME TypeOK, TypeOK', MetNobodyInv, [Next]_vars
  PROVE  MetNobodyInv'
<1> USE IntegrationAssumption
<1>t. TypeOK /\ TypeOK'
  OBVIOUS
<1>i. AloneInv /\ OrphanInv /\ ConflictIsOne /\ AbortedAlone
  BY DEF MetNobodyInv
<1>h. head \subseteq head' => \A u \in Tasks : Conflicts(u) => Conflicts(u)'
  BY ConflictsStay
<1> USE DEF MetNobodyInv, AloneInv, OrphanInv, ConflictIsOne, AbortedAlone, Alone
<1>1. ASSUME NEW t \in Tasks, Begin(t) PROVE MetNobodyInv'
  <2>1. UNCHANGED head /\ \A u \in Tasks : Conflicts(u) => Conflicts(u)'
    BY <1>1, <1>h DEF Begin, repo
  <2>2. CASE Return(t, "failed")
    BY <1>1, <1>t, <1>i, <2>1, <2>2 DEF Begin, Return, history, repo, TypeOK
  <2>3. CASE ~Return(t, "failed") /\ Quiet
    <3>1. \A u \in Tasks : pc[u] = "idle"
      BY <2>3 DEF Quiet, Working
    <3>2. /\ pc' = [pc EXCEPT ![t] = "status"]
          /\ result' = [result EXCEPT ![t] = "none"]
          /\ crossed' = crossed \ {t}
          /\ rejected' = rejected \ {t} /\ abandoned' = abandoned \ {t}
          /\ UNCHANGED repo
          /\ merge = Nobody /\ lock = Nobody /\ orphan = Nobody
      BY <1>1, <2>3 DEF Begin, Quiet
    <3> QED
      BY <1>t, <1>i, <2>1, <3>1, <3>2 DEF repo, TypeOK
  <2>4. CASE ~Return(t, "failed") /\ ~Quiet
    <3>1. /\ pc' = [pc EXCEPT ![t] = "status"]
          /\ result' = [result EXCEPT ![t] = "none"]
          /\ crossed' = crossed \cup Working \cup {t}
          /\ rejected' = rejected \ {t} /\ abandoned' = abandoned \ {t}
          /\ UNCHANGED repo
      BY <1>1, <2>4 DEF Begin
    <3>2. \A u \in Tasks : pc'[u] # "idle" => u \in crossed'
      BY <1>t, <3>1 DEF Working, TypeOK
    <3> QED
      BY <1>t, <1>i, <2>1, <3>1, <3>2 DEF repo, TypeOK
  <2> QED
    BY <2>2, <2>3, <2>4
<1>2. ASSUME NEW t \in Tasks, Status(t) PROVE MetNobodyInv'
  <2>1. \A u \in Tasks : Conflicts(u) => Conflicts(u)'
    BY <1>2, <1>h DEF Status
  <2> QED
    BY <1>2, <1>t, <1>i, <2>1 DEF Status, Goto, history, TypeOK
<1>3. ASSUME NEW t \in Tasks, StatusEnds(t) PROVE MetNobodyInv'
  <2>1. \A u \in Tasks : Conflicts(u) => Conflicts(u)'
    BY <1>3, <1>h DEF StatusEnds
  <2>2. CASE Goto(t, "isAncestor")
    BY <1>3, <1>t, <1>i, <2>1, <2>2
    DEF StatusEnds, Unlocked, Unclean, Goto, Return, history, TypeOK
  <2>3. CASE Return(t, "paused") \/ Return(t, "failed")
    BY <1>3, <1>t, <1>i, <2>1, <2>3
    DEF StatusEnds, Unlocked, Return, history, TypeOK
  <2> QED
    BY <1>3, <2>2, <2>3 DEF StatusEnds
<1>4. ASSUME NEW t \in Tasks, IsAncestor(t) PROVE MetNobodyInv'
  <2>1. \A u \in Tasks : Conflicts(u) => Conflicts(u)'
    BY <1>4, <1>h DEF IsAncestor, repo
  <2> QED
    BY <1>4, <1>t, <1>i, <2>1
    DEF IsAncestor, repo, Goto, Return, history, TypeOK
<1>5. ASSUME NEW t \in Tasks, Merge(t) PROVE MetNobodyInv'
  <2>1. \A u \in Tasks : Conflicts(u) => Conflicts(u)'
    BY <1>5, <1>h DEF Merge
  <2>2. pc'[t] = "abort" => t \in crossed \cup rejected'
    BY <1>5, <1>t, <1>i, LockOfAlone DEF Merge, Reject, Goto, history, TypeOK
  <2>3. /\ UNCHANGED <<head, merge, orphan, dirty, abandoned, crossed, result>>
        /\ rejected \subseteq rejected' /\ lock' \in {lock, t}
        /\ pc' = [pc EXCEPT ![t] = pc'[t]] /\ pc'[t] \in {"mergeEnds", "abort"}
    BY <1>5, <1>t DEF Merge, Reject, Goto, history, TypeOK
  <2> QED
    BY <1>5, <1>t, <1>i, <2>1, <2>2, <2>3 DEF Merge, TypeOK
<1>6. ASSUME NEW t \in Tasks, MergeEnds(t) PROVE MetNobodyInv'
  <2>1. \A u \in Tasks : Conflicts(u) => Conflicts(u)'
    BY <1>6, <1>h DEF MergeEnds, Goto
  <2>2. CASE t \notin head /\ Conflicts(t)
    BY <1>6, <1>t, <1>i, <2>1, <2>2 DEF MergeEnds, Goto, history, TypeOK
  <2>3. CASE ~(t \notin head /\ Conflicts(t))
    BY <1>6, <1>t, <1>i, <2>1, <2>3 DEF MergeEnds, Return, history, TypeOK
  <2> QED
    BY <2>2, <2>3
<1>7. ASSUME NEW t \in Tasks, MergeRejected(t) PROVE MetNobodyInv'
  <2>1. \A u \in Tasks : Conflicts(u) => Conflicts(u)'
    BY <1>7, <1>h DEF MergeRejected
  <2>2. /\ pc[t] = "mergeEnds" /\ pc' = [pc EXCEPT ![t] = "abort"]
        /\ UNCHANGED <<result, crossed>> /\ rejected' = rejected \cup {t}
        /\ abandoned \subseteq abandoned' /\ merge' \in {merge, t}
        /\ orphan' = orphan \/ (orphan' = t /\ t \in abandoned')
        /\ lock' = Nobody \/ (lock' = Left /\ t \in abandoned')
    BY <1>7 DEF MergeRejected, Reject
  <2> QED
    BY <1>t, <1>i, <2>1, <2>2 DEF TypeOK
<1>8. ASSUME NEW t \in Tasks, Abort(t) PROVE MetNobodyInv'
  <2>1. \A u \in Tasks : Conflicts(u) => Conflicts(u)'
    BY <1>8, <1>h DEF Abort
  <2>2. t \notin crossed \cup abandoned' => merge' = Nobody
    BY <1>8, <1>t, <1>i, LockOfAlone DEF Abort, TypeOK
  <2>3. /\ pc[t] = "abort" /\ pc' = [pc EXCEPT ![t] = "idle"]
        /\ result' = [result EXCEPT ![t] = "conflict"]
        /\ UNCHANGED <<head, orphan, dirty, crossed, rejected>>
        /\ abandoned \subseteq abandoned' /\ merge' \in {merge, Nobody}
    BY <1>8 DEF Abort
  <2> QED
    BY <1>t, <1>i, <2>1, <2>2, <2>3 DEF TypeOK
<1>9. CASE OrphanEnds
  <2>1. \A u \in Tasks : Conflicts(u) => Conflicts(u)'
    BY <1>9, <1>h DEF OrphanEnds
  <2> QED
    BY <1>9, <1>t, <1>i, <2>1 DEF OrphanEnds, history, TypeOK
<1>10. CASE Human
  <2>1. \A u \in Tasks : Conflicts(u) => Conflicts(u)'
    BY <1>10, <1>h DEF Human
  <2>2. \A u \in Tasks : pc'[u] # "idle" => u \in crossed'
    BY <1>10 DEF Human, Working
  <2> QED
    BY <1>10, <1>i, <2>1, <2>2 DEF Human, Working
<1>11. CASE UNCHANGED vars
  <2>1. \A u \in Tasks : Conflicts(u) => Conflicts(u)'
    BY <1>11, <1>h DEF vars, repo
  <2> QED
    BY <1>11, <1>i, <2>1 DEF vars, repo, history
<1> QED
  BY <1>1, <1>2, <1>3, <1>4, <1>5, <1>6, <1>7, <1>8, <1>9, <1>10, <1>11 DEF Next

LEMMA MetNobody == Spec => []MetNobodyInv
<1>1. Init => MetNobodyInv
  BY IntegrationAssumption
  DEF Init, MetNobodyInv, AloneInv, OrphanInv, Alone, ConflictIsOne, AbortedAlone
<1>2. TypeOK /\ TypeOK' /\ MetNobodyInv /\ [Next]_vars => MetNobodyInv'
  BY AloneNext
<1> QED
  BY <1>1, <1>2, IntegrationTypeOK, PTL DEF Spec

(* A conflict that integrate reports is a conflict of branches, for an     *)
(* integration that met no other and no edit of the human, and whose merge *)
(* was not rejected by a hook, the deadline or the death of nd-core.       *)
THEOREM ReportedConflictIsOne == Spec => []ConflictIsOne
<1>1. MetNobodyInv => ConflictIsOne
  BY DEF MetNobodyInv
<1> QED
  BY <1>1, MetNobody, PTL

(* integrate leaves no unfinished merge of its own in the checkout, if it  *)
(* met nobody and no git of it was killed, left running or kept from       *)
(* aborting - whatever made the merge fail.                                *)
THEOREM NoMergeStands == Spec => []AbortedAlone
<1>1. MetNobodyInv => AbortedAlone
  BY DEF MetNobodyInv
<1> QED
  BY <1>1, MetNobody, PTL
=============================================================================
