-------------------------- MODULE TaskIntegration ---------------------------
(***************************************************************************)
(* TaskWorktreeManager.integrate (organization/task-worktree.ts): verified *)
(* task branches are merged into the one checkout of a project. Every git  *)
(* command is a process of its own, several tasks of a project integrate   *)
(* at the same time, and the human works in the same checkout. Nothing in  *)
(* the program serialises them; git's index.lock does, by failing.         *)
(*                                                                         *)
(* Each command is a request to nd-core (core/core-worktree-git.ts), which *)
(* is rejected when git fails, when its output is too long, when 60 s are  *)
(* over - nd-core then kills git - and when nd-core dies, which leaves git *)
(* running on where nothing kills it. integrate cannot tell these apart.   *)
(***************************************************************************)
EXTENDS FiniteSets

CONSTANTS
  Tasks,
  Clash,   \* pairs {t, u} of tasks whose branches conflict
  Nobody,
  Left     \* who holds index.lock when no request of a task does any more

ASSUME IntegrationAssumption ==
  /\ Nobody \notin Tasks /\ Left \notin Tasks /\ Left # Nobody
  /\ Clash \subseteq SUBSET Tasks

VARIABLES
  head,     \* branches contained in HEAD of the checkout
  merge,    \* MERGE_HEAD: the task whose unfinished merge stands, or Nobody
  lock,     \* index.lock: the task whose git process holds it, Left or Nobody
  orphan,   \* the task whose git merge runs on although nd-core died, or Nobody
  dirty,    \* uncommitted changes, of the human or of a git that was killed
  pc,       \* the git command integrate is about to run or runs, per task
  result,   \* what integrate returned or threw
  crossed,  \* history: tasks whose integration met another one, the human or
            \* what an earlier one left in the checkout
  rejected, \* history: tasks whose merge was rejected other than by git's
            \* own finding of a conflict or of somebody in the way
  abandoned \* history: tasks of which a git was killed or runs on, or whose
            \* abort was rejected

repo == <<head, merge, lock, orphan, dirty>>
history == <<crossed, rejected, abandoned>>
vars == <<repo, pc, result, history>>

Working == {t \in Tasks : pc[t] # "idle"}

Init ==
  /\ head = {} /\ merge = Nobody /\ dirty = FALSE
  /\ lock = Nobody /\ orphan = Nobody
  /\ pc = [t \in Tasks |-> "idle"]
  /\ result = [t \in Tasks |-> "none"]
  /\ crossed = {} /\ rejected = {} /\ abandoned = {}

Goto(t, c) == pc' = [pc EXCEPT ![t] = c] /\ UNCHANGED <<result, history>>
Return(t, r) ==
  /\ pc' = [pc EXCEPT ![t] = "idle"]
  /\ result' = [result EXCEPT ![t] = r]
  /\ UNCHANGED history

(* Nothing is at work in the checkout, and nothing was left in it.         *)
Quiet == Working = {} /\ merge = Nobody /\ lock = Nobody /\ orphan = Nobody

(* The branch exists and the task's own worktree is clean, or integrate    *)
(* throws. What failed before is integrated again by a later attempt.      *)
Begin(t) ==
  /\ pc[t] = "idle" /\ result[t] \notin {"merged", "already"}
  /\ \/ /\ pc' = [pc EXCEPT ![t] = "status"]
        /\ result' = [result EXCEPT ![t] = "none"]
        /\ crossed' = IF Quiet THEN crossed \ {t}
                      ELSE crossed \cup Working \cup {t}
        /\ rejected' = rejected \ {t} /\ abandoned' = abandoned \ {t}
     \/ Return(t, "failed")
  /\ UNCHANGED repo

(* git status refreshes the index, under the lock if it is free.           *)
Status(t) ==
  /\ pc[t] = "status"
  /\ lock' = IF lock = Nobody THEN t ELSE lock
  /\ Goto(t, "statusEnds")
  /\ UNCHANGED <<head, merge, orphan, dirty>>

(* What status finds: a merge at work has half of its files written.       *)
Unclean(t) ==
  \/ dirty \/ merge # Nobody \/ orphan # Nobody
  \/ \E u \in Tasks \ {t} : pc[u] = "mergeEnds"

Unlocked(t) == lock' = IF lock = t THEN Nobody ELSE lock

(* Mutant: uncommitted changes are reported like a conflict.               *)
StatusEndsInConflict(t) ==
  /\ pc[t] = "statusEnds"
  /\ Unlocked(t)
  /\ IF Unclean(t) THEN Goto(t, "abort") ELSE Goto(t, "isAncestor")
  /\ UNCHANGED <<head, merge, orphan, dirty>>

(* A rejected status is thrown as it is; its git may leave index.lock.     *)
StatusEnds(t) ==
  /\ pc[t] = "statusEnds"
  /\ \/ Unlocked(t) /\ Unclean(t) /\ Return(t, "paused")
     \/ Unlocked(t) /\ ~Unclean(t) /\ Goto(t, "isAncestor")
     \/ Unlocked(t) /\ Return(t, "failed")
     \/ lock = t /\ lock' = Left /\ Return(t, "failed")
  /\ UNCHANGED <<head, merge, orphan, dirty>>

(* isAncestor takes a rejection for a no: what is contained may be merged  *)
(* again. When it is contained, HEAD is read, which may fail.              *)
IsAncestor(t) ==
  /\ pc[t] = "isAncestor"
  /\ \/ t \in head /\ \E r \in {"already", "failed"} : Return(t, r)
     \/ Goto(t, "merge")
  /\ UNCHANGED repo

Conflicts(t) == \E u \in head : {t, u} \in Clash

(* Any rejection of git merge is followed by its abort.                    *)
Reject(t) ==
  /\ pc' = [pc EXCEPT ![t] = "abort"]
  /\ rejected' = rejected \cup {t}
  /\ UNCHANGED <<result, crossed>>

(* git merge fails at once if another process or another merge is in the   *)
(* way, or changes of the human that it would overwrite; or the request is *)
(* rejected before git runs.                                               *)
Merge(t) ==
  /\ pc[t] = "merge"
  /\ \/ /\ lock = Nobody /\ merge = Nobody
        /\ lock' = t /\ Goto(t, "mergeEnds")
     \/ /\ lock # Nobody \/ merge # Nobody \/ dirty
        /\ Goto(t, "abort") /\ UNCHANGED lock
     \/ Reject(t) /\ UNCHANGED <<lock, abandoned>>
  /\ UNCHANGED <<head, merge, orphan, dirty>>

(* git merge ends by itself: with a conflict, which stands, or with a new  *)
(* HEAD, which is there even if it is then not read.                       *)
MergeEnds(t) ==
  /\ pc[t] = "mergeEnds"
  /\ lock' = Nobody
  /\ IF t \notin head /\ Conflicts(t)
     THEN merge' = t /\ Goto(t, "abort") /\ UNCHANGED head
     ELSE /\ head' = head \cup {t} /\ UNCHANGED merge
          /\ \E r \in {"merged", "failed"} : Return(t, r)
  /\ UNCHANGED <<orphan, dirty>>

(* The request of a git merge at work is rejected, although the branches   *)
(* may not conflict: a hook has refused the merge, which stands; git has   *)
(* done its work, unheard; it is killed, half-way through the files; or it *)
(* runs on.                                                                *)
MergeRejected(t) ==
  /\ pc[t] = "mergeEnds"
  /\ Reject(t)
  /\ \/ /\ lock' = Nobody /\ t \notin head /\ merge' = t
        /\ UNCHANGED <<head, orphan, dirty, abandoned>>
     \/ /\ lock' = Nobody /\ ~Conflicts(t) /\ head' = head \cup {t}
        /\ UNCHANGED <<merge, orphan, dirty, abandoned>>
     \/ /\ lock' \in {Nobody, Left} /\ merge' \in {merge, t}
        /\ dirty' \in {dirty, TRUE} /\ abandoned' = abandoned \cup {t}
        /\ UNCHANGED <<head, orphan>>
     \/ /\ lock' = Left /\ orphan' = t /\ abandoned' = abandoned \cup {t}
        /\ UNCHANGED <<head, merge, dirty>>

(* The git merge that nobody waits for ends.                               *)
OrphanEnds ==
  /\ orphan # Nobody
  /\ orphan' = Nobody /\ lock' = Nobody
  /\ IF orphan \notin head /\ Conflicts(orphan)
     THEN merge' = orphan /\ UNCHANGED head
     ELSE head' = head \cup {orphan} /\ UNCHANGED merge
  /\ UNCHANGED <<dirty, pc, result, history>>

(* Mutant: the checkout is reset to where this integration found it, which *)
(* drops what others merged since.                                         *)
AbortByReset(t) ==
  /\ pc[t] = "abort"
  /\ merge' = Nobody /\ head' = head \ crossed
  /\ Return(t, "conflict")
  /\ UNCHANGED <<lock, orphan, dirty>>

(* Mutant: a failed merge is left for the human to look at.                *)
NeverAbort(t) ==
  /\ pc[t] = "abort"
  /\ Return(t, "conflict")
  /\ UNCHANGED repo

(* git merge --abort ends whatever merge stands, if it gets the lock. It   *)
(* is one more request, whose rejection is dropped: nothing was done then, *)
(* or all of it, or it was killed and leaves index.lock. Every failed      *)
(* merge is reported as a conflict.                                        *)
Abort(t) ==
  /\ pc[t] = "abort"
  /\ \/ /\ merge' = IF lock = Nobody THEN Nobody ELSE merge
        /\ UNCHANGED <<lock, abandoned>>
     \/ /\ merge' \in IF lock = Nobody THEN {merge, Nobody} ELSE {merge}
        /\ lock' \in IF lock = Nobody THEN {Nobody, Left} ELSE {lock}
        /\ abandoned' = abandoned \cup {t}
  /\ pc' = [pc EXCEPT ![t] = "idle"]
  /\ result' = [result EXCEPT ![t] = "conflict"]
  /\ UNCHANGED <<head, orphan, dirty, crossed, rejected>>

(* The human edits, and commits or discards, files of the checkout, aborts *)
(* the merge that was found standing in it, or removes an index.lock that  *)
(* no process holds.                                                       *)
Human ==
  /\ \/ dirty' = ~dirty /\ UNCHANGED <<merge, lock>>
     \/ merge # Nobody /\ lock = Nobody /\ merge' = Nobody /\ UNCHANGED <<lock, dirty>>
     \/ lock = Left /\ orphan = Nobody /\ lock' = Nobody /\ UNCHANGED <<merge, dirty>>
  /\ crossed' = crossed \cup Working
  /\ UNCHANGED <<head, orphan, pc, result, rejected, abandoned>>

Next ==
  \/ \E t \in Tasks :
       \/ Begin(t) \/ Status(t) \/ StatusEnds(t) \/ IsAncestor(t)
       \/ Merge(t) \/ MergeEnds(t) \/ MergeRejected(t) \/ Abort(t)
  \/ OrphanEnds
  \/ Human

Spec == Init /\ [][Next]_vars

-----------------------------------------------------------------------------
(* The variables have their types; index.lock is held by a running command *)
(* or was left, and by the git merge that runs on while there is one.      *)
TypeOK ==
  /\ lock \in Tasks => pc[lock] \in {"statusEnds", "mergeEnds"}
  /\ \A t \in Tasks : pc[t] = "mergeEnds" => lock = t
  /\ orphan # Nobody => lock = Left
  /\ head \subseteq Tasks /\ dirty \in BOOLEAN
  /\ crossed \subseteq Tasks /\ rejected \subseteq Tasks /\ abandoned \subseteq Tasks
  /\ merge \in Tasks \cup {Nobody} /\ orphan \in Tasks \cup {Nobody}
  /\ lock \in Tasks \cup {Nobody, Left}
  /\ pc \in [Tasks -> {"idle", "status", "statusEnds", "isAncestor", "merge",
                       "mergeEnds", "abort"}]
  /\ result \in [Tasks -> {"none", "merged", "already", "paused", "failed",
                           "conflict"}]

(* What integrate reports as merged is in HEAD, then and ever after,       *)
(* whatever other integrations fail and abort in between, and whichever    *)
(* requests are rejected.                                                  *)
ReportedIsContained ==
  \A t \in Tasks : result[t] \in {"merged", "already"} => t \in head

(* A conflict that integrate reports is one, unless the integration met    *)
(* another integration, an edit of the human or what an earlier one left   *)
(* behind, or its merge was rejected for a reason of its own (a hook, the  *)
(* deadline, the death of nd-core): any failing merge is called a conflict.*)
ConflictIsOne ==
  \A t \in Tasks : result[t] = "conflict" =>
    Conflicts(t) \/ t \in crossed \cup rejected

(* integrate aborts on conflict (docs/plan/parallel-work-distribution.md): *)
(* no merge of a task stands when its integration is over, if it met       *)
(* nobody and no git of it was abandoned, also when a hook refused the     *)
(* merge or its answer was lost. One that met somebody may find index.lock *)
(* taken, and the failure of its abort is swallowed.                       *)
AbortedAlone ==
  \A t \in Tasks :
    pc[t] = "idle" /\ t \notin crossed \cup abandoned => merge # t
=============================================================================
