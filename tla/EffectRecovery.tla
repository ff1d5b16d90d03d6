--------------------------- MODULE EffectRecovery ---------------------------
(***************************************************************************)
(* The desktop's use of the effect journal for the one effect it cannot    *)
(* take back: merging a task's branch into the project                     *)
(* (src/main/organization/orchestrator.ts), over the journal of            *)
(* EffectJournal, with deaths of nd-core alone and of the whole desktop.   *)
(*                                                                         *)
(* A key stands for a task at one checkpoint; the desktop has at most one  *)
(* handler per key at work. A handler waits for each answer before its     *)
(* next call. A call may also fail on the way (nd-core died, or 5 s went   *)
(* by), whether or not the journal has acted on it; a call that nd-core    *)
(* executes after the desktop gave up on it is not modelled.               *)
(*                                                                         *)
(* The journal is configured where the desktop configures it: once, while  *)
(* it starts. nd-core is restarted by itself after a death, and nothing    *)
(* configures the journal of the new process.                              *)
(***************************************************************************)
EXTENDS EffectJournal

VARIABLES
  desktop,     \* "starting" until the journal is configured, then "running"
  pc,          \* where the handler of each key is
  merged,      \* history: keys whose branch has been merged
  outcome      \* history: what became of the last merge attempt of each key

clientVars == <<desktop, pc, merged, outcome>>

allVars == <<vars, clientVars>>

Places ==
  {"idle", "ask", "intent", "granted", "merge", "complete", "completing",
   "failed", "uncertain", "integrated"}

RInit ==
  /\ Init
  /\ desktop = "starting"
  /\ pc = [k \in Keys |-> "idle"]
  /\ merged = {}
  /\ outcome = [k \in Keys |-> "none"]

Move(k, from, to) == pc[k] = from /\ pc' = [pc EXCEPT ![k] = to]

(* core.start() and effectJournal.configure; a failure ends the start.     *)
StartDesktop ==
  /\ desktop = "starting"
  /\ Configure
  /\ desktop' = "running"
  /\ UNCHANGED <<pc, merged, outcome>>

(* A passed review, or a finished execution of a workflow without review.  *)
Begin(k) ==
  /\ desktop = "running"
  /\ Move(k, "idle", "ask")
  /\ UNCHANGED <<vars, desktop, merged, outcome>>

(* Mutant: an uncertain outcome is treated as a known completion. *)
AnsweredStateTrusting(state) ==
  IF state \in {"KnownComplete", "OutcomeUncertain"} THEN "integrated"
  ELSE IF state = "InProgress" THEN "uncertain"
  ELSE "intent"

(* beginIntegrationEffect after effectJournal.state: return the recorded   *)
(* head, throw, or go on.                                                  *)
AnsweredState(state) ==
  IF state = "KnownComplete" THEN "integrated"
  ELSE IF state \in {"InProgress", "OutcomeUncertain"} THEN "uncertain"
  ELSE "intent"

Ask(k) ==
  /\ Query(k)
  /\ Move(k, "ask", AnsweredState(EffectState(k)))
  /\ UNCHANGED <<desktop, merged, outcome>>

(* The intent is recorded, or the journal says it already is (journalEffect*)
(* does not look at `duplicate`), or the call throws.                      *)
AppendIntent(k) ==
  /\ \/ Write(k, "Intent") /\ Move(k, "intent", "granted")
     \/ WriteFails(k, "Intent") /\ Move(k, "intent", "uncertain")
     \/ /\ Decline(k, "Intent")
        /\ Move(k, "intent", IF answer'.result = "duplicate" THEN "merge"
                             ELSE "uncertain")
  /\ UNCHANGED <<desktop, merged, outcome>>

(* TaskWorktreeManager.integrate: merged (or found merged); ended by what  *)
(* it calls a conflict, any rejected git merge, which may have merged; or  *)
(* ended by another error before or after the merge.                       *)
Merge(k) ==
  /\ \/ Move(k, "merge", "complete") /\ merged' = merged \cup {k}
     \/ /\ Move(k, "merge", "failed") \/ Move(k, "merge", "uncertain")
        /\ merged' \in {merged, merged \cup {k}}
  /\ outcome' = [outcome EXCEPT ![k] = IF pc'[k] = "failed" THEN "conflict"
                                       ELSE "started"]
  /\ UNCHANGED <<vars, desktop>>

AppendComplete(k) ==
  /\ \/ Write(k, "Complete") /\ Move(k, "complete", "completing")
     \/ WriteFails(k, "Complete") /\ Move(k, "complete", "uncertain")
     \/ /\ Decline(k, "Complete")
        /\ Move(k, "complete", IF answer'.result = "duplicate" THEN "integrated"
                               ELSE "uncertain")
  /\ UNCHANGED <<desktop, merged, outcome>>

(* Mutant: every error of the block is recorded as a failure. *)
ReportAlwaysFailed(k) ==
  /\ pc[k] \in {"failed", "uncertain"}
  /\ pc' = [pc EXCEPT ![k] = "idle"]
  /\ Write(k, "Failed") \/ WriteFails(k, "Failed") \/ Decline(k, "Failed")
  /\ UNCHANGED <<desktop, merged, outcome>>

(* The catch block: a conflict is recorded as failed, anything else as     *)
(* uncertain, and an error of this call is dropped. The task is then       *)
(* blocked or queued for rework; the same checkpoint may come back.        *)
Report(k) ==
  /\ pc[k] \in {"failed", "uncertain"}
  /\ pc' = [pc EXCEPT ![k] = "idle"]
  /\ LET st == IF pc[k] = "failed" THEN "Failed" ELSE "Uncertain"
     IN Write(k, st) \/ WriteFails(k, st) \/ Decline(k, st)
  /\ UNCHANGED <<desktop, merged, outcome>>

(* append updates the image and its caller learns that the record is safe. *)
Answered ==
  /\ Commit
  /\ pc' = [k \in Keys |-> IF pc[k] = "granted" THEN "merge"
                           ELSE IF pc[k] = "completing" THEN "integrated"
                           ELSE pc[k]]
  /\ UNCHANGED <<desktop, merged, outcome>>

AfterError(place) ==
  IF place \in {"ask", "intent", "granted", "complete", "completing"}
  THEN "uncertain"
  ELSE IF place \in {"failed", "uncertain"} THEN "idle"
  ELSE place

(* The desktop gives up on the call a handler is waiting for.              *)
CallFails(k) ==
  /\ AfterError(pc[k]) # pc[k]
  /\ pc' = [pc EXCEPT ![k] = AfterError(pc[k])]
  /\ UNCHANGED <<vars, desktop, merged, outcome>>

(* nd-core dies and is restarted; the calls it had not answered fail.      *)
CoreRestart ==
  /\ Crash
  /\ pc' = [k \in Keys |-> IF pc[k] \in {"granted", "completing"}
                           THEN "uncertain" ELSE pc[k]]
  /\ desktop = "running"
  /\ UNCHANGED <<desktop, merged, outcome>>

DesktopRestart ==
  /\ Crash
  /\ desktop' = "starting"
  /\ pc' = [k \in Keys |-> "idle"]
  /\ UNCHANGED <<merged, outcome>>

RNext ==
  \/ StartDesktop
  \/ \E k \in Keys : \/ Begin(k) \/ Ask(k) \/ AppendIntent(k) \/ Merge(k)
                     \/ AppendComplete(k) \/ Report(k) \/ CallFails(k)
  \/ Answered
  \/ CoreRestart
  \/ DesktopRestart

RSpec == RInit /\ [][RNext]_allVars

-----------------------------------------------------------------------------

(* Type invariant of the desktop's side; no handler is at work before the  *)
(* journal is configured.                                                  *)
ClientTypeOK ==
  /\ desktop = "starting" => \A k \in Keys : pc[k] = "idle"
  /\ desktop \in {"starting", "running"}
  /\ pc \in [Keys -> Places]
  /\ merged \in SUBSET Keys
  /\ outcome \in [Keys -> {"none", "started", "conflict"}]

(* A task that is taken for integrated has been merged: neither the answer *)
(* of a journal that was read back after a crash, nor a duplicate answer,  *)
(* makes the desktop skip a merge that did not happen.                     *)
IntegratedIsMerged == \A k \in Keys : pc[k] = "integrated" => k \in merged

(* A merge that was attempted is attempted again only if the attempt was   *)
(* reported as a conflict: with any other that may have merged, the        *)
(* journal, or its being out of reach, keeps the handler from merging      *)
(* again, through restarts of nd-core and of the desktop.                  *)
NoBlindMerge ==
  [][\A k \in Keys : pc[k] # "merge" /\ pc'[k] = "merge"
                        => outcome[k] \in {"none", "conflict"}]_allVars

(* done-0032: known-complete effects are deduplicated after restart. A     *)
(* handler that asks about an effect whose completion is in the file does  *)
(* not go on to record an intent for it.                                   *)
KnownCompleteRecognised ==
  \A k \in Keys : pc[k] = "intent" => ~Completed(file, k)
=============================================================================
