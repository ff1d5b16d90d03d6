---------------------------- MODULE EffectLedger ----------------------------
(***************************************************************************)
(* What the effect journal promises, with no file, no memory image and no  *)
(* sequence numbers: one recovery state per idempotency key.               *)
(*                                                                         *)
(* An effect may be started when nothing is known of it or when its last   *)
(* attempt is known to have failed. A completed effect is final. An effect *)
(* that was in progress when the process died has an uncertain outcome,    *)
(* and is refused until somebody reports what became of it.                *)
(***************************************************************************)
CONSTANTS
  Keys         \* idempotency keys

VARIABLES
  status,      \* the recovery state of each key
  serving,     \* the ledger of this process has been read back
  answer       \* the answer to the last call

ledgerVars == <<status, serving, answer>>

EffectStates == {"Intent", "Complete", "Failed", "Uncertain"}

RecoveryStates ==
  {"NotStarted", "InProgress", "KnownComplete", "KnownFailed", "OutcomeUncertain"}

(* What a record says of the effect while the process that wrote it lives. *)
Meaning ==
  [Intent |-> "InProgress", Complete |-> "KnownComplete",
   Failed |-> "KnownFailed", Uncertain |-> "OutcomeUncertain"]

NoAnswer == [call |-> "none", key |-> "none", result |-> "none"]

Answer(call, k, result) == [call |-> call, key |-> k, result |-> result]

Init ==
  /\ status = [k \in Keys |-> "NotStarted"]
  /\ serving = FALSE
  /\ answer = NoAnswer

Refused(k, st) == st = "Intent" /\ status[k] = "OutcomeUncertain"

Known(k, st) ==
  status[k] = "KnownComplete" \/ (st = "Intent" /\ status[k] = "InProgress")

Record(k, st) ==
  /\ serving
  /\ ~Refused(k, st) /\ ~Known(k, st)
  /\ status' = [status EXCEPT ![k] = Meaning[st]]
  /\ answer' = Answer(st, k, "accepted")
  /\ UNCHANGED serving

(* A call that records nothing. An error is always possible: the ledger is *)
(* not serving, is full, or cannot be written.                             *)
Decline(k, st) ==
  /\ \/ serving /\ Refused(k, st) /\ answer' = Answer(st, k, "refused")
     \/ serving /\ Known(k, st) /\ answer' = Answer(st, k, "duplicate")
     \/ answer' = Answer(st, k, "error")
  /\ UNCHANGED <<status, serving>>

(* Answers mean something only while the ledger is serving.                *)
Query(k) ==
  /\ answer' = Answer("state", k, IF serving THEN status[k] ELSE "NotStarted")
  /\ UNCHANGED <<status, serving>>

Open ==
  /\ serving' = TRUE
  /\ UNCHANGED <<status, answer>>

Crash ==
  /\ serving' = FALSE
  /\ status' = [k \in Keys |-> IF status[k] = "InProgress" THEN "OutcomeUncertain"
                               ELSE status[k]]
  /\ answer' = NoAnswer

Next ==
  \/ \E k \in Keys, st \in EffectStates : Record(k, st) \/ Decline(k, st)
  \/ \E k \in Keys : Query(k)
  \/ Open
  \/ Crash

Spec == Init /\ [][Next]_ledgerVars
=============================================================================
