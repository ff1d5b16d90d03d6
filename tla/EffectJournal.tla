--------------------------- MODULE EffectJournal ----------------------------
(***************************************************************************)
(* crates/nd-runtime/src/effect_journal.rs: the JSONL file of effect       *)
(* records, the image of it that one nd-core process keeps in memory, and  *)
(* the deaths of that process.                                             *)
(*                                                                         *)
(* append holds the mutex from its first look at the image to its last     *)
(* write, so only the process's death can come between the write of the    *)
(* file and the update of the image: they are the two actions Write and    *)
(* Commit, and no other call runs between them. configure reads the file   *)
(* without the mutex; the desktop calls it once per nd-core process, when  *)
(* every append is still refused, so nothing can run between its parts.    *)
(*                                                                         *)
(* Left out: records without an idempotency key (they only take up         *)
(* sequence numbers), ids, kinds and data (copied, never tested), replay   *)
(* pages (a read of the image), length checks.                             *)
(***************************************************************************)
EXTENDS Integers, Sequences

CONSTANTS
  Keys,        \* idempotency keys
  MaxRecords,  \* the retention bound (MAX_JOURNAL_BYTES), in records
  Faults,      \* what the file system may do to a write: "torn", "sync"
  MaxFile      \* bound of the model: lines in the file

ASSUME EffectJournalAssumption ==
  /\ MaxRecords \in Nat
  /\ MaxFile \in Nat

VARIABLES
  file,        \* the lines of the journal file
  serving,     \* this process has configured the journal
  records,     \* its image of the file
  recovered,   \* recovered_uncertain_keys
  writing,     \* the record append has written and not yet put in the image
  answer,      \* the answer to the last call
  boot,        \* history: length of the file when this process started
  spent        \* history: keys whose effect was allowed to start, or was
               \* reported, and has not been reported failed since

vars == <<file, serving, records, recovered, writing, answer, boot, spent>>

EffectStates == {"Intent", "Complete", "Failed", "Uncertain"}

RecoveryStates ==
  {"NotStarted", "InProgress", "KnownComplete", "KnownFailed", "OutcomeUncertain"}

Meaning ==
  [Intent |-> "InProgress", Complete |-> "KnownComplete",
   Failed |-> "KnownFailed", Uncertain |-> "OutcomeUncertain"]

Record == [seq : Nat, key : Keys, state : EffectStates]

(* A line that does not decode: part of a record, with or without the next *)
(* record on the same line.                                                *)
Torn == [seq |-> 0, key |-> "torn", state |-> "torn"]

NoRecord == [seq |-> 0, key |-> "none", state |-> "none"]

NoAnswer == [call |-> "none", key |-> "none", result |-> "none"]

Answer(call, k, result) == [call |-> call, key |-> k, result |-> result]

-----------------------------------------------------------------------------
(* Reading a sequence of records.                                          *)

(* latest_by_key *)
IsLatest(s, k, i) ==
  /\ i \in 1 .. Len(s)
  /\ s[i].key = k
  /\ \A j \in i + 1 .. Len(s) : s[j].key # k

LatestIs(s, k, st) == \E i \in 1 .. Len(s) : IsLatest(s, k, i) /\ s[i].state = st

(* completed_by_key *)
Completed(s, k) == \E i \in 1 .. Len(s) : s[i].key = k /\ s[i].state = "Complete"

(* load_records, and the bound configure checks after it. *)
Loadable(s) ==
  /\ \A i \in 1 .. Len(s) : s[i] # Torn
  /\ \A i \in 1 .. Len(s) - 1 : s[i].seq < s[i + 1].seq
  /\ Len(s) <= MaxRecords

(* Mutant: nothing is marked when the journal is read back. *)
RecoveredNothing(s) == {k \in Keys : FALSE /\ LatestIs(s, k, "Intent")}

(* mark_recovered_uncertain *)
RecoveredUncertain(s) == {k \in Keys : LatestIs(s, k, "Intent")}

(* Mutant: numbering restarts from the number of records of this process. *)
NextSeqStuck(s) == IF Len(s) <= 1 THEN Len(s) + 1 ELSE s[Len(s)].seq

NextSeq(s) == IF s = <<>> THEN 1 ELSE s[Len(s)].seq + 1

-----------------------------------------------------------------------------

Init ==
  /\ file = <<>>
  /\ serving = FALSE
  /\ records = <<>>
  /\ recovered = {}
  /\ writing = NoRecord
  /\ answer = NoAnswer
  /\ boot = 0
  /\ spent = {}

Idle == writing = NoRecord

Configure ==
  /\ ~serving
  /\ Loadable(file)
  /\ serving' = TRUE
  /\ records' = file
  /\ recovered' = RecoveredUncertain(file)
  /\ UNCHANGED <<file, writing, answer, boot, spent>>

(* The tests of append that answer without writing, in the code's order.   *)
Refused(k, st) ==
  /\ st = "Intent"
  /\ k \in recovered \/ (LatestIs(records, k, "Uncertain") /\ ~Completed(records, k))

Duplicate(k, st) ==
  /\ ~Refused(k, st)
  /\ Completed(records, k) \/ (st = "Intent" /\ LatestIs(records, k, "Intent"))

(* Calls that leave no record: a refusal, a duplicate, and the errors: not *)
(* configured, retention bound reached, file not opened or not written.    *)
Decline(k, st) ==
  /\ Idle
  /\ \/ serving /\ Refused(k, st) /\ answer' = Answer(st, k, "refused")
     \/ serving /\ Duplicate(k, st) /\ answer' = Answer(st, k, "duplicate")
     \/ /\ ~serving \/ (~Refused(k, st) /\ ~Duplicate(k, st))
        /\ answer' = Answer(st, k, "error")
  /\ UNCHANGED <<file, serving, records, recovered, writing, boot, spent>>

(* Mutant: a process that was not configured appends all the same. *)
AdmitsUnconfigured(k, st) ==
  /\ Idle
  /\ ~Refused(k, st) /\ ~Duplicate(k, st)
  /\ Len(records) < MaxRecords
  /\ Len(file) < MaxFile

Admits(k, st) ==
  /\ Idle /\ serving
  /\ ~Refused(k, st) /\ ~Duplicate(k, st)
  /\ Len(records) < MaxRecords
  /\ Len(file) < MaxFile

NewRecord(k, st) == [seq |-> NextSeq(records), key |-> k, state |-> st]

(* Mutant: the record is acknowledged from a buffer that never reaches the *)
(* file.                                                                   *)
WriteBuffered(k, st) ==
  /\ Admits(k, st)
  /\ file' = file
  /\ writing' = NewRecord(k, st)
  /\ answer' = Answer(st, k, "accepted")
  /\ spent' = IF st = "Failed" THEN spent \ {k} ELSE spent
  /\ UNCHANGED <<serving, records, recovered, boot>>

(* write_all, flush and sync_data all succeed.                             *)
Write(k, st) ==
  /\ Admits(k, st)
  /\ file' = Append(file, NewRecord(k, st))
  /\ writing' = NewRecord(k, st)
  /\ answer' = Answer(st, k, "accepted")
  /\ spent' = IF st = "Failed" THEN spent \ {k} ELSE spent
  /\ UNCHANGED <<serving, records, recovered, boot>>

(* write_all fails after some bytes, or sync_data fails after all of them: *)
(* append returns before it updates the image.                             *)
WriteFails(k, st) ==
  /\ Admits(k, st)
  /\ \/ "torn" \in Faults /\ file' = Append(file, Torn)
     \/ "sync" \in Faults /\ file' = Append(file, NewRecord(k, st))
  /\ answer' = Answer(st, k, "error")
  /\ spent' = IF st = "Failed" THEN spent \ {k} ELSE spent
  /\ UNCHANGED <<serving, records, recovered, writing, boot>>

(* Mutant: an outcome leaves the key in recovered_uncertain_keys. *)
CommitKeepsRecovered ==
  /\ ~Idle
  /\ records' = Append(records, writing)
  /\ writing' = NoRecord
  /\ spent' = IF writing.state = "Failed" THEN spent ELSE spent \cup {writing.key}
  /\ UNCHANGED <<file, serving, recovered, answer, boot>>

(* The image is updated and the caller is answered.                        *)
Commit ==
  /\ ~Idle
  /\ records' = Append(records, writing)
  /\ recovered' = IF writing.state = "Intent" THEN recovered
                  ELSE recovered \ {writing.key}
  /\ writing' = NoRecord
  /\ spent' = IF writing.state = "Failed" THEN spent ELSE spent \cup {writing.key}
  /\ UNCHANGED <<file, serving, answer, boot>>

(* effect_state does not look at the path: before configure the image is   *)
(* empty, and every key is NotStarted.                                     *)
EffectState(k) ==
  IF k \in recovered THEN "OutcomeUncertain"
  ELSE IF \E st \in EffectStates : LatestIs(records, k, st)
       THEN Meaning[CHOOSE st \in EffectStates : LatestIs(records, k, st)]
       ELSE "NotStarted"

Query(k) ==
  /\ Idle
  /\ answer' = Answer("state", k, EffectState(k))
  /\ UNCHANGED <<file, serving, records, recovered, writing, boot, spent>>

(* The process dies, at any point, and another one starts unconfigured.    *)
Crash ==
  /\ serving' = FALSE
  /\ records' = <<>>
  /\ recovered' = {}
  /\ writing' = NoRecord
  /\ answer' = NoAnswer
  /\ boot' = Len(file)
  /\ UNCHANGED <<file, spent>>

Next ==
  \/ Configure
  \/ \E k \in Keys, st \in EffectStates :
        Decline(k, st) \/ Write(k, st) \/ WriteFails(k, st)
  \/ Commit
  \/ \E k \in Keys : Query(k)
  \/ Crash

Spec == Init /\ [][Next]_vars

-----------------------------------------------------------------------------
(* The ledger, seen through the file: an intent that no outcome follows is *)
(* in progress if this process wrote it and uncertain if an earlier one    *)
(* did.                                                                    *)

MeaningAt(s, i, b) ==
  IF s[i].state = "Intent" /\ i <= b THEN "OutcomeUncertain"
  ELSE Meaning[s[i].state]

StatusIn(s, k, b) ==
  IF Completed(s, k) THEN "KnownComplete"
  ELSE IF \E i \in 1 .. Len(s) : IsLatest(s, k, i)
  THEN MeaningAt(s, CHOOSE i \in 1 .. Len(s) : IsLatest(s, k, i), b)
  ELSE "NotStarted"

known == [k \in Keys |-> StatusIn(file, k, boot)]

Ledger == INSTANCE EffectLedger WITH status <- known

-----------------------------------------------------------------------------

(* Type invariant; recovered_uncertain_keys only holds keys whose latest    *)
(* record is an intent, and a process that is not serving holds nothing.   *)
TypeOK ==
  /\ file \in Seq(Record \cup {Torn})
  /\ serving \in BOOLEAN
  /\ records \in Seq(Record)
  /\ recovered \in SUBSET {k \in Keys : LatestIs(records, k, "Intent")}
  /\ writing \in Record \cup {NoRecord}
  /\ ~serving => records = <<>> /\ writing = NoRecord
  /\ boot \in 0 .. Len(file)
  /\ spent \in SUBSET Keys

(* The records that stop a fresh intent for a key.                         *)
Blocks(s, k) ==
  Completed(s, k) \/ LatestIs(s, k, "Intent") \/ LatestIs(s, k, "Uncertain")

(* The journal knows every spent key: its image while it is serving, and   *)
(* the file, if it can be read back at all, for the process to come. This  *)
(* is what survives failing writes and the death of the process at any     *)
(* point of append.                                                        *)
SpentIsRecorded ==
  \A k \in spent : /\ serving => Blocks(records, k)
                   /\ Loadable(file) => Blocks(file, k)

(* An effect that was allowed to start, or that was reported complete or   *)
(* uncertain, is never allowed to start afresh unless somebody reported    *)
(* its failure - whatever restarts and failed writes came in between.      *)
NoBlindRetry ==
  [][\A k \in spent : ~Write(k, "Intent")]_vars

(* However the process dies, the next one can read the file back: sequence *)
(* numbers increase and the retention bound holds, as long as no line is   *)
(* torn (and no sync fails).                                               *)
ReadableAfterCrash ==
  (\A i \in 1 .. Len(file) : file[i] # Torn) => Loadable(file)

(* The journal implements the ledger. *)
ImplementsLedger == Ledger!Spec
=============================================================================
