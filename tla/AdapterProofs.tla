--------------------------- MODULE AdapterProofs ----------------------------
(***************************************************************************)
(* Theorems about Adapters: what the file adapters and the command adapter *)
(* promise, for any artifacts, files, plans and values, and however often  *)
(* others write the destination.                                           *)
(*                                                                         *)
(* What is needed of a merge is MergeAssumption.  JsonAdapter gives it by  *)
(* recursive functions of JSON values, for which TLC evaluates it.         *)
(***************************************************************************)
EXTENDS Adapters, TLAPS

-----------------------------------------------------------------------------
(* The invariant of a call on a file *)

\* The steps of apply() after its comparison, and those after its rename.
Writing == {"save", "write", "replace"}
Written == {"verify", "rollback", "restore"}

\* A result is there when the call is over, and only then.
Reported == outcome # "none" => fpc = "done"

\* Nobody came in since the comparison: what will be replaced was compared.
Compared ==
    /\ kind = "json_merge"
    /\ fpc \in Writing
    /\ edited \cap Writing = {}
    => Digest(disk) = seen /\ disk = document

\* What a rollback writes is what was read before the write.
Restoring == fpc = "restore" => temporary = previous

Failed == outcome = "failed" /\ "done" \notin edited => disk = previous

\* These need nothing of a merge.
CallInv == Reported /\ Compared /\ Restoring /\ Failed

\* Once previewed, the artifact is acceptable; a document could be parsed,
\* and the managed-file adapter has none.
Judged ==
    /\ fpc \in {"compare", "verify"} \cup Writing => Acceptable(kind, artifact)
    /\ document # NoFile => Readable(kind, document)
    /\ kind = "managed_file" => document = NoFile

\* The temporary file is what the merge made; after the rename so is the file.
Made ==
    /\ fpc = "replace" => temporary = Outcome(kind, document, artifact)
    /\ fpc = "verify" /\ "verify" \notin edited =>
            disk = Outcome(kind, document, artifact)

Applied == outcome = "applied" /\ "done" \notin edited =>
            Promised(kind, disk, artifact)

\* What of the file must stay is still that of the document the merge began
\* with, which is also what a rollback puts back.
SealedStill ==
    /\ kind = "json_merge"
    /\ edited \cap (Writing \cup Written) = {}
    => /\ fpc \in {"write", "replace"} \cup Written => previous = document
       /\ fpc \in Written => Sealed(disk) = Sealed(document)

WrittenInv == FileTypeOK /\ Judged /\ Made /\ Applied /\ SealedStill

-----------------------------------------------------------------------------
(* The invariant of a call of the command *)

Walking == {"audit", "preview", "apply", "undo", "verify", "rollback"}

\* The keys of the plan nobody else ran the command for.
Own(i) == plan[i].key \notin touched

\* at is an item of the plan.
Placed == cpc \in Walking => at \in 1..Len(plan)

Concluded == verdict # "none" => cpc = "done"

\* preview() read each key before at, and the key is what it read.
ReadSoFar ==
    cpc = "preview" => \A i \in DOMAIN plan : i < at =>
        /\ reading[plan[i].key] \in Held
        /\ Own(i) => config[plan[i].key] = reading[plan[i].key]

\* From apply() on, _previous holds a value for each key of the plan.
AllSaved ==
    cpc \in {"apply", "undo", "verify", "rollback"} =>
        \A i \in DOMAIN plan : saved[plan[i].key] \in Held

\* apply() has not reached the keys from at on.
NotYet ==
    cpc = "apply" => \A i \in DOMAIN plan :
        i >= at /\ Own(i) => config[plan[i].key] = saved[plan[i].key]

\* A compensation or a rollback has put back the keys after at.
PutBackSoFar ==
    cpc \in {"undo", "rollback"} => \A i \in DOMAIN plan :
        i > at /\ Own(i) /\ plan[i].key \notin blocked =>
            config[plan[i].key] = saved[plan[i].key]

\* A comparison has found the keys before at as they are wanted.
SameSoFar ==
    cpc \in {"audit", "verify"} => \A i \in DOMAIN plan :
        i < at /\ Own(i) => config[plan[i].key] = plan[i].want

ConfigRolledBack ==
    verdict \in {"failed", "indeterminate"} => \A i \in DOMAIN plan :
        Own(i) /\ plan[i].key \notin blocked =>
            config[plan[i].key] = saved[plan[i].key]

ConfigApplied ==
    verdict = "applied" =>
        \A i \in DOMAIN plan : Own(i) => config[plan[i].key] = plan[i].want

ConfigInv ==
    /\ ConfigTypeOK
    /\ Placed /\ Concluded
    /\ ReadSoFar /\ AllSaved
    /\ NotYet /\ PutBackSoFar /\ SameSoFar
    /\ ConfigRolledBack /\ ConfigApplied

-----------------------------------------------------------------------------
(* Files *)

(* Every step of a call keeps what the adapter remembers in agreement with *)
(* the file, but for the steps others came in before.                      *)
LEMMA CallStep ==
    ASSUME CallInv, [FileNext]_fileVars
    PROVE  CallInv'
<1>. USE DEF CallInv, Reported, Compared, Restoring, Failed, Writing
<1>1. ASSUME AuditKeeps \/ Process \/ PreviewRaises \/ Preview
      PROVE  CallInv'
  BY <1>1 DEF AuditKeeps, Process, PreviewRaises, Preview, To, End, Steady
<1>2. CASE Compare
  BY <1>2 DEF Compare, Unchanged, CanRead, To, Steady
<1>3. CASE CompareRaises \/ SaveRaises
  BY <1>3 DEF CompareRaises, SaveRaises, End, Steady
<1>4. CASE Save
  BY <1>4 DEF Save, To, Steady
<1>5. CASE Write
  BY <1>5 DEF Write, To, Steady
<1>6. CASE WriteRaises
  BY <1>6 DEF WriteRaises, End, Steady
<1>7. CASE Replace
  BY <1>7 DEF Replace, To, Steady
<1>8. CASE ReplaceRaises
  BY <1>8 DEF ReplaceRaises, End, Steady
<1>9. CASE Verify \/ VerifyFails
  BY <1>9 DEF Verify, VerifyFails, To, End, Steady
<1>10. CASE RollbackUnlinks
  BY <1>10 DEF RollbackUnlinks, End, Steady
<1>11. CASE RollbackWrites
  BY <1>11 DEF RollbackWrites, To, Steady
<1>12. CASE Restore
  BY <1>12 DEF Restore, End, Steady
<1>13. CASE RollbackRaises
  BY <1>13 DEF RollbackRaises, End, Steady
<1>14. CASE NextEvent \/ Die
  BY <1>14 DEF NextEvent, Die, Forgotten
<1>15. CASE Edit
  BY <1>15 DEF Edit
<1>16. CASE UNCHANGED fileVars
  BY <1>16 DEF fileVars
<1>. QED
  BY <1>1, <1>2, <1>3, <1>4, <1>5, <1>6, <1>7, <1>8, <1>9, <1>10, <1>11,
     <1>12, <1>13, <1>14, <1>15, <1>16 DEF FileNext, AdapterStep

(* What a merge makes of a document the adapter could parse.               *)
LEMMA MergeIs ==
    ASSUME WrittenInv, Acceptable(kind, artifact)
    PROVE  /\ Outcome(kind, document, artifact) \in Contents
           /\ Readable(kind, Outcome(kind, document, artifact))
           /\ Satisfies(kind, Outcome(kind, document, artifact), artifact)
           /\ kind = "json_merge" =>
                Sealed(Outcome(kind, document, artifact)) = Sealed(document)
BY MergeAssumption DEF WrittenInv, FileTypeOK, Judged

(* What verify() accepts is what was asked for.                            *)
LEMMA HeldIsPromised ==
    ASSUME FileTypeOK, Holds
    PROVE  Promised(kind, disk, artifact)
BY MergeAssumption DEF FileTypeOK, Holds, CanRead, Files

(* As long as the file is what the merge made, verify() accepts it.        *)
LEMMA MadeHolds ==
    ASSUME WrittenInv, fpc = "verify", "verify" \notin edited
    PROVE  Holds
<1>1. Acceptable(kind, artifact) /\ disk = Outcome(kind, document, artifact)
  BY DEF WrittenInv, Judged, Made
<1>. QED
  BY <1>1, MergeIs, FileAssumption DEF Holds, CanRead

(* The steps before the file is written.                                   *)
LEMMA WrittenBefore ==
    ASSUME CallInv, WrittenInv,
           \/ AuditKeeps \/ Process \/ PreviewRaises \/ Preview
           \/ Compare \/ CompareRaises \/ Save \/ SaveRaises
    PROVE  WrittenInv'
<1>. USE DEF WrittenInv, FileTypeOK, FileSteps, FileOutcomes, Writing, Written
<1>1. CASE AuditKeeps
  <2>1. Promised(kind, disk, artifact)
    BY <1>1, HeldIsPromised DEF AuditKeeps
  <2>. QED
    BY <1>1, <2>1
    DEF AuditKeeps, End, Steady, Judged, Made, Applied, SealedStill
<1>2. CASE Process \/ PreviewRaises
  BY <1>2
  DEF Process, PreviewRaises, To, End, Steady, Judged, Made, Applied, SealedStill
<1>3. CASE Preview
  BY <1>3 DEF Preview, To, Steady, Judged, Made, Applied, SealedStill,
              CallInv, Reported
<1>4. CASE Compare
  BY <1>4, FileAssumption
  DEF Compare, CanRead, Files, To, Steady, Judged, Made, Applied, SealedStill,
      CallInv, Reported
<1>5. CASE CompareRaises \/ SaveRaises
  BY <1>5
  DEF CompareRaises, SaveRaises, End, Steady, Judged, Made, Applied, SealedStill
<1>6. CASE Save
  <2>1. previous' \in Contents \cup {NoFile}
    BY <1>6 DEF Save, Files
  <2>2. SealedStill'
    BY <1>6 DEF Save, To, Steady, SealedStill, CallInv, Compared
  <2>. QED
    BY <1>6, <2>1, <2>2
    DEF Save, To, Steady, Judged, Made, Applied, CallInv, Reported
<1>. QED
  BY <1>1, <1>2, <1>3, <1>4, <1>5, <1>6

(* The steps that write the file.                                          *)
LEMMA WrittenNow ==
    ASSUME CallInv, WrittenInv,
           Write \/ WriteRaises \/ Replace \/ ReplaceRaises
    PROVE  WrittenInv'
<1>. USE DEF WrittenInv, FileTypeOK, FileSteps, FileOutcomes, Writing, Written
<1>1. CASE Write
  <2>1. Outcome(kind, document, artifact) \in Contents
    BY <1>1, MergeIs DEF Write, Judged
  <2>. QED
    BY <1>1, <2>1 DEF Write, To, Steady, Judged, Made, Applied, SealedStill,
                      CallInv, Reported
<1>2. CASE WriteRaises
  BY <1>2 DEF WriteRaises, End, Steady, Judged, Made, Applied, SealedStill
<1>3. CASE Replace
  <2>1. /\ temporary = Outcome(kind, document, artifact)
        /\ kind = "json_merge" => Sealed(temporary) = Sealed(document)
    BY <1>3, MergeIs DEF Replace, Judged, Made
  <2>2. SealedStill'
    BY <1>3, <2>1 DEF Replace, To, Steady, SealedStill
  <2>. QED
    BY <1>3, <2>1, <2>2 DEF Replace, To, Steady, Files, Judged, Made, Applied,
                            CallInv, Reported
<1>4. CASE ReplaceRaises
  BY <1>4
  DEF ReplaceRaises, Files, End, Steady, Judged, Made, Applied, SealedStill
<1>. QED
  BY <1>1, <1>2, <1>3, <1>4

(* The steps after the file was written.                                   *)
LEMMA WrittenAfter ==
    ASSUME CallInv, WrittenInv,
           \/ Verify \/ VerifyFails
           \/ RollbackUnlinks \/ RollbackWrites \/ Restore \/ RollbackRaises
    PROVE  WrittenInv'
<1>. USE DEF WrittenInv, FileTypeOK, FileSteps, FileOutcomes, Writing, Written,
             Files
<1>1. CASE Verify
  <2>1. Promised(kind, disk, artifact)
    BY <1>1, HeldIsPromised DEF Verify
  <2>. QED
    BY <1>1, <2>1
    DEF Verify, End, Steady, Judged, Made, Applied, SealedStill
<1>2. CASE VerifyFails
  BY <1>2 DEF VerifyFails, To, Steady, Judged, Made, Applied, SealedStill,
              CallInv, Reported
<1>3. CASE RollbackUnlinks
  BY <1>3 DEF RollbackUnlinks, End, Steady, Judged, Made, Applied, SealedStill
<1>4. CASE RollbackWrites
  BY <1>4 DEF RollbackWrites, To, Steady, Judged, Made, Applied, SealedStill,
              CallInv, Reported
<1>5. CASE Restore
  BY <1>5 DEF Restore, End, Steady, Judged, Made, Applied, SealedStill
<1>6. CASE RollbackRaises
  BY <1>6 DEF RollbackRaises, End, Steady, Judged, Made, Applied, SealedStill
<1>. QED
  BY <1>1, <1>2, <1>3, <1>4, <1>5, <1>6

(* What comes from outside, and the next call.                             *)
LEMMA WrittenOutside ==
    ASSUME WrittenInv, CallInv, NextEvent \/ Die \/ Edit
    PROVE  WrittenInv'
<1>. USE DEF WrittenInv, FileTypeOK, FileSteps, FileOutcomes, Writing, Written
<1>1. CASE NextEvent \/ Die
  BY <1>1
  DEF NextEvent, Die, Forgotten, Judged, Made, Applied, SealedStill
<1>2. CASE Edit
  <2>1. disk' \in Files
    BY <1>2, FileAssumption DEF Edit, Files
  <2>. QED
    BY <1>2, <2>1 DEF Edit, Judged, Made, Applied, SealedStill, CallInv, Reported
<1>. QED
  BY <1>1, <1>2

LEMMA WrittenStep ==
    ASSUME CallInv, WrittenInv, [FileNext]_fileVars
    PROVE  WrittenInv'
<1>1. CASE UNCHANGED fileVars
  BY <1>1 DEF fileVars, WrittenInv, FileTypeOK, Judged, Made, Applied, SealedStill
<1>. QED
  BY <1>1, WrittenBefore, WrittenNow, WrittenAfter, WrittenOutside
  DEF FileNext, AdapterStep

-----------------------------------------------------------------------------
(* The command's configuration *)

(* A plan names allowed keys and their values, each key once.              *)
LEMMA PlanIs ==
    ASSUME ConfigTypeOK
    PROVE  /\ Len(plan) \in Nat /\ Len(plan) > 0
           /\ DOMAIN plan = 1..Len(plan)
           /\ \A i \in DOMAIN plan : plan[i].key \in Keys /\ plan[i].want \in Held
           /\ \A i, j \in DOMAIN plan : plan[i].key = plan[j].key => i = j
<1>. DEFINE Items == [key : Keys, want : Held]
<1>1. /\ plan \in Seq(Items)
      /\ plan # <<>>
      /\ \A i, j \in DOMAIN plan : plan[i].key = plan[j].key => i = j
  BY PlanAssumption DEF ConfigTypeOK, Held
<1>2. Len(plan) \in Nat /\ Len(plan) > 0 /\ DOMAIN plan = 1..Len(plan)
  BY <1>1
<1>3. \A i \in DOMAIN plan : plan[i] \in Items
  <2>. HIDE DEF Items
  <2>. QED
    BY <1>1, <1>2
<1>4. \A i \in DOMAIN plan : plan[i].key \in Keys /\ plan[i].want \in Held
  BY <1>3
<1>. QED
  BY <1>1, <1>2, <1>4

(* The call is at the last item or before it.                              *)
LEMMA LastOrNot ==
    ASSUME NEW n \in Nat, NEW i \in 1..n
    PROVE  i \in Nat /\ (i < n \/ i = n)
OBVIOUS

(* The item the call is at, and what a run of the command writes to it:    *)
(* the other keys of the plan stay.                                        *)
LEMMA OneKey ==
    ASSUME ConfigInv, cpc \in Walking, NEW v \in Held,
           config' = [config EXCEPT ![Key] = v]
    PROVE  /\ at \in DOMAIN plan
           /\ config' \in [Keys -> Held]
           /\ config'[Key] = v
           /\ \A i \in DOMAIN plan :
                i # at => config'[plan[i].key] = config[plan[i].key]
<1>1. at \in DOMAIN plan /\ Key \in Keys
  BY PlanIs DEF ConfigInv, Placed, Key
<1>2. config \in [Keys -> Held]
  BY DEF ConfigInv, ConfigTypeOK
<1>3. config' \in [Keys -> Held] /\ config'[Key] = v
  BY <1>1, <1>2
<1>4. ASSUME NEW i \in DOMAIN plan, i # at
      PROVE  config'[plan[i].key] = config[plan[i].key]
  <2>1. plan[i].key \in Keys /\ plan[i].key # Key
    BY <1>1, <1>4, PlanIs DEF Key, ConfigInv
  <2>. QED
    BY <1>2, <2>1
<1>. QED
  BY <1>1, <1>3, <1>4

-----------------------------------------------------------------------------
(* The steps of a call of the command *)

(* preview(), a key at a time.                                             *)
LEMMA PreviewKeeps ==
    ASSUME ConfigInv, Open \/ Read \/ ReadRaises
    PROVE  ConfigInv'
<1>. USE DEF ConfigInv, ConfigTypeOK, ConfigSteps, Verdicts, Walking
<1>0. DOMAIN plan = 1..Len(plan) /\ Len(plan) \in Nat /\ Len(plan) > 0
  BY PlanIs
<1>1. CASE Open
  <2>1. Nothing \in [Keys -> Held \cup {Unread}]
    BY DEF Nothing
  <2>. QED
    BY <1>0, <1>1, <2>1
    DEF Open, Call, Placed, Concluded, ReadSoFar, AllSaved, NotYet, PutBackSoFar,
        SameSoFar, ConfigRolledBack, ConfigApplied, Own
<1>2. CASE Read
  <2>1. cpc = "preview" /\ at \in 1..Len(plan) /\ Key = plan[at].key
    BY <1>0, <1>2 DEF Read, Placed, Key
  <2>2. Key \in Keys /\ config[Key] \in Held
    BY <1>0, <2>1, PlanIs
  <2>3. reading' \in [Keys -> Held \cup {Unread}] /\ reading'[Key] = config[Key]
    BY <1>0, <1>2, <2>2 DEF Read
  <2>4. ASSUME NEW i \in DOMAIN plan, i <= at
        PROVE  /\ reading'[plan[i].key] \in Held
               /\ Own(i) => config[plan[i].key] = reading'[plan[i].key]
    <3>1. CASE i = at
      BY <1>0, <2>1, <2>2, <2>3, <3>1
    <3>2. CASE i # at
      <4>1. plan[i].key \in Keys /\ plan[i].key # Key
        BY <1>0, <2>1, <3>2, PlanIs
      <4>2. reading'[plan[i].key] = reading[plan[i].key]
        BY <1>0, <1>2, <4>1 DEF Read
      <4>. QED
        BY <1>0, <2>1, <2>4, <3>2, <4>2 DEF ReadSoFar
    <3>. QED
      BY <3>1, <3>2
  <2>5. UNCHANGED <<config, plan, touched, blocked, verdict>> /\ verdict = "none"
    BY <1>0, <1>2, <2>1 DEF Read, Call, Concluded
  <2>6. CASE at < Len(plan)
    <3>1. cpc' = "preview" /\ at' = at + 1 /\ UNCHANGED saved
      BY <1>0, <1>2, <2>6 DEF Read, Call
    <3>. QED
      BY <1>0, <2>1, <2>3, <2>4, <2>5, <2>6, <3>1
      DEF Placed, Concluded, ReadSoFar, AllSaved, NotYet, PutBackSoFar,
          SameSoFar, ConfigRolledBack, ConfigApplied, Own
  <2>7. CASE at = Len(plan)
    <3>1. cpc' = "apply" /\ at' = 1 /\ saved' = reading'
      BY <1>0, <1>2, <2>7 DEF Read, Call
    <3>. QED
      BY <1>0, <2>1, <2>3, <2>4, <2>5, <2>7, <3>1
      DEF Placed, Concluded, ReadSoFar, AllSaved, NotYet, PutBackSoFar,
          SameSoFar, ConfigRolledBack, ConfigApplied, Own
  <2>. QED
    BY <1>0, <2>1, <2>6, <2>7, LastOrNot
<1>3. CASE ReadRaises
  BY <1>0, <1>3
  DEF ReadRaises, Answer, Placed, Concluded, ReadSoFar, AllSaved, NotYet,
      PutBackSoFar, SameSoFar, ConfigRolledBack, ConfigApplied, Own
<1>. QED
  BY <1>0, <1>1, <1>2, <1>3

(* A run of apply() that worked.                                           *)
LEMMA SetKeeps ==
    ASSUME ConfigInv, Set
    PROVE  ConfigInv'
<1>. USE DEF ConfigInv, ConfigTypeOK, ConfigSteps, Verdicts, Walking
<1>0. DOMAIN plan = 1..Len(plan) /\ Len(plan) \in Nat /\ Len(plan) > 0
  BY PlanIs
<1>1. /\ cpc = "apply" /\ at \in 1..Len(plan)
      /\ config' = [config EXCEPT ![Key] = Want]
      /\ Want \in Held
  BY PlanIs DEF Set, Placed, Want
<1>2. /\ config' \in [Keys -> Held]
      /\ \A i \in DOMAIN plan :
            i # at => config'[plan[i].key] = config[plan[i].key]
  BY <1>0, <1>1, OneKey
<1>3. UNCHANGED <<plan, reading, saved, touched, blocked, verdict>>
        /\ verdict = "none"
  BY <1>0, <1>1 DEF Set, Call, Concluded
<1>4. CASE at < Len(plan)
  <2>1. cpc' = "apply" /\ at' = at + 1
    BY <1>4 DEF Set, Call
  <2>. QED
    BY <1>0, <1>1, <1>2, <1>3, <1>4, <2>1
    DEF Placed, Concluded, ReadSoFar, AllSaved, NotYet, PutBackSoFar,
        SameSoFar, ConfigRolledBack, ConfigApplied, Own
<1>5. CASE at = Len(plan)
  <2>1. cpc' = "verify" /\ at' = 1
    BY <1>5 DEF Set, Call
  <2>. QED
    BY <1>0, <1>1, <1>2, <1>3, <1>5, <2>1
    DEF Placed, Concluded, ReadSoFar, AllSaved, NotYet, PutBackSoFar,
        SameSoFar, ConfigRolledBack, ConfigApplied, Own
<1>. QED
  BY <1>0, <1>1, <1>4, <1>5, LastOrNot

(* A run of apply() that failed: the keys after it have not been reached.  *)
LEMMA SetRaisesKeeps ==
    ASSUME ConfigInv, SetRaises
    PROVE  ConfigInv'
<1>. USE DEF ConfigInv, ConfigTypeOK, ConfigSteps, Verdicts, Walking
<1>0. DOMAIN plan = 1..Len(plan) /\ Len(plan) \in Nat /\ Len(plan) > 0
  BY PlanIs
<1>1. /\ cpc = "apply" /\ at \in 1..Len(plan) /\ Key \in Keys
      /\ Want \in Held
      /\ blocked' = blocked \cup {plan[at].key}
  BY PlanIs DEF SetRaises, Placed, Want, Key
<1>2. /\ config' \in [Keys -> Held]
      /\ \A i \in DOMAIN plan :
            i # at => config'[plan[i].key] = config[plan[i].key]
  BY <1>0, <1>1, OneKey DEF SetRaises
<1>3. UNCHANGED <<plan, reading, saved, touched>>
  BY DEF SetRaises
<1>4. \A i \in DOMAIN plan :
        i >= at /\ Own(i) /\ plan[i].key \notin blocked' =>
            config'[plan[i].key] = saved[plan[i].key]
  BY <1>0, <1>1, <1>2 DEF NotYet
<1>5. CASE at > 1
  <2>1. cpc' = "undo" /\ at' = at - 1 /\ verdict' = verdict /\ verdict = "none"
    BY <1>0, <1>1, <1>5 DEF SetRaises, Call, Concluded
  <2>. QED
    BY <1>0, <1>1, <1>2, <1>3, <1>4, <1>5, <2>1
    DEF Placed, Concluded, ReadSoFar, AllSaved, NotYet, PutBackSoFar,
        SameSoFar, ConfigRolledBack, ConfigApplied, Own, Key
<1>6. CASE at = 1
  <2>1. cpc' = "done" /\ at' = 0 /\ verdict' = "indeterminate"
    BY <1>6 DEF SetRaises, Answer
  <2>. QED
    BY <1>0, <1>1, <1>2, <1>3, <1>4, <1>6, <2>1
    DEF Placed, Concluded, ReadSoFar, AllSaved, NotYet, PutBackSoFar,
        SameSoFar, ConfigRolledBack, ConfigApplied, Own, Key
<1>. QED
  BY <1>0, <1>1, <1>5, <1>6

(* A key put back, by the compensation of apply() or by rollback().        *)
LEMMA PutBackKeeps ==
    ASSUME ConfigInv, Undo \/ PutBack
    PROVE  ConfigInv'
<1>. USE DEF ConfigInv, ConfigTypeOK, ConfigSteps, Verdicts, Walking
<1>0. DOMAIN plan = 1..Len(plan) /\ Len(plan) \in Nat /\ Len(plan) > 0
  BY PlanIs
<1>1. /\ cpc \in {"undo", "rollback"} /\ at \in 1..Len(plan)
      /\ config' = [config EXCEPT ![Key] = saved[Key]]
      /\ saved[Key] \in Held
  BY DEF Undo, PutBack, Placed, AllSaved, Key
<1>2. /\ config' \in [Keys -> Held]
      /\ config'[Key] = saved[Key]
      /\ \A i \in DOMAIN plan :
            i # at => config'[plan[i].key] = config[plan[i].key]
  BY <1>0, <1>1, OneKey
<1>3. UNCHANGED <<plan, reading, saved, touched, blocked>>
  BY DEF Undo, PutBack
<1>4. \A i \in DOMAIN plan :
        i >= at /\ Own(i) /\ plan[i].key \notin blocked =>
            config'[plan[i].key] = saved[plan[i].key]
  BY <1>0, <1>1, <1>2 DEF PutBackSoFar, Key
<1>5. CASE at > 1
  <2>1. cpc' = cpc /\ at' = at - 1 /\ verdict' = verdict /\ verdict = "none"
    BY <1>0, <1>1, <1>5 DEF Undo, PutBack, Call, Concluded
  <2>. QED
    BY <1>0, <1>1, <1>2, <1>3, <1>4, <1>5, <2>1
    DEF Placed, Concluded, ReadSoFar, AllSaved, NotYet, PutBackSoFar,
        SameSoFar, ConfigRolledBack, ConfigApplied, Own
<1>6. CASE at = 1
  <2>1. cpc' = "done" /\ at' = 0 /\ verdict' \in {"indeterminate", "failed"}
    BY <1>6 DEF Undo, PutBack, Answer
  <2>. QED
    BY <1>0, <1>1, <1>2, <1>3, <1>4, <1>6, <2>1
    DEF Placed, Concluded, ReadSoFar, AllSaved, NotYet, PutBackSoFar,
        SameSoFar, ConfigRolledBack, ConfigApplied, Own
<1>. QED
  BY <1>0, <1>1, <1>5, <1>6

(* A key that could not be put back ends the call; a compensation leaves   *)
(* this one and those before it as they are.                               *)
LEMMA PutBackRaisesKeeps ==
    ASSUME ConfigInv, UndoRaises \/ PutBackRaises
    PROVE  ConfigInv'
<1>. USE DEF ConfigInv, ConfigTypeOK, ConfigSteps, Verdicts, Walking
<1>0. DOMAIN plan = 1..Len(plan) /\ Len(plan) \in Nat /\ Len(plan) > 0
  BY PlanIs
<1>1. /\ cpc \in {"undo", "rollback"} /\ at \in 1..Len(plan)
      /\ saved[Key] \in Held
  BY DEF UndoRaises, PutBackRaises, Placed, AllSaved, Key
<1>2. /\ config' \in [Keys -> Held]
      /\ \A i \in DOMAIN plan :
            i # at => config'[plan[i].key] = config[plan[i].key]
  BY <1>0, <1>1, OneKey DEF UndoRaises, PutBackRaises
<1>3. /\ UNCHANGED <<plan, reading, saved, touched>>
      /\ cpc' = "done" /\ at' = 0
  BY DEF UndoRaises, PutBackRaises, Answer
<1>4. CASE UndoRaises
  <2>1. /\ cpc = "undo" /\ verdict' = "indeterminate"
        /\ blocked' = blocked \cup {plan[i].key : i \in 1..at}
    BY <1>4 DEF UndoRaises, Answer
  <2>2. \A i \in 1..at : plan[i].key \in blocked'
    BY <2>1
  <2>3. blocked' \subseteq Keys
    BY <1>0, <1>1, <2>1, PlanIs
  <2>4. \A i \in DOMAIN plan : Own(i) /\ plan[i].key \notin blocked' =>
            config'[plan[i].key] = saved[plan[i].key]
    BY <1>0, <1>1, <1>2, <2>1, <2>2 DEF PutBackSoFar
  <2>. QED
    BY <1>0, <1>2, <1>3, <2>1, <2>3, <2>4
    DEF Placed, Concluded, ReadSoFar, AllSaved, NotYet, PutBackSoFar,
        SameSoFar, ConfigRolledBack, ConfigApplied, Own
<1>5. CASE PutBackRaises
  <2>1. verdict' = "unrolled" /\ UNCHANGED blocked
    BY <1>5 DEF PutBackRaises, Answer
  <2>. QED
    BY <1>0, <1>2, <1>3, <2>1
    DEF Placed, Concluded, ReadSoFar, AllSaved, NotYet, PutBackSoFar,
        SameSoFar, ConfigRolledBack, ConfigApplied, Own
<1>. QED
  BY <1>4, <1>5

(* The comparisons of an audit and of verify().                            *)
LEMMA CompareKeeps ==
    ASSUME ConfigInv, Same \/ Differs
    PROVE  ConfigInv'
<1>. USE DEF ConfigInv, ConfigTypeOK, ConfigSteps, Verdicts, Walking
<1>0. DOMAIN plan = 1..Len(plan) /\ Len(plan) \in Nat /\ Len(plan) > 0
  BY PlanIs
<1>1. cpc \in {"audit", "verify"} /\ at \in 1..Len(plan) /\ verdict = "none"
  BY DEF Same, Differs, Placed, Concluded
<1>2. UNCHANGED <<config, plan, reading, saved, touched, blocked>>
  BY DEF Same, Differs
<1>3. CASE Same
  <2>1. \A i \in DOMAIN plan :
            i <= at /\ Own(i) => config[plan[i].key] = plan[i].want
    BY <1>0, <1>1, <1>3 DEF Same, SameSoFar, Key, Want
  <2>2. CASE at < Len(plan)
    <3>1. cpc' = cpc /\ at' = at + 1 /\ verdict' = "none"
      BY <1>1, <1>3, <2>2 DEF Same, Call
    <3>. QED
      BY <1>0, <1>1, <1>2, <2>1, <2>2, <3>1
      DEF Placed, Concluded, ReadSoFar, AllSaved, NotYet, PutBackSoFar,
          SameSoFar, ConfigRolledBack, ConfigApplied, Own
  <2>3. CASE at = Len(plan)
    <3>1. cpc' = "done" /\ at' = 0 /\ verdict' = "applied"
      BY <1>3, <2>3 DEF Same, Answer
    <3>. QED
      BY <1>0, <1>1, <1>2, <2>1, <2>3, <3>1
      DEF Placed, Concluded, ReadSoFar, AllSaved, NotYet, PutBackSoFar,
          SameSoFar, ConfigRolledBack, ConfigApplied, Own
  <2>. QED
    BY <1>0, <1>1, <2>2, <2>3, LastOrNot
<1>4. CASE Differs
  <2>1. /\ verdict' = "none"
        /\ \/ cpc' = "preview" /\ at' = 1
           \/ cpc = "verify" /\ cpc' = "rollback" /\ at' = Len(plan)
    BY <1>0, <1>1, <1>4 DEF Differs, Call
  <2>. QED
    BY <1>0, <1>1, <1>2, <2>1
    DEF Placed, Concluded, ReadSoFar, AllSaved, NotYet, PutBackSoFar,
        SameSoFar, ConfigRolledBack, ConfigApplied, Own
<1>. QED
  BY <1>3, <1>4

(* The next call, a death in the middle of one, and the application's user. *)
LEMMA OutsideKeeps ==
    ASSUME ConfigInv, NextPlan \/ Killed \/ \E k \in Keys : Touch(k)
    PROVE  ConfigInv'
<1>. USE DEF ConfigInv, ConfigTypeOK, ConfigSteps, Verdicts, Walking
<1>0. Nothing \in [Keys -> Held \cup {Unread}]
  BY DEF Nothing
<1>1. ASSUME Restarted, config' \in [Keys -> Held],
             saved' \in [Keys -> Held \cup {Unread}]
      PROVE  ConfigInv'
  <2>1. plan' \in Plans /\ Len(plan') \in Nat
    BY <1>1, PlanAssumption DEF Restarted
  <2>. QED
    BY <1>0, <1>1, <2>1
    DEF Restarted, Placed, Concluded, ReadSoFar, AllSaved, NotYet, PutBackSoFar,
        SameSoFar, ConfigRolledBack, ConfigApplied, Own
<1>2. CASE NextPlan
  BY <1>1, <1>2 DEF NextPlan
<1>3. CASE Killed
  <2>1. saved' \in [Keys -> Held \cup {Unread}]
    BY <1>0, <1>3 DEF Killed
  <2>2. CASE config' = config
    BY <1>1, <1>3, <2>1, <2>2 DEF Killed
  <2>3. CASE cpc = "apply" /\ config' = [config EXCEPT ![Key] = Want]
    <3>1. Want \in Held
      BY <2>3, PlanIs DEF Placed, Want
    <3>. QED
      BY <1>1, <1>3, <2>1, <2>3, <3>1, OneKey DEF Killed
  <2>4. CASE /\ cpc \in {"undo", "rollback"}
             /\ config' = [config EXCEPT ![Key] = saved[Key]]
    <3>1. saved[Key] \in Held
      BY <2>4, PlanIs DEF Placed, AllSaved, Key
    <3>. QED
      BY <1>1, <1>3, <2>1, <2>4, <3>1, OneKey DEF Killed
  <2>. QED
    BY <1>3, <2>2, <2>3, <2>4 DEF Killed
<1>4. ASSUME NEW k \in Keys, Touch(k)
      PROVE  ConfigInv'
  <2>1. /\ UNCHANGED <<plan, cpc, at, reading, saved, verdict, blocked>>
        /\ touched' = touched \cup {k}
    BY <1>4 DEF Touch
  <2>2. PICK v \in Held : config' = [config EXCEPT ![k] = v]
    BY <1>4 DEF Touch
  <2>3. /\ config' \in [Keys -> Held]
        /\ \A j \in Keys : j # k => config'[j] = config[j]
    BY <2>2
  <2>4. \A i \in DOMAIN plan : Own(i)' =>
            Own(i) /\ config'[plan[i].key] = config[plan[i].key]
    BY <2>1, <2>3, PlanIs DEF Own
  <2>. QED
    BY <2>1, <2>3, <2>4
    DEF Placed, Concluded, ReadSoFar, AllSaved, NotYet, PutBackSoFar,
        SameSoFar, ConfigRolledBack, ConfigApplied
<1>. QED
  BY <1>2, <1>3, <1>4

LEMMA ConfigStep ==
    ASSUME ConfigInv, [ConfigNext]_configVars
    PROVE  ConfigInv'
<1>1. CASE UNCHANGED configVars
  BY <1>1
  DEF configVars, ConfigInv, ConfigTypeOK, Placed, Concluded, ReadSoFar, AllSaved,
      NotYet, PutBackSoFar, SameSoFar, ConfigRolledBack, ConfigApplied, Own
<1>. QED
  BY <1>1, PreviewKeeps, SetKeeps, SetRaisesKeeps, PutBackKeeps,
     PutBackRaisesKeeps, CompareKeeps, OutsideKeeps
  DEF ConfigNext, CommandStep

-----------------------------------------------------------------------------
(* The theorems *)

LEMMA InitHolds ==
    ASSUME Init
    PROVE  CallInv /\ WrittenInv /\ ConfigInv
<1>1. CallInv
  BY DEF Init, FileInit, CallInv, Reported, Compared, Restoring, Failed, Writing
<1>2. WrittenInv
  BY FileAssumption
  DEF Init, FileInit, WrittenInv, FileTypeOK, Files, FileSteps, FileOutcomes,
      Judged, Made, Applied, SealedStill, Writing, Written
<1>3. ConfigInv
  <2>1. Nothing \in [Keys -> Held \cup {Unread}]
    BY DEF Nothing
  <2>2. Len(plan) \in Nat
    BY PlanAssumption DEF Init, ConfigInit
  <2>. QED
    BY <2>1, <2>2
    DEF Init, ConfigInit, ConfigInv, ConfigTypeOK, Held, ConfigSteps, Verdicts,
        Walking, Placed, Concluded, ReadSoFar, AllSaved, NotYet, PutBackSoFar,
        SameSoFar, ConfigRolledBack, ConfigApplied
<1>. QED
  BY <1>1, <1>2, <1>3

(* A step is one of the file, one of the command, or none.                 *)
LEMMA StepIs ==
    ASSUME [Next]_vars
    PROVE  [FileNext]_fileVars /\ [ConfigNext]_configVars
BY DEF Next, FileOnly, CommandOnly, vars

(* The invariants, those that need nothing of a merge first.               *)
LEMMA CallsAgree == Spec => [](CallInv /\ ConfigInv)
<1>1. Init => CallInv /\ ConfigInv
  BY InitHolds
<1>2. CallInv /\ ConfigInv /\ [Next]_vars => (CallInv /\ ConfigInv)'
  BY StepIs, CallStep, ConfigStep
<1>. QED
  BY <1>1, <1>2, PTL DEF Spec

LEMMA WritesAgree == Spec => []WrittenInv
<1>1. Init => WrittenInv
  BY InitHolds
<1>2. CallInv /\ WrittenInv /\ [Next]_vars => WrittenInv'
  BY StepIs, WrittenStep
<1>. QED
  BY <1>1, <1>2, CallsAgree, PTL DEF Spec

(* The JSON adapter replaces what it previewed: apply() compares, and only *)
(* somebody who comes in after that is overwritten.                        *)
THEOREM PreviewIsKept == Spec => []PreviewedIsReplaced
<1>1. CallInv => PreviewedIsReplaced
  BY DEF CallInv, Compared, PreviewedIsReplaced, Writing
<1>. QED
  BY <1>1, CallsAgree, PTL

(* What a rollback took back is what was there, in the file and for each   *)
(* key, whatever failed half way and whatever others wrote meanwhile.      *)
THEOREM WhatIsTakenBack == Spec => []RolledBack
<1>1. CallInv /\ ConfigInv => RolledBack
  <2>1. CallInv => (outcome = "failed" /\ "done" \notin edited => disk = previous)
    BY DEF CallInv, Failed
  <2>2. ConfigInv => (verdict \in {"failed", "indeterminate"} =>
            \A k \in Planned \ (touched \cup blocked) : config[k] = saved[k])
    BY DEF ConfigInv, ConfigRolledBack, Own, Planned
  <2>. QED
    BY <2>1, <2>2 DEF RolledBack
<1>. QED
  BY <1>1, CallsAgree, PTL

(* No adapter ever holds something that is no content, has lost its item,  *)
(* or puts a value in the configuration that is none.                      *)
THEOREM AdapterTypes == Spec => []TypeOK
<1>1. WrittenInv /\ CallInv /\ ConfigInv => TypeOK
  BY DEF WrittenInv, ConfigInv, TypeOK
<1>. QED
  BY <1>1, CallsAgree, WritesAgree, PTL

(* apply() and verify() read and merge each for itself, and agree.         *)
THEOREM WriteVerifies == Spec => []WrittenVerifies
<1>1. WrittenInv => WrittenVerifies
  BY MadeHolds DEF WrittenVerifies
<1>. QED
  BY <1>1, WritesAgree, PTL

(* What process() reports applied is in the destination.                   *)
THEOREM AppliedIsThere == Spec => []AppliedHolds
<1>1. WrittenInv /\ CallInv /\ ConfigInv => AppliedHolds
  <2>1. WrittenInv => (outcome = "applied" /\ "done" \notin edited =>
                            Promised(kind, disk, artifact))
    BY DEF WrittenInv, Applied
  <2>2. ConfigInv => (verdict = "applied" => \A i \in DOMAIN plan :
            plan[i].key \notin touched => config[plan[i].key] = plan[i].want)
    BY DEF ConfigInv, ConfigApplied, Own
  <2>. QED
    BY <2>1, <2>2 DEF AppliedHolds
<1>. QED
  BY <1>1, CallsAgree, WritesAgree, PTL

(* What a merge must not touch is not touched by a whole call: not by the  *)
(* write, and not by a rollback that writes what it had read.              *)
LEMMA SealedStep ==
    ASSUME CallInv, WrittenInv, FileNext,
           kind = "json_merge", fpc' # fpc,
           edited \cap (Writing \cup Written) = {}
    PROVE  Sealed(disk') = Sealed(disk)
<1>. USE DEF Writing, Written
<1>1. CASE Replace \/ ReplaceRaises
  <2>1. fpc = "replace" /\ disk' = temporary
    BY <1>1 DEF Replace, ReplaceRaises
  <2>2. disk = document
    BY <2>1 DEF CallInv, Compared
  <2>3. temporary = Outcome(kind, document, artifact)
        /\ Acceptable(kind, artifact)
    BY <2>1 DEF WrittenInv, Judged, Made
  <2>. QED
    BY <2>1, <2>2, <2>3, MergeIs
<1>2. CASE RollbackUnlinks \/ Restore \/ RollbackRaises
  <2>1. fpc \in Written /\ disk' \in {disk, previous}
    BY <1>2 DEF RollbackUnlinks, Restore, RollbackRaises, CallInv, Restoring
  <2>. QED
    BY <2>1 DEF WrittenInv, SealedStill
<1>3. ASSUME disk' = disk
      PROVE  Sealed(disk') = Sealed(disk)
  BY <1>3
<1>. QED
  BY <1>1, <1>2, <1>3
  DEF FileNext, AdapterStep, AuditKeeps, Process, PreviewRaises, Preview, Compare,
      CompareRaises, Save, SaveRaises, Write, WriteRaises, Verify, VerifyFails,
      RollbackWrites, NextEvent, Die, Edit

(* The protected paths outlive every call nobody comes into.               *)
THEOREM ProtectedStay == Spec => ProtectedKept
<1>1. CallInv /\ WrittenInv /\ [Next]_vars =>
        [/\ kind = "json_merge"
         /\ fpc' # fpc
         /\ edited \cap {"save", "write", "replace", "verify", "rollback",
                         "restore"} = {}
         => Sealed(disk') = Sealed(disk)]_fileVars
  BY StepIs, SealedStep DEF Writing, Written
<1>. QED
  BY <1>1, CallsAgree, WritesAgree, PTL DEF Spec, ProtectedKept
=============================================================================
