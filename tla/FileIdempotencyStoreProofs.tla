--------------------- MODULE FileIdempotencyStoreProofs ---------------------
(***************************************************************************)
(* Proofs about FileIdempotencyStore, for any number of requests and keys, *)
(* any TTL and any number of failed writes and crashes: what protects a    *)
(* launch from being repeated, and that the store implements               *)
(* IdempotencyContract.                                                    *)
(***************************************************************************)
EXTENDS FileIdempotencyStore, TLAPS

USE DEF storeVars, requestVars, launchVars, Retire

-----------------------------------------------------------------------------
(* What pruneExpired() leaves *)

\* Pruning keeps the type of a map of records.
LEMMA PrunedType ==
    ASSUME TypeOK,
           NEW map \in [Keys -> Record \cup {None}]
    PROVE  Pruned(map) \in [Keys -> Record \cup {None}]
BY DEF Pruned

\* Pruning drops exactly the expired records.
LEMMA PrunedKeeps ==
    ASSUME NEW map \in [Keys -> Record \cup {None}], NEW k \in Keys
    PROVE  /\ Pruned(map)[k] # None => Pruned(map)[k] = map[k] /\ ~Expired(map[k])
           /\ map[k] # None /\ ~Expired(map[k]) => Pruned(map)[k] = map[k]
BY DEF Pruned

-----------------------------------------------------------------------------
(* Type correctness *)

LEMMA NewRecordType ==
    ASSUME TypeOK, NEW state \in States, NEW r \in Requests,
           NEW l \in Requests \cup {None}
    PROVE  /\ NewRecord(state, r, l) \in Record
           /\ NewRecord(state, r, l) # None
           /\ NewRecord(state, r, l).createdAtMs = now
BY NoneAssumption DEF TypeOK, NewRecord, Record

LEMMA SettleType ==
    ASSUME TypeOK, NEW r \in Requests, NEW own \in Answer, NEW joined \in Answer,
           Settle(r, own, joined)
    PROVE  /\ inFlight' \in [Keys -> Requests \cup {None}]
           /\ pc' \in [Requests -> {"new", "waiting", "acting", "done", "lost"}]
           /\ answer' \in [Requests -> Answer \cup {None}]
BY RequestsAssumption DEF TypeOK, Settle

LEMMA ReplyType ==
    ASSUME NEW kind \in AnswerKinds, NEW l \in Requests \cup {None}
    PROVE  Reply(kind, l) \in Answer
BY DEF Reply, Answer

\* Every step of the store keeps the type invariant.
LEMMA StepType == TypeOK /\ [Next]_vars => TypeOK'
<1> SUFFICES ASSUME TypeOK, [Next]_vars PROVE TypeOK'
  OBVIOUS
<1> USE BoundsAssumption, RequestsAssumption
<1>P. /\ Pruned(records) \in [Keys -> Record \cup {None}]
      /\ Pruned(disk) \in [Keys -> Record \cup {None}]
      /\ DiskAfterPrune \in [Keys -> Record \cup {None}]
  BY PrunedType DEF TypeOK, DiskAfterPrune
<1>1. ASSUME NEW r \in Requests, PruneThrows(r) PROVE TypeOK'
  BY <1>1, <1>P, ReplyType
     DEF PruneThrows, Arrives, PersistThrows, Finish, TypeOK, AnswerKinds
<1>2. ASSUME NEW r \in Requests, Join(r) PROVE TypeOK'
  BY <1>2, <1>P, ReplyType
     DEF Join, Arrives, PersistOk, Finish, TypeOK, AnswerKinds
<1>3. ASSUME NEW r \in Requests, FromRecord(r) PROVE TypeOK'
  <2>1. StoredAnswer(Pruned(records)[KeyOf[r]], HashOf[r]) \in Answer
    BY <1>3, <1>P, ReplyType
       DEF FromRecord, StoredAnswer, Record, AnswerKinds
  <2> QED
    BY <1>3, <1>P, <2>1 DEF FromRecord, Arrives, PersistOk, Finish, TypeOK
<1>4. ASSUME NEW r \in Requests, Start(r) PROVE TypeOK'
  <2>1. WithInProgress(r) \in [Keys -> Record \cup {None}]
    BY <1>P, NewRecordType DEF WithInProgress, States
  <2> QED
    BY <1>4, <2>1 DEF Start, Unknown, Arrives, PersistOk, TypeOK
<1>5. ASSUME NEW r \in Requests, StartThrows(r) PROVE TypeOK'
  <2>1. WithInProgress(r) \in [Keys -> Record \cup {None}]
    BY <1>P, NewRecordType DEF WithInProgress, States
  <2> QED
    BY <1>5, <1>P, <2>1, ReplyType
       DEF StartThrows, Unknown, Arrives, PersistThrows, Finish, TypeOK,
           AnswerKinds
<1>6. ASSUME NEW r \in Requests, Land(r) PROVE TypeOK'
  BY <1>6 DEF Land, TypeOK
<1>S. ASSUME NEW r \in Requests PROVE
        /\ With(r, NewRecord("completed", r, r))
             \in [Keys -> Record \cup {None}]
        /\ With(r, NewRecord("in_doubt", r, r))
             \in [Keys -> Record \cup {None}]
        /\ With(r, None) \in [Keys -> Record \cup {None}]
  BY NewRecordType DEF With, States, TypeOK
<1>R. ASSUME NEW r \in Requests PROVE
        /\ Reply("ok", r) \in Answer
        /\ Reply("replayed", r) \in Answer
        /\ Reply("in_doubt", r) \in Answer
        /\ Reply("store_error", None) \in Answer
        /\ Reply("rejected", None) \in Answer
  BY ReplyType DEF AnswerKinds
<1>7. ASSUME NEW r \in Requests, Complete(r) PROVE TypeOK'
  <2>1. Settle(r, Reply("ok", r), Reply("replayed", r))
    BY <1>7 DEF Complete
  <2> QED
    BY <1>7, <1>S, <1>R, <2>1, SettleType
       DEF Complete, PersistOk, Settle, TypeOK
<1>8. ASSUME NEW r \in Requests, CompleteThrows(r) PROVE TypeOK'
  <2>1. Settle(r, Reply("in_doubt", r), Reply("replayed", r))
    BY <1>8 DEF CompleteThrows
  <2> QED
    BY <1>8, <1>S, <1>R, <2>1, SettleType
       DEF CompleteThrows, Settle, TypeOK
<1>9. ASSUME NEW r \in Requests, Doubt(r) PROVE TypeOK'
  <2>1. PICK own \in Answer : Settle(r, own, Reply("in_doubt", r))
    BY <1>9, <1>R DEF Doubt
  <2> QED
    BY <1>9, <1>S, <1>R, <2>1, SettleType
       DEF Doubt, PersistOk, PersistThrows, Settle, TypeOK
<1>10. ASSUME NEW r \in Requests, Reject(r) PROVE TypeOK'
  <2>1. PICK own \in Answer : Settle(r, own, Reply("rejected", None))
    BY <1>10, <1>R DEF Reject
  <2> QED
    BY <1>10, <1>S, <1>R, <2>1, SettleType
       DEF Reject, PersistOk, PersistThrows, Settle, TypeOK
<1>11. CASE Tick
  BY <1>11 DEF Tick, TypeOK
<1>12. CASE Crash
  <2>1. pc' \in [Requests -> {"new", "waiting", "acting", "done", "lost"}]
    BY <1>12 DEF Crash, TypeOK
  <2>2. /\ records' \in [Keys -> Record \cup {None}]
        /\ inFlight' \in [Keys -> Requests \cup {None}]
    BY <1>12 DEF Crash, TypeOK
  <2>3. up' \in BOOLEAN
    BY <1>12 DEF Crash
  <2>4. crashes' \in 0..MaxCrashes
    BY <1>12 DEF Crash, TypeOK
  <2> QED
    BY <1>12, <2>1, <2>2, <2>3, <2>4 DEF Crash, TypeOK
<1>13. CASE Restart
  BY <1>13, <1>P DEF Restart, TypeOK
<1>14. CASE UNCHANGED vars
  BY <1>14 DEF vars, TypeOK
<1> QED
  BY <1>1, <1>2, <1>3, <1>4, <1>5, <1>6, <1>7, <1>8, <1>9, <1>10, <1>11,
     <1>12, <1>13, <1>14 DEF Next, Execute, SettleAny

\* Every variable keeps its type: in particular every stored record and every
\* answer is well formed, and the fault and crash bounds are kept.
THEOREM TypeCorrect == Spec => []TypeOK
<1>1. Init => TypeOK
  BY BoundsAssumption DEF Init, TypeOK
<1> QED
  BY <1>1, StepType, PTL DEF Spec

-----------------------------------------------------------------------------
(* No second launch within the TTL                                         *)
(*                                                                         *)
(* The two invariants are not inductive by themselves.  What keeps a key    *)
(* from being launched again is the record in memory (after a restart, the  *)
(* one on disk) and, once that has expired, the entry of inFlight; and a    *)
(* rejection may clear the record only because every other launch of the    *)
(* key is older than the rejected one by more than the TTL.                 *)

Recent(r) == Live(r) /\ now - startedAt[r] <= TtlMs

\* The map has a record that protects every recent launch.
Covers(map) ==
    \A r \in Requests :
        Recent(r) => /\ map[KeyOf[r]] # None
                     /\ map[KeyOf[r]].createdAtMs >= startedAt[r]

ActingIsLeader ==
    \A r \in Requests :
        pc[r] = "acting" => up /\ Live(r) /\ inFlight[KeyOf[r]] = r

UnstartedIsIdle ==
    \A r \in Requests : pc[r] \in {"new", "waiting"} => launch[r] = "none"

StartedInThePast == \A r \in Requests : startedAt[r] <= now

LeaderIsNewest ==
    \A q, r \in Requests :
        pc[r] = "acting" /\ SameKey(q, r) /\ Live(q) =>
            startedAt[r] - startedAt[q] > TtlMs

ProtectionInv ==
    /\ TypeOK
    /\ ActingIsLeader
    /\ UnstartedIsIdle
    /\ StartedInThePast
    /\ up => Covers(records)
    /\ Covers(disk)
    /\ LeaderIsNewest
    /\ AtMostOneLaunchPerTtl

LEMMA PrunedCovers ==
    ASSUME TypeOK, NEW map \in [Keys -> Record \cup {None}], Covers(map)
    PROVE  Covers(Pruned(map))
<1> SUFFICES ASSUME NEW r \in Requests, Recent(r)
             PROVE  /\ Pruned(map)[KeyOf[r]] # None
                    /\ Pruned(map)[KeyOf[r]].createdAtMs >= startedAt[r]
  BY DEF Covers
<1>1. map[KeyOf[r]] # None /\ map[KeyOf[r]].createdAtMs >= startedAt[r]
  BY DEF Covers
<1>2. KeyOf[r] \in Keys /\ map[KeyOf[r]].createdAtMs \in Int
      /\ now \in Int /\ startedAt[r] \in Int
  BY <1>1, RequestsAssumption DEF TypeOK, Record
<1>3. ~Expired(map[KeyOf[r]])
  BY <1>1, <1>2, BoundsAssumption DEF Recent, Expired
<1> QED
  BY <1>1, <1>2, <1>3, PrunedKeeps

LEMMA DiskPruneCovers ==
    ASSUME TypeOK, Covers(records), Covers(disk)
    PROVE  Covers(DiskAfterPrune)
BY PrunedCovers DEF DiskAfterPrune, TypeOK

\* A record stamped now protects every launch of its key.
LEMMA StampCovers ==
    ASSUME TypeOK, StartedInThePast, NEW map \in [Keys -> Record \cup {None}],
           Covers(map), NEW k \in Keys, NEW rec \in Record, rec # None,
           rec.createdAtMs = now
    PROVE  Covers([map EXCEPT ![k] = rec])
BY RequestsAssumption DEF Covers, StartedInThePast, TypeOK

\* The in_progress record that starts a launch protects the launches of its key.
LEMMA InProgressCovers ==
    ASSUME TypeOK, StartedInThePast, NEW r \in Requests, Covers(Pruned(records))
    PROVE  Covers(WithInProgress(r))
<1> DEFINE rec == NewRecord("in_progress", r, None)
<1>1. Pruned(records) \in [Keys -> Record \cup {None}]
  BY PrunedType DEF TypeOK
<1>2. rec \in Record /\ rec # None /\ rec.createdAtMs = now
  BY NewRecordType DEF States
<1>3. KeyOf[r] \in Keys
  BY RequestsAssumption
<1> HIDE DEF rec
<1>4. Covers([Pruned(records) EXCEPT ![KeyOf[r]] = rec])
  BY <1>1, <1>2, <1>3, StampCovers
<1> QED
  BY <1>4 DEF WithInProgress, rec

\* execute() starts an action only if every live launch of the key was started
\* more than one TTL ago: a younger one would have left a record in memory.
LEMMA StartsOnlyWhenFree ==
    ASSUME ProtectionInv, NEW r \in Requests, Unknown(r)
    PROVE  /\ \A q \in Requests :
                KeyOf[q] = KeyOf[r] /\ Live(q) => now - startedAt[q] > TtlMs
           /\ \A q \in Requests : KeyOf[q] = KeyOf[r] => pc[q] # "acting"
<1>1. Covers(Pruned(records))
  BY PrunedCovers DEF ProtectionInv, TypeOK, Unknown, Arrives
<1>2. \A q \in Requests : KeyOf[q] = KeyOf[r] => ~Recent(q)
  BY <1>1 DEF Covers, Unknown
<1>3. \A q \in Requests : now - startedAt[q] \in Int
  BY DEF ProtectionInv, TypeOK
<1>4. \A q \in Requests : KeyOf[q] = KeyOf[r] => pc[q] # "acting"
  BY NoneAssumption DEF ProtectionInv, ActingIsLeader, Unknown
<1> QED
  BY <1>2, <1>3, <1>4, BoundsAssumption DEF Recent

\* A step that starts nothing, ends nothing and frees nothing keeps the
\* invariant, if what it leaves in memory and in the file still protects.
LEMMA QuietStep ==
    ASSUME ProtectionInv, TypeOK', UNCHANGED <<up, now, inFlight, launch, startedAt>>,
           \A r \in Requests : pc'[r] = pc[r] \/ (pc[r] = "new" /\ pc'[r] \in {"waiting", "done"}),
           up => Covers(records)', Covers(disk)'
    PROVE  ProtectionInv'
BY DEF ProtectionInv, ActingIsLeader, UnstartedIsIdle, StartedInThePast,
       LeaderIsNewest, AtMostOneLaunchPerTtl, Live, SameKey

\* The same for the steps after the await, which retire a leader.
LEMMA SettleStep ==
    ASSUME ProtectionInv, TypeOK', NEW r \in Requests, Acting(r),
           NEW own, NEW joined, Settle(r, own, joined),
           \A q \in Requests : launch'[q] = launch[q]
                               \/ (q = r /\ launch'[q] = "rejected"),
           Covers(records)', Covers(disk)'
    PROVE  ProtectionInv'
<1> USE DEF ProtectionInv
<1>1. \A q \in Requests :
        /\ pc'[q] = pc[q] \/ pc'[q] = "done"
        /\ Live(q)' => Live(q)
        /\ Live(q) /\ q # r => Live(q)'
  BY DEF Settle, Live
<1>2. /\ pc'[r] = "done"
      /\ inFlight' = [inFlight EXCEPT ![KeyOf[r]] = None]
      /\ UNCHANGED <<up, now, startedAt>>
  BY DEF Settle, TypeOK
<1>3. ActingIsLeader'
  <2> SUFFICES ASSUME NEW q \in Requests, pc'[q] = "acting"
               PROVE  up' /\ Live(q)' /\ inFlight'[KeyOf[q]] = q
    BY DEF ActingIsLeader
  <2>1. q # r /\ pc[q] = "acting" /\ pc[r] = "acting"
    BY <1>1, <1>2 DEF Acting
  <2>2. KeyOf[q] # KeyOf[r]
    BY <2>1 DEF ActingIsLeader
  <2> QED
    BY <1>1, <1>2, <2>1, <2>2, RequestsAssumption DEF ActingIsLeader, TypeOK
<1>4. UnstartedIsIdle'
  <2> SUFFICES ASSUME NEW q \in Requests, pc'[q] \in {"new", "waiting"}
               PROVE  launch'[q] = "none"
    BY DEF UnstartedIsIdle
  <2> QED
    BY <1>1, <1>2 DEF UnstartedIsIdle
<1>5. StartedInThePast' /\ LeaderIsNewest' /\ AtMostOneLaunchPerTtl'
  BY <1>1, <1>2
     DEF StartedInThePast, LeaderIsNewest, AtMostOneLaunchPerTtl, SameKey
<1> QED
  BY <1>3, <1>4, <1>5

\* The record that the settled leader leaves behind protects its key.
LEMMA SettledRecordCovers ==
    ASSUME ProtectionInv, NEW r \in Requests, Acting(r),
           NEW state \in States, UNCHANGED <<now, launch, startedAt>>
    PROVE  Covers(With(r, NewRecord(state, r, r)))
<1> DEFINE rec == NewRecord(state, r, r)
<1>1. TypeOK /\ StartedInThePast /\ Covers(records) /\ KeyOf[r] \in Keys
  BY RequestsAssumption DEF ProtectionInv, Acting
<1>2. records \in [Keys -> Record \cup {None}]
  BY <1>1 DEF TypeOK
<1>3. rec \in Record /\ rec # None /\ rec.createdAtMs = now
  BY <1>1, NewRecordType
<1> HIDE DEF rec
<1>4. Covers([records EXCEPT ![KeyOf[r]] = rec])
  BY <1>1, <1>2, <1>3, StampCovers
<1> QED
  BY <1>4 DEF With, rec

\* A rejected leader may take its record with it: every other launch of the key
\* is older than the TTL.
LEMMA ClearedKeyCovers ==
    ASSUME ProtectionInv, NEW r \in Requests, Acting(r),
           UNCHANGED <<now, startedAt>>,
           launch' = [launch EXCEPT ![r] = "rejected"],
           records' = With(r, None)
    PROVE  Covers(records)'
<1> USE DEF ProtectionInv
<1> SUFFICES ASSUME NEW q \in Requests, Recent(q)'
             PROVE  /\ records'[KeyOf[q]] # None
                    /\ records'[KeyOf[q]].createdAtMs >= startedAt'[q]
  BY DEF Covers
<1>1. q # r /\ Recent(q)
  BY DEF Recent, Live, TypeOK
<1>2. KeyOf[q] # KeyOf[r]
  <2> SUFFICES ASSUME KeyOf[q] = KeyOf[r] PROVE FALSE
    OBVIOUS
  <2>1. startedAt[r] - startedAt[q] > TtlMs
    BY <1>1 DEF LeaderIsNewest, SameKey, Acting, Recent
  <2>2. startedAt[r] <= now /\ now - startedAt[q] <= TtlMs
    BY <1>1 DEF StartedInThePast, Recent
  <2> QED
    BY <2>1, <2>2, BoundsAssumption DEF TypeOK
<1>3. records'[KeyOf[q]] = records[KeyOf[q]]
  BY <1>2, RequestsAssumption DEF With, TypeOK
<1> QED
  BY <1>1, <1>3 DEF Covers, Acting

LEMMA ProtectionInit == Init => ProtectionInv
BY BoundsAssumption, RequestsAssumption
   DEF Init, ProtectionInv, TypeOK, ActingIsLeader, UnstartedIsIdle,
       StartedInThePast, Covers, Recent, Live, LeaderIsNewest,
       AtMostOneLaunchPerTtl

LEMMA ProtectionStep == ProtectionInv /\ [Next]_vars => ProtectionInv'
<1> SUFFICES ASSUME ProtectionInv, [Next]_vars PROVE ProtectionInv'
  OBVIOUS
<1> USE BoundsAssumption, RequestsAssumption
<1>T. TypeOK /\ TypeOK'
  BY StepType DEF ProtectionInv
<1>C. Covers(disk) /\ (up => Covers(records) /\ Covers(DiskAfterPrune)
                              /\ Covers(Pruned(records)))
  BY <1>T, DiskPruneCovers, PrunedCovers DEF ProtectionInv, TypeOK
<1>1. ASSUME NEW r \in Requests, PruneThrows(r) PROVE ProtectionInv'
  <2>1. Covers(records)' /\ Covers(disk)'
    BY <1>1, <1>C DEF PruneThrows, PersistThrows, Arrives, Covers, Recent, Live
  <2> QED
    BY <1>1, <1>T, <2>1, QuietStep DEF PruneThrows, Arrives, Finish, TypeOK
<1>2. ASSUME NEW r \in Requests, Join(r) PROVE ProtectionInv'
  <2>1. Covers(records)' /\ Covers(disk)'
    BY <1>2, <1>C DEF Join, PersistOk, Arrives, Covers, Recent, Live
  <2> QED
    BY <1>2, <1>T, <2>1, QuietStep DEF Join, Arrives, Finish, TypeOK
<1>3. ASSUME NEW r \in Requests, FromRecord(r) PROVE ProtectionInv'
  <2>1. Covers(records)' /\ Covers(disk)'
    BY <1>3, <1>C DEF FromRecord, PersistOk, Arrives, Covers, Recent, Live
  <2> QED
    BY <1>3, <1>T, <2>1, QuietStep DEF FromRecord, Arrives, Finish, TypeOK
<1>4. ASSUME NEW r \in Requests, Start(r) PROVE ProtectionInv'
  <2>1. Unknown(r) /\ Arrives(r) /\ pc[r] = "new"
    BY <1>4 DEF Start, Unknown, Arrives
  <2>2. /\ \A q \in Requests :
             KeyOf[q] = KeyOf[r] /\ Live(q) => now - startedAt[q] > TtlMs
        /\ \A q \in Requests : KeyOf[q] = KeyOf[r] => pc[q] # "acting"
    BY <2>1, StartsOnlyWhenFree
  <2>3. /\ \A q \in Requests \ {r} :
             /\ Live(q)' <=> Live(q)
             /\ startedAt'[q] = startedAt[q]
             /\ pc'[q] = pc[q]
        /\ Live(r)' /\ startedAt'[r] = now /\ pc'[r] = "acting"
        /\ UNCHANGED <<up, now>> /\ up
    BY <1>4, <1>T, <2>1 DEF Start, Arrives, Live, TypeOK
  <2>4. WithInProgress(r)[KeyOf[r]].createdAtMs = now
        /\ WithInProgress(r)[KeyOf[r]] # None
    BY <1>T, NewRecordType, PrunedType DEF WithInProgress, States, TypeOK
  <2>5. Covers(WithInProgress(r))
    BY <1>T, <1>C, <2>3, InProgressCovers DEF ProtectionInv
  <2>6. Covers(records)' /\ Covers(disk)'
    BY <1>4, <1>T, <2>3, <2>4, <2>5
       DEF Start, PersistOk, Covers, Recent, TypeOK
  <2>7. ActingIsLeader'
    BY <1>4, <1>T, <2>2, <2>3 DEF Start, ActingIsLeader, ProtectionInv, TypeOK
  <2>8. UnstartedIsIdle'
    BY <1>4, <1>T, <2>3 DEF Start, UnstartedIsIdle, ProtectionInv, TypeOK
  <2>9. StartedInThePast'
    BY <1>T, <2>3 DEF StartedInThePast, ProtectionInv, TypeOK
  <2>10. LeaderIsNewest' /\ AtMostOneLaunchPerTtl'
    BY <1>T, <2>2, <2>3
       DEF LeaderIsNewest, AtMostOneLaunchPerTtl, SameKey, ProtectionInv, TypeOK
  <2> QED
    BY <1>T, <2>6, <2>7, <2>8, <2>9, <2>10 DEF ProtectionInv
<1>5. ASSUME NEW r \in Requests, StartThrows(r) PROVE ProtectionInv'
  <2>1. Covers(WithInProgress(r)) /\ Covers(DiskAfterPrune)
    BY <1>5, <1>T, <1>C, InProgressCovers
       DEF StartThrows, Unknown, Arrives, ProtectionInv
  <2>2. Covers(records)' /\ Covers(disk)'
    BY <1>5, <2>1 DEF StartThrows, PersistThrows, Covers, Recent, Live
  <2> QED
    BY <1>5, <1>T, <2>2, QuietStep
       DEF StartThrows, Unknown, Arrives, Finish, TypeOK
<1>6. ASSUME NEW r \in Requests, Land(r) PROVE ProtectionInv'
  <2>1. /\ \A q \in Requests : Live(q)' <=> Live(q)
        /\ \A q \in Requests : launch[q] = "none" => launch'[q] = "none"
        /\ UNCHANGED <<up, now, records, disk, inFlight, pc, startedAt>>
    BY <1>6, <1>T DEF Land, Live, TypeOK
  <2> QED
    BY <1>T, <2>1
       DEF ProtectionInv, ActingIsLeader, UnstartedIsIdle, StartedInThePast,
           Covers, Recent, LeaderIsNewest, AtMostOneLaunchPerTtl, SameKey
<1>7. ASSUME NEW r \in Requests, Complete(r) PROVE ProtectionInv'
  <2>1. UNCHANGED <<now, launch, startedAt>> /\ Acting(r)
    BY <1>7 DEF Complete, Settle
  <2>2. Covers(records)' /\ Covers(disk)'
    BY <1>7, <2>1, SettledRecordCovers
       DEF Complete, PersistOk, States, Covers, Recent, Live
  <2> QED
    BY <1>7, <1>T, <2>1, <2>2, SettleStep DEF Complete
<1>8. ASSUME NEW r \in Requests, CompleteThrows(r) PROVE ProtectionInv'
  <2>1. UNCHANGED <<now, launch, startedAt>> /\ Acting(r)
    BY <1>8 DEF CompleteThrows, Settle
  <2>2. Covers(records)' /\ Covers(disk)'
    BY <1>8, <1>C, <2>1, SettledRecordCovers
       DEF CompleteThrows, States, Covers, Recent, Live
  <2> QED
    BY <1>8, <1>T, <2>1, <2>2, SettleStep DEF CompleteThrows
<1>9. ASSUME NEW r \in Requests, Doubt(r) PROVE ProtectionInv'
  <2>1. UNCHANGED <<now, launch, startedAt>> /\ Acting(r)
    BY <1>9 DEF Doubt, Settle
  <2>2. Covers(records)' /\ Covers(disk)'
    BY <1>9, <1>C, <2>1, SettledRecordCovers
       DEF Doubt, PersistOk, PersistThrows, States, Covers, Recent, Live
  <2> QED
    BY <1>9, <1>T, <2>1, <2>2, SettleStep DEF Doubt
<1>10. ASSUME NEW r \in Requests, Reject(r) PROVE ProtectionInv'
  <2>1. /\ UNCHANGED <<now, startedAt>> /\ Acting(r)
        /\ launch' = [launch EXCEPT ![r] = "rejected"]
        /\ records' = With(r, None)
    BY <1>10 DEF Reject, Settle
  <2>2. Covers(records)'
    BY <2>1, ClearedKeyCovers
  <2>3. \A q \in Requests : Recent(q)' => Recent(q)
    BY <1>T, <2>1 DEF Recent, Live, TypeOK
  <2>4. Covers(disk)'
    BY <1>10, <1>C, <2>1, <2>2, <2>3
       DEF Reject, PersistOk, PersistThrows, Covers
  <2>5. \A q \in Requests :
          launch'[q] = launch[q] \/ (q = r /\ launch'[q] = "rejected")
    BY <1>T, <2>1 DEF TypeOK
  <2> QED
    BY <1>10, <1>T, <2>1, <2>2, <2>4, <2>5, SettleStep DEF Reject
<1>11. CASE Tick
  <2>1. /\ UNCHANGED <<up, records, disk, inFlight, pc, launch, startedAt>>
        /\ now' = now + 1
    BY <1>11 DEF Tick
  <2>2. \A r \in Requests : Live(r)' <=> Live(r)
    BY <2>1 DEF Live
  <2>3. \A r \in Requests : Recent(r)' => Recent(r)
    BY <1>T, <2>1, <2>2 DEF Recent, TypeOK
  <2>4. (up => Covers(records)') /\ Covers(disk)' /\ StartedInThePast'
    BY <1>T, <1>C, <2>1, <2>3 DEF Covers, StartedInThePast, ProtectionInv, TypeOK
  <2> QED
    BY <1>T, <2>1, <2>2, <2>4
       DEF ProtectionInv, ActingIsLeader, UnstartedIsIdle, LeaderIsNewest,
           AtMostOneLaunchPerTtl, SameKey
<1>12. CASE Crash
  <2>1. /\ UNCHANGED <<now, disk, launch, startedAt>>
        /\ \A r \in Requests :
             /\ pc'[r] # "acting"
             /\ pc'[r] = "new" => pc[r] = "new"
             /\ pc'[r] # "waiting"
    BY <1>12, <1>T DEF Crash, TypeOK
  <2>2. ~up'
    BY <1>12 DEF Crash
  <2>3. Covers(disk)'
    BY <1>C, <2>1 DEF Covers, Recent, Live
  <2>4. ActingIsLeader' /\ LeaderIsNewest'
    BY <2>1 DEF ActingIsLeader, LeaderIsNewest
  <2>5. UnstartedIsIdle'
    BY <2>1 DEF ProtectionInv, UnstartedIsIdle
  <2>6. StartedInThePast' /\ AtMostOneLaunchPerTtl'
    BY <2>1
       DEF ProtectionInv, StartedInThePast, AtMostOneLaunchPerTtl, SameKey, Live
  <2> QED
    BY <1>T, <2>2, <2>3, <2>4, <2>5, <2>6 DEF ProtectionInv
<1>13. CASE Restart
  <2>1. /\ UNCHANGED <<now, inFlight, pc, launch, startedAt>> /\ ~up
        /\ records' = Pruned(disk) /\ disk' = Pruned(disk)
    BY <1>13 DEF Restart
  <2>2. Covers(records)' /\ Covers(disk)'
    BY <1>T, <1>C, <2>1, PrunedCovers DEF Covers, Recent, Live, TypeOK
  <2>3. \A r \in Requests : pc'[r] # "acting"
    BY <2>1 DEF ProtectionInv, ActingIsLeader
  <2> QED
    BY <1>T, <2>1, <2>2, <2>3
       DEF ProtectionInv, ActingIsLeader, UnstartedIsIdle, StartedInThePast,
           LeaderIsNewest, AtMostOneLaunchPerTtl, SameKey, Live
<1>14. CASE UNCHANGED vars
  BY <1>14, <1>T, <1>C
     DEF vars, ProtectionInv, ActingIsLeader, UnstartedIsIdle, StartedInThePast,
         Covers, Recent, LeaderIsNewest, AtMostOneLaunchPerTtl, SameKey, Live
<1> QED
  BY <1>1, <1>2, <1>3, <1>4, <1>5, <1>6, <1>7, <1>8, <1>9, <1>10, <1>11,
     <1>12, <1>13, <1>14 DEF Next, Execute, SettleAny

LEMMA Protection == Spec => []ProtectionInv
BY ProtectionInit, ProtectionStep, PTL DEF Spec

\* Whatever the interleaving of retries, failed writes, crashes, restarts and
\* late transactions, two launches under one key start more than one TTL apart.
THEOREM NoSecondLaunch == Spec => []AtMostOneLaunchPerTtl
<1>1. ProtectionInv => AtMostOneLaunchPerTtl
  BY DEF ProtectionInv
<1> QED
  BY <1>1, Protection, PTL

\* No crash, at any point, makes the store forget a launch within its TTL.
THEOREM LaunchesRemembered == Spec => []LaunchRememberedOnDisk
<1>1. ProtectionInv => LaunchRememberedOnDisk
  BY DEF ProtectionInv, Covers, Recent, LaunchRememberedOnDisk
<1> QED
  BY <1>1, Protection, PTL


-----------------------------------------------------------------------------
(* What makes the answers honest.  A record names only launches that took   *)
(* effect, or may have, and whose action is over: nothing can reject them   *)
(* any more.  Whoever joined a request has its payload.                     *)

Seen(q) == Contract!Seen(q)

\* The launch l can no longer be rejected and was asked for as r was.
Settled(l) == Live(l) /\ pc[l] # "acting"

HonestRecord(k, rec) ==
    /\ \E q \in Requests :
         KeyOf[q] = k /\ HashOf[q] = rec.payloadHash /\ Seen(q)
    /\ rec.launch # None =>
         /\ Settled(rec.launch)
         /\ KeyOf[rec.launch] = k /\ HashOf[rec.launch] = rec.payloadHash
    /\ rec.state = "completed" =>
         rec.launch # None /\ launch[rec.launch] = "landed"

Honest(map) == \A k \in Keys : map[k] # None => HonestRecord(k, map[k])

HonestAnswer(r, a) ==
    /\ a.kind \in {"ok", "replayed"} =>
         a.launch # None /\ launch[a.launch] = "landed"
    /\ a.launch # None =>
         /\ Settled(a.launch)
         /\ KeyOf[a.launch] = KeyOf[r] /\ HashOf[a.launch] = HashOf[r]

HonestAnswers ==
    \A r \in Requests : answer[r] # None => HonestAnswer(r, answer[r])

InFlightActs ==
    \A k \in Keys :
        inFlight[k] # None => pc[inFlight[k]] = "acting" /\ KeyOf[inFlight[k]] = k

WaitersAlike ==
    \A q \in Requests :
        pc[q] = "waiting" =>
            inFlight[KeyOf[q]] # None /\ HashOf[inFlight[KeyOf[q]]] = HashOf[q]

AnsweredWhenDone == \A r \in Requests : pc[r] # "done" => answer[r] = None

ContractInv ==
    /\ ProtectionInv
    /\ Honest(records)
    /\ Honest(disk)
    /\ HonestAnswers
    /\ InFlightActs
    /\ WaitersAlike
    /\ AnsweredWhenDone

\* The store has only dealt with requests that execute() was called with.
LEMMA SeenIsAsked ==
    ASSUME ContractInv, NEW q \in Requests, Seen(q)
    PROVE  q \in asked
BY DEF asked, Seen, Contract!Seen, ContractInv, AnsweredWhenDone, ProtectionInv,
       UnstartedIsIdle

-----------------------------------------------------------------------------
(* What was honest stays honest *)

\* What no step takes back.
Kept ==
    \A q \in Requests :
        /\ Settled(q) => Settled(q)'
        /\ launch[q] = "landed" => launch'[q] = "landed"
        /\ Seen(q) => Seen(q)'

LEMMA RecordStays ==
    ASSUME Kept, NEW k \in Keys, NEW rec \in Record, HonestRecord(k, rec)
    PROVE  HonestRecord(k, rec)'
<1>1. PICK q \in Requests :
        KeyOf[q] = k /\ HashOf[q] = rec.payloadHash /\ Seen(q)
  BY DEF HonestRecord
<1>2. Seen(q)'
  BY <1>1 DEF Kept
<1>3. rec.launch \in Requests \cup {None}
  BY DEF Record
<1>4. rec.launch # None => Settled(rec.launch)'
  BY <1>3 DEF HonestRecord, Kept
<1>5. rec.state = "completed" => rec.launch # None /\ launch'[rec.launch] = "landed"
  BY <1>3 DEF HonestRecord, Kept
<1> QED
  BY <1>1, <1>2, <1>4, <1>5 DEF HonestRecord

LEMMA AnswerStays ==
    ASSUME Kept, NEW r \in Requests, NEW a \in Answer, HonestAnswer(r, a)
    PROVE  HonestAnswer(r, a)'
<1>1. a.launch \in Requests \cup {None}
  BY DEF Answer
<1> QED
  BY <1>1 DEF HonestAnswer, Kept

\* A map whose entries are old ones, or honest new ones, is honest.
LEMMA MapsStay ==
    ASSUME TypeOK, Kept, Honest(records), Honest(disk),
           NEW map \in [Keys -> Record \cup {None}],
           \A k \in Keys : \A rec \in Record :
               map[k] = rec =>
                   rec = records[k] \/ rec = disk[k] \/ HonestRecord(k, rec)'
    PROVE  \A k \in Keys : \A rec \in Record : map[k] = rec => HonestRecord(k, rec)'
<1> SUFFICES ASSUME NEW k \in Keys, NEW rec \in Record, map[k] = rec
             PROVE  HonestRecord(k, rec)'
  OBVIOUS
<1>1. rec # None
  BY NoneAssumption
<1>2. CASE HonestRecord(k, rec)'
  BY <1>2
<1>3. CASE rec = records[k] \/ rec = disk[k]
  <2>1. HonestRecord(k, rec)
    BY <1>1, <1>3 DEF Honest
  <2> QED
    BY <2>1, RecordStays
<1> QED
  BY <1>2, <1>3

\* The honesty of both maps and of the answers after a step, from what the step
\* has written.
LEMMA HonestyStays ==
    ASSUME ContractInv, TypeOK', Kept,
           \A k \in Keys : \A rec \in Record :
               records'[k] = rec \/ disk'[k] = rec =>
                   rec = records[k] \/ rec = disk[k] \/ HonestRecord(k, rec)',
           \A r \in Requests : \A a \in Answer :
               answer'[r] = a => a = answer[r] \/ HonestAnswer(r, a)'
    PROVE  Honest(records)' /\ Honest(disk)' /\ HonestAnswers'
<1>T. TypeOK
  BY DEF ContractInv, ProtectionInv
<1>1. \A k \in Keys : \A rec \in Record : records'[k] = rec => HonestRecord(k, rec)'
  <2>1. records' \in [Keys -> Record \cup {None}]
    BY DEF TypeOK
  <2> QED
    BY <1>T, <2>1, MapsStay DEF ContractInv
<1>2. \A k \in Keys : \A rec \in Record : disk'[k] = rec => HonestRecord(k, rec)'
  <2>1. disk' \in [Keys -> Record \cup {None}]
    BY DEF TypeOK
  <2> QED
    BY <1>T, <2>1, MapsStay DEF ContractInv
<1>3. \A r \in Requests : \A a \in Answer : answer'[r] = a => HonestAnswer(r, a)'
  <2> SUFFICES ASSUME NEW r \in Requests, NEW a \in Answer, answer'[r] = a,
                      a = answer[r]
               PROVE  HonestAnswer(r, a)'
    OBVIOUS
  <2>1. HonestAnswer(r, a)
    BY NoneAssumption DEF ContractInv, HonestAnswers
  <2> QED
    BY <2>1, AnswerStays
<1>4. Honest(records)'
  <2> SUFFICES ASSUME NEW k \in Keys, records'[k] # None
               PROVE  HonestRecord(k, records[k])'
    BY DEF Honest
  <2>1. PICK rec \in Record : records'[k] = rec
    BY DEF TypeOK
  <2>2. HonestRecord(k, rec)'
    BY <1>1, <2>1
  <2> QED
    BY <2>1, <2>2 DEF HonestRecord
<1>5. Honest(disk)'
  <2> SUFFICES ASSUME NEW k \in Keys, disk'[k] # None
               PROVE  HonestRecord(k, disk[k])'
    BY DEF Honest
  <2>1. PICK rec \in Record : disk'[k] = rec
    BY DEF TypeOK
  <2>2. HonestRecord(k, rec)'
    BY <1>2, <2>1
  <2> QED
    BY <2>1, <2>2 DEF HonestRecord
<1>6. HonestAnswers'
  <2> SUFFICES ASSUME NEW r \in Requests, answer'[r] # None
               PROVE  HonestAnswer(r, answer[r])'
    BY DEF HonestAnswers
  <2>1. PICK a \in Answer : answer'[r] = a
    BY DEF TypeOK
  <2>2. HonestAnswer(r, a)'
    BY <1>3, <2>1
  <2> QED
    BY <2>1, <2>2 DEF HonestAnswer
<1> QED
  BY <1>4, <1>5, <1>6

-----------------------------------------------------------------------------
(* execute(), up to its await *)

\* pruneExpired() only drops records.
LEMMA PruneWritesNothing ==
    ASSUME TypeOK, NEW k \in Keys, NEW rec \in Record
    PROVE  /\ Pruned(records)[k] = rec => rec = records[k]
           /\ DiskAfterPrune[k] = rec => rec = records[k] \/ rec = disk[k]
           /\ Pruned(disk)[k] = rec => rec = disk[k]
<1>1. rec # None
  BY NoneAssumption
<1> QED
  BY <1>1 DEF Pruned, DiskAfterPrune, TypeOK

\* A request that is answered on arrival.
LEMMA AnsweredOnArrival ==
    ASSUME ContractInv, ProtectionInv', NEW r \in Requests, pc[r] = "new",
           UNCHANGED <<now, inFlight, launch, startedAt>>,
           NEW a \in Answer, Finish(r, a),
           \A k \in Keys : \A rec \in Record :
               records'[k] = rec \/ disk'[k] = rec =>
                   rec = records[k] \/ rec = disk[k] \/ HonestRecord(k, rec)',
           HonestAnswer(r, a)', Contract!Allowed(r, a)
    PROVE  ContractInv' /\ Contract!Next
<1>T. TypeOK /\ TypeOK'
  BY DEF ContractInv, ProtectionInv
<1>1. /\ answer' = [answer EXCEPT ![r] = a] /\ pc' = [pc EXCEPT ![r] = "done"]
      /\ answer[r] = None /\ launch[r] = "none" /\ a # None
  BY <1>T, NoneAssumption
     DEF Finish, ContractInv, AnsweredWhenDone, ProtectionInv, UnstartedIsIdle
<1>2. Kept
  <2> SUFFICES ASSUME NEW q \in Requests
               PROVE  /\ Settled(q) => Settled(q)'
                      /\ launch[q] = "landed" => launch'[q] = "landed"
                      /\ Seen(q) => Seen(q)'
    BY DEF Kept
  <2>1. Settled(q) => Settled(q)'
    BY <1>T, <1>1 DEF Settled, Live, TypeOK
  <2>2. Seen(q) => Seen(q)'
    BY <1>T, <1>1 DEF Seen, Contract!Seen, TypeOK
  <2> QED
    BY <2>1, <2>2
<1>3. \A q \in Requests : \A b \in Answer :
        answer'[q] = b => b = answer[q] \/ HonestAnswer(q, b)'
  BY <1>T, <1>1 DEF TypeOK
<1>4. Honest(records)' /\ Honest(disk)' /\ HonestAnswers'
  BY <1>T, <1>2, <1>3, HonestyStays
<1>5. InFlightActs' /\ WaitersAlike' /\ AnsweredWhenDone'
  BY <1>T, <1>1
     DEF TypeOK, ContractInv, InFlightActs, WaitersAlike, AnsweredWhenDone
<1>6. Contract!Arrive /\ r \in asked'
  BY <1>T, <1>1 DEF TypeOK, asked, Contract!Arrive
<1>7. Contract!Answers
  BY <1>T, <1>1, <1>6 DEF TypeOK, Contract!Answers
<1> QED
  BY <1>4, <1>5, <1>6, <1>7 DEF ContractInv, Contract!Next, Contract!Respond

LEMMA PruneThrowsStep ==
    ASSUME ContractInv, ProtectionInv', NEW r \in Requests, PruneThrows(r)
    PROVE  ContractInv' /\ Contract!Next
<1> DEFINE a == Reply("store_error", None)
<1>T. TypeOK
  BY DEF ContractInv, ProtectionInv
<1>1. a \in Answer /\ HonestAnswer(r, a)' /\ Contract!Allowed(r, a)
  BY ReplyType DEF AnswerKinds, Reply, HonestAnswer, Contract!Allowed
<1>2. /\ pc[r] = "new" /\ UNCHANGED <<now, inFlight, launch, startedAt>>
      /\ Finish(r, a) /\ records' = Pruned(records) /\ disk' = disk
  BY DEF PruneThrows, Arrives, launchVars, PersistThrows
<1>3. \A k \in Keys : \A rec \in Record :
        records'[k] = rec \/ disk'[k] = rec => rec = records[k] \/ rec = disk[k]
  BY <1>T, <1>2, PruneWritesNothing
<1> HIDE DEF a
<1> QED
  BY <1>1, <1>2, <1>3, AnsweredOnArrival

LEMMA FromRecordStep ==
    ASSUME ContractInv, ProtectionInv', NEW r \in Requests, FromRecord(r)
    PROVE  ContractInv' /\ Contract!Next
<1>T. TypeOK
  BY DEF ContractInv, ProtectionInv
<1>R. PICK rec \in Record : Pruned(records)[KeyOf[r]] = rec
  BY <1>T, PrunedType, RequestsAssumption DEF FromRecord, TypeOK
<1>1. KeyOf[r] \in Keys /\ rec = records[KeyOf[r]] /\ rec # None
  BY <1>R, <1>T, PruneWritesNothing, RequestsAssumption, NoneAssumption
<1>2. HonestRecord(KeyOf[r], rec)
  BY <1>1 DEF ContractInv, Honest
<1>3. rec.launch \in Requests \cup {None} /\ rec.state \in States
  BY DEF Record
<1>4. PICK a \in Answer : a = StoredAnswer(rec, HashOf[r])
  BY <1>3, ReplyType DEF StoredAnswer, AnswerKinds
<1>5. /\ pc[r] = "new" /\ UNCHANGED <<now, inFlight, launch, startedAt>>
      /\ Finish(r, a) /\ records' = Pruned(records) /\ disk' = DiskAfterPrune
  BY <1>R, <1>4 DEF FromRecord, Arrives, launchVars, PersistOk
<1>6. rec.launch # None => pc'[rec.launch] = pc[rec.launch]
  <2>1. rec.launch # None => rec.launch # r
    BY <1>2, <1>5 DEF HonestRecord, Settled, Live, ContractInv, ProtectionInv, UnstartedIsIdle
  <2> QED
    BY <1>T, <1>5, <1>3, <2>1 DEF Finish, TypeOK
<1>7. HonestAnswer(r, a)'
  <2>1. /\ a.launch # None => rec.payloadHash = HashOf[r] /\ a.launch = rec.launch
        /\ a.kind \in {"ok", "replayed"} => a.launch = rec.launch /\ rec.state = "completed"
    BY <1>4 DEF StoredAnswer, Reply
  <2> QED
    BY <1>2, <1>5, <1>6, <2>1 DEF HonestRecord, HonestAnswer, Settled, Live
<1>8. Contract!Allowed(r, a)
  <2>1. PICK q \in Requests :
          KeyOf[q] = KeyOf[r] /\ HashOf[q] = rec.payloadHash /\ Contract!Seen(q)
    BY <1>2 DEF HonestRecord, Seen
  <2>2. CASE rec.payloadHash # HashOf[r]
    BY <1>4, <2>1, <2>2, SeenIsAsked DEF StoredAnswer, Reply, Seen, Contract!Allowed
  <2>3. CASE rec.payloadHash = HashOf[r] /\ rec.state = "completed"
    <3>1. a = Reply("replayed", rec.launch)
      BY <1>4, <2>3 DEF StoredAnswer
    <3>2. /\ rec.launch \in Requests /\ rec.launch # r /\ launch'[rec.launch] = "landed"
          /\ Contract!Alike(rec.launch, r)
      BY <1>2, <1>5, <1>3, <2>3
         DEF HonestRecord, Contract!Alike, ContractInv, ProtectionInv, UnstartedIsIdle
    <3> QED
      BY <3>1, <3>2 DEF Reply, Contract!Allowed
  <2>4. CASE rec.payloadHash = HashOf[r] /\ rec.state # "completed" /\ rec.launch = None
    BY <1>4, <2>1, <2>4 DEF StoredAnswer, Reply, Contract!Allowed, Contract!Alike
  <2>5. CASE rec.payloadHash = HashOf[r] /\ rec.state # "completed" /\ rec.launch # None
    <3>1. a = Reply("in_doubt", rec.launch)
      BY <1>4, <2>5 DEF StoredAnswer
    <3>2. rec.launch \in Requests /\ Contract!Live(rec.launch)' /\ Contract!Alike(rec.launch, r)
      BY <1>2, <1>3, <1>5, <2>5
         DEF HonestRecord, Settled, Live, Contract!Live, Contract!Alike
    <3> QED
      BY <3>1, <3>2 DEF Reply, Contract!Allowed
  <2> QED
    BY <2>2, <2>3, <2>4, <2>5
<1>9. \A k \in Keys : \A s \in Record :
        records'[k] = s \/ disk'[k] = s => s = records[k] \/ s = disk[k]
  BY <1>T, <1>5, PruneWritesNothing
<1> QED
  BY <1>5, <1>4, <1>7, <1>8, <1>9, AnsweredOnArrival

\* The map with the in_progress record of r is honest once r has been seen.
LEMMA InProgressHonest ==
    ASSUME TypeOK, NEW r \in Requests, Seen(r)',
           NEW k \in Keys, NEW rec \in Record, WithInProgress(r)[k] = rec
    PROVE  rec = records[k] \/ HonestRecord(k, rec)'
<1>1. CASE k = KeyOf[r]
  <2>1. Pruned(records) \in [Keys -> Record \cup {None}]
    BY PrunedType DEF TypeOK
  <2>2. rec = NewRecord("in_progress", r, None)
    BY <1>1, <2>1, RequestsAssumption DEF WithInProgress
  <2>3. rec.launch = None /\ rec.state = "in_progress" /\ rec.payloadHash = HashOf[r]
    BY <2>2 DEF NewRecord
  <2> QED
    BY <1>1, <2>3 DEF HonestRecord
<1>2. CASE k # KeyOf[r]
  <2>1. Pruned(records)[k] = rec
    BY <1>2, RequestsAssumption DEF WithInProgress, Pruned
  <2> QED
    BY <2>1, PruneWritesNothing
<1> QED
  BY <1>1, <1>2

LEMMA StartThrowsStep ==
    ASSUME ContractInv, ProtectionInv', NEW r \in Requests, StartThrows(r)
    PROVE  ContractInv' /\ Contract!Next
<1> DEFINE a == Reply("store_error", None)
<1>T. TypeOK
  BY DEF ContractInv, ProtectionInv
<1>1. a \in Answer /\ HonestAnswer(r, a)' /\ Contract!Allowed(r, a) /\ a # None
  BY ReplyType, NoneAssumption
     DEF AnswerKinds, Reply, HonestAnswer, Contract!Allowed
<1>2. /\ pc[r] = "new" /\ UNCHANGED <<now, inFlight, launch, startedAt>>
      /\ Finish(r, a) /\ records' = WithInProgress(r) /\ disk' = DiskAfterPrune
  BY DEF StartThrows, Unknown, Arrives, launchVars, PersistThrows
<1> HIDE DEF a
<1>3. Seen(r)'
  BY <1>T, <1>1, <1>2 DEF Finish, Seen, Contract!Seen, TypeOK
<1>4. \A k \in Keys : \A rec \in Record :
        records'[k] = rec \/ disk'[k] = rec =>
            rec = records[k] \/ rec = disk[k] \/ HonestRecord(k, rec)'
  BY <1>T, <1>2, <1>3, PruneWritesNothing, InProgressHonest
<1> QED
  BY <1>1, <1>2, <1>4, AnsweredOnArrival

LEMMA JoinStep ==
    ASSUME ContractInv, ProtectionInv', NEW r \in Requests, Join(r)
    PROVE  ContractInv' /\ Contract!Next
<1>T. TypeOK /\ TypeOK'
  BY DEF ContractInv, ProtectionInv
<1>1. PICK leader \in Requests : leader = inFlight[KeyOf[r]]
  BY <1>T, RequestsAssumption DEF Join, TypeOK
<1>2. /\ pc[leader] = "acting" /\ KeyOf[leader] = KeyOf[r] /\ leader # None
      /\ launch[leader] # "none"
  BY <1>1, RequestsAssumption
     DEF Join, ContractInv, InFlightActs, ProtectionInv, ActingIsLeader, Live
<1>3. /\ pc[r] = "new" /\ UNCHANGED <<now, inFlight, launch, startedAt>>
      /\ records' = Pruned(records) /\ disk' = DiskAfterPrune
  BY DEF Join, Arrives, launchVars, PersistOk
<1>4. \A k \in Keys : \A rec \in Record :
        records'[k] = rec \/ disk'[k] = rec => rec = records[k] \/ rec = disk[k]
  BY <1>T, <1>3, PruneWritesNothing
<1>5. CASE HashOf[leader] # HashOf[r] /\ Finish(r, Reply("mismatch", None))
  <2> DEFINE a == Reply("mismatch", None)
  <2>1. a \in Answer /\ HonestAnswer(r, a)'
    BY ReplyType DEF AnswerKinds, Reply, HonestAnswer
  <2>2. Contract!Allowed(r, a)
    BY <1>2, <1>5 DEF Reply, Contract!Allowed, asked
  <2> HIDE DEF a
  <2>3. Finish(r, a)
    BY <1>5 DEF a
  <2> QED
    BY <1>3, <1>4, <2>1, <2>2, <2>3, AnsweredOnArrival
<1>6. CASE /\ HashOf[leader] = HashOf[r]
           /\ pc' = [pc EXCEPT ![r] = "waiting"] /\ UNCHANGED answer
  <2>1. Kept
    <3> SUFFICES ASSUME NEW q \in Requests
                 PROVE  /\ Settled(q) => Settled(q)'
                        /\ launch[q] = "landed" => launch'[q] = "landed"
                        /\ Seen(q) => Seen(q)'
      BY DEF Kept
    <3>1. Settled(q) => Settled(q)'
      BY <1>T, <1>3, <1>6 DEF Settled, Live, TypeOK
    <3> QED
      BY <1>3, <1>6, <3>1 DEF Seen, Contract!Seen
  <2>2. Honest(records)' /\ Honest(disk)' /\ HonestAnswers'
    BY <1>T, <1>4, <1>6, <2>1, HonestyStays
  <2>3. InFlightActs' /\ AnsweredWhenDone'
    BY <1>T, <1>3, <1>6 DEF TypeOK, ContractInv, InFlightActs, AnsweredWhenDone
  <2>4. WaitersAlike'
    BY <1>T, <1>1, <1>2, <1>3, <1>6 DEF TypeOK, ContractInv, WaitersAlike
  <2>5. Contract!Respond
    BY <1>T, <1>3, <1>6
       DEF TypeOK, asked, Contract!Respond, Contract!Arrive, Contract!Answers
  <2> QED
    BY <2>2, <2>3, <2>4, <2>5 DEF ContractInv, Contract!Next
<1> QED
  BY <1>1, <1>5, <1>6 DEF Join

LEMMA StartStep ==
    ASSUME ContractInv, ProtectionInv', NEW r \in Requests, Start(r)
    PROVE  ContractInv' /\ Contract!Next
<1>T. TypeOK /\ TypeOK'
  BY DEF ContractInv, ProtectionInv
<1>1. /\ Unknown(r) /\ pc[r] = "new" /\ inFlight[KeyOf[r]] = None
      /\ UNCHANGED <<now, answer>>
      /\ records' = WithInProgress(r) /\ disk' = WithInProgress(r)
      /\ inFlight' = [inFlight EXCEPT ![KeyOf[r]] = r]
      /\ pc' = [pc EXCEPT ![r] = "acting"]
      /\ launch' = [launch EXCEPT ![r] = "pending"]
      /\ startedAt' = [startedAt EXCEPT ![r] = now]
  BY DEF Start, Unknown, Arrives, PersistOk
<1>2. launch[r] = "none" /\ answer[r] = None
  BY <1>1 DEF ContractInv, AnsweredWhenDone, ProtectionInv, UnstartedIsIdle
<1>3. Kept
  <2> SUFFICES ASSUME NEW q \in Requests
               PROVE  /\ Settled(q) => Settled(q)'
                      /\ launch[q] = "landed" => launch'[q] = "landed"
                      /\ Seen(q) => Seen(q)'
    BY DEF Kept
  <2>1. CASE q = r
    BY <1>T, <1>1, <1>2, <2>1 DEF Settled, Live, Seen, Contract!Seen, TypeOK
  <2>2. CASE q # r
    BY <1>T, <1>1, <2>2 DEF Settled, Live, Seen, Contract!Seen, TypeOK
  <2> QED
    BY <2>1, <2>2
<1>4. Seen(r)'
  BY <1>T, <1>1 DEF Seen, Contract!Seen, TypeOK
<1>5. \A k \in Keys : \A rec \in Record :
        records'[k] = rec \/ disk'[k] = rec =>
            rec = records[k] \/ rec = disk[k] \/ HonestRecord(k, rec)'
  BY <1>T, <1>1, <1>4, InProgressHonest
<1>6. Honest(records)' /\ Honest(disk)' /\ HonestAnswers'
  BY <1>T, <1>1, <1>3, <1>5, HonestyStays
<1>7. InFlightActs'
  BY <1>T, <1>1, RequestsAssumption DEF TypeOK, ContractInv, InFlightActs
<1>8. AnsweredWhenDone'
  BY <1>T, <1>1 DEF TypeOK, ContractInv, AnsweredWhenDone
<1>9. WaitersAlike'
  BY <1>T, <1>1, RequestsAssumption DEF TypeOK, ContractInv, WaitersAlike
<1>10. Contract!Admit(r)
  <2>1. \A q \in Requests :
          KeyOf[q] = KeyOf[r] /\ Contract!Live(q) => now - startedAt[q] > TtlMs
    BY <1>1, StartsOnlyWhenFree DEF ContractInv, Contract!Live, Live
  <2>2. Contract!Arrive /\ r \in asked'
    BY <1>T, <1>1 DEF TypeOK, asked, Contract!Arrive
  <2> QED
    BY <1>1, <1>2, <2>1, <2>2 DEF Contract!Admit, Contract!Seen
<1> QED
  BY <1>6, <1>7, <1>8, <1>9, <1>10 DEF ContractInv, Contract!Next

-----------------------------------------------------------------------------
(* execute(), after its await *)

Waiting(w, r) == pc[w] = "waiting" /\ KeyOf[w] = KeyOf[r]

\* Those that joined r asked for what r did.
LEMMA WaiterIsAlike ==
    ASSUME ContractInv, NEW r \in Requests, Acting(r),
           NEW w \in Requests, Waiting(w, r)
    PROVE  w # r /\ KeyOf[w] = KeyOf[r] /\ HashOf[w] = HashOf[r]
<1>1. inFlight[KeyOf[r]] = r /\ pc[r] = "acting"
  BY DEF Acting, ContractInv, ProtectionInv, ActingIsLeader
<1> QED
  BY <1>1 DEF Waiting, ContractInv, WaitersAlike

\* A leader is answered, and those that joined it.
LEMMA SettleKeeps ==
    ASSUME ContractInv, ProtectionInv', NEW r \in Requests, Acting(r),
           NEW own \in Answer, NEW joined \in Answer, Settle(r, own, joined),
           \A q \in Requests : q # r => launch'[q] = launch[q],
           launch[r] = "landed" => launch'[r] = "landed", launch'[r] # "none",
           \A k \in Keys : \A rec \in Record :
               records'[k] = rec \/ disk'[k] = rec =>
                   rec = records[k] \/ rec = disk[k] \/ HonestRecord(k, rec)',
           HonestAnswer(r, own)',
           \A w \in Requests : Waiting(w, r) => HonestAnswer(w, joined)',
           Contract!Allowed(r, own),
           \A w \in Requests : Waiting(w, r) => Contract!Allowed(w, joined)
    PROVE  ContractInv' /\ Contract!Arrive /\ Contract!Answers
<1>T. TypeOK /\ TypeOK'
  BY DEF ContractInv, ProtectionInv
<1>0. /\ pc[r] = "acting" /\ inFlight[KeyOf[r]] = r
      /\ own # None /\ joined # None
  BY NoneAssumption DEF Acting, ContractInv, ProtectionInv, ActingIsLeader
<1>1. /\ inFlight' = [inFlight EXCEPT ![KeyOf[r]] = None]
      /\ \A q \in Requests :
           /\ pc'[q] = IF q = r \/ Waiting(q, r) THEN "done" ELSE pc[q]
           /\ answer'[q] = IF q = r THEN own
                           ELSE IF Waiting(q, r) THEN joined ELSE answer[q]
  BY <1>T DEF Settle, Retire, Waiters, Waiting, TypeOK
<1>2. Kept
  <2> SUFFICES ASSUME NEW q \in Requests
               PROVE  /\ Settled(q) => Settled(q)'
                      /\ launch[q] = "landed" => launch'[q] = "landed"
                      /\ Seen(q) => Seen(q)'
    BY DEF Kept
  <2>1. CASE q = r
    BY <1>0, <2>1 DEF Settled, Seen, Contract!Seen
  <2>2. CASE q # r
    <3>1. Settled(q) => Settled(q)'
      BY <1>1, <2>2 DEF Settled, Live
    <3>2. Seen(q) => Seen(q)'
      BY <1>0, <1>1, <2>2 DEF Seen, Contract!Seen
    <3> QED
      BY <2>2, <3>1, <3>2
  <2> QED
    BY <2>1, <2>2
<1>3. \A q \in Requests : \A b \in Answer :
        answer'[q] = b => b = answer[q] \/ HonestAnswer(q, b)'
  BY <1>1
<1>4. Honest(records)' /\ Honest(disk)' /\ HonestAnswers'
  BY <1>T, <1>2, <1>3, HonestyStays
<1>5. InFlightActs'
  <2> SUFFICES ASSUME NEW k \in Keys, inFlight'[k] # None
               PROVE  pc'[inFlight'[k]] = "acting" /\ KeyOf[inFlight'[k]] = k
    BY DEF InFlightActs
  <2>1. k # KeyOf[r] /\ inFlight'[k] = inFlight[k] /\ inFlight[k] \in Requests
    BY <1>T, <1>1 DEF TypeOK
  <2>2. pc[inFlight[k]] = "acting" /\ KeyOf[inFlight[k]] = k
    BY <2>1 DEF ContractInv, InFlightActs
  <2> QED
    BY <1>1, <2>1, <2>2 DEF Waiting
<1>6. WaitersAlike'
  <2> SUFFICES ASSUME NEW q \in Requests, pc'[q] = "waiting"
               PROVE  inFlight'[KeyOf[q]] # None
                      /\ HashOf[inFlight'[KeyOf[q]]] = HashOf[q]
    BY DEF WaitersAlike
  <2>1. pc[q] = "waiting" /\ KeyOf[q] # KeyOf[r] /\ KeyOf[q] \in Keys
    BY <1>1, RequestsAssumption DEF Waiting
  <2> QED
    BY <1>T, <1>1, <2>1 DEF TypeOK, ContractInv, WaitersAlike
<1>7. AnsweredWhenDone'
  BY <1>1 DEF ContractInv, AnsweredWhenDone
<1>8. Contract!Arrive /\ Contract!Answers
  BY <1>0, <1>1
     DEF ContractInv, AnsweredWhenDone, Waiting, asked, Contract!Arrive,
         Contract!Answers
<1> QED
  BY <1>4, <1>5, <1>6, <1>7, <1>8 DEF ContractInv

\* The record that a settled leader leaves is honest.
LEMMA LeftRecordHonest ==
    ASSUME TypeOK, NEW r \in Requests, NEW state \in {"completed", "in_doubt"},
           Settled(r)', state = "completed" => launch'[r] = "landed",
           NEW k \in Keys, NEW rec \in Record,
           With(r, NewRecord(state, r, r))[k] = rec
    PROVE  rec = records[k] \/ HonestRecord(k, rec)'
<1>1. CASE k = KeyOf[r]
  <2>1. rec = NewRecord(state, r, r)
    BY <1>1, RequestsAssumption DEF With, TypeOK
  <2>2. rec.launch = r /\ rec.state = state /\ rec.payloadHash = HashOf[r]
    BY <2>1 DEF NewRecord
  <2>3. Seen(r)'
    BY DEF Settled, Live, Seen, Contract!Seen
  <2> QED
    BY <1>1, <2>2, <2>3, NoneAssumption DEF HonestRecord
<1>2. CASE k # KeyOf[r]
  BY <1>2 DEF With, TypeOK
<1> QED
  BY <1>1, <1>2

LEMMA CompleteStep ==
    ASSUME ContractInv, ProtectionInv', NEW r \in Requests, Complete(r)
    PROVE  ContractInv' /\ Contract!Next
<1> DEFINE own == Reply("ok", r)
           joined == Reply("replayed", r)
<1>T. TypeOK
  BY DEF ContractInv, ProtectionInv
<1>1. /\ Acting(r) /\ launch[r] = "landed" /\ UNCHANGED <<now, launch, startedAt>>
      /\ Settle(r, own, joined)
      /\ records' = With(r, NewRecord("completed", r, r)) /\ disk' = records'
  BY DEF Complete, PersistOk, Settle, Retire
<1>2. Settled(r)'
  BY <1>T, <1>1 DEF Settle, Retire, Settled, Live
<1>3. own \in Answer /\ joined \in Answer
  BY ReplyType DEF AnswerKinds
<1>4. HonestAnswer(r, own)' /\ Contract!Allowed(r, own)
  BY <1>1, <1>2, NoneAssumption DEF Reply, HonestAnswer, Contract!Allowed
<1>5. \A w \in Requests :
        Waiting(w, r) => HonestAnswer(w, joined)' /\ Contract!Allowed(w, joined)
  BY <1>1, <1>2, WaiterIsAlike, NoneAssumption
     DEF Reply, HonestAnswer, Contract!Allowed, Contract!Alike
<1>6. \A k \in Keys : \A rec \in Record :
        records'[k] = rec \/ disk'[k] = rec =>
            rec = records[k] \/ rec = disk[k] \/ HonestRecord(k, rec)'
  BY <1>T, <1>1, <1>2, LeftRecordHonest
<1> HIDE DEF own, joined
<1>7. /\ \A q \in Requests : q # r => launch'[q] = launch[q]
      /\ launch[r] = "landed" => launch'[r] = "landed"
      /\ launch'[r] # "none"
  BY <1>1
<1>8. ContractInv' /\ Contract!Arrive /\ Contract!Answers
  BY <1>1, <1>3, <1>4, <1>5, <1>6, <1>7, SettleKeeps
<1> QED
  BY <1>1, <1>8 DEF Contract!Next, Contract!Respond

\* The leader is told it is in doubt, or the error of the store.
LEMMA InDoubtStep ==
    ASSUME ContractInv, ProtectionInv', NEW r \in Requests,
           NEW own \in {Reply("in_doubt", r), Reply("store_error", None)},
           NEW joined \in {Reply("in_doubt", r), Reply("replayed", r)},
           joined = Reply("replayed", r) => launch[r] = "landed",
           Acting(r), Settle(r, own, joined), UNCHANGED launch,
           records' = With(r, NewRecord("in_doubt", r, r)),
           disk' \in {records', disk}
    PROVE  ContractInv' /\ Contract!Next
<1>T. TypeOK
  BY DEF ContractInv, ProtectionInv
<1>1. Live(r) /\ UNCHANGED <<now, startedAt>>
  BY DEF Acting, Settle, Retire, ContractInv, ProtectionInv, ActingIsLeader
<1>2. Settled(r)'
  BY <1>T, <1>1 DEF Settle, Retire, Settled, Live
<1>3. own \in Answer /\ joined \in Answer
  BY ReplyType DEF AnswerKinds
<1>4. HonestAnswer(r, own)' /\ Contract!Allowed(r, own)
  <2>1. CASE own = Reply("in_doubt", r)
    <3>1. HonestAnswer(r, own)'
      BY <1>2, <2>1, NoneAssumption DEF Reply, HonestAnswer
    <3>2. Contract!Allowed(r, own)
      BY <1>1, <2>1
         DEF Reply, Contract!Allowed, Contract!Alike, Contract!Live, Live
    <3> QED
      BY <3>1, <3>2
  <2>2. CASE own = Reply("store_error", None)
    BY <2>2 DEF Reply, HonestAnswer, Contract!Allowed
  <2> QED
    BY <2>1, <2>2
<1>5. ASSUME NEW w \in Requests, Waiting(w, r)
      PROVE  HonestAnswer(w, joined)' /\ Contract!Allowed(w, joined)
  <2>0. w # r /\ KeyOf[w] = KeyOf[r] /\ HashOf[w] = HashOf[r]
    BY <1>5, WaiterIsAlike
  <2>1. CASE joined = Reply("in_doubt", r)
    <3>1. HonestAnswer(w, joined)'
      BY <1>2, <2>0, <2>1, NoneAssumption DEF Reply, HonestAnswer
    <3>2. Contract!Allowed(w, joined)
      BY <1>1, <2>0, <2>1
         DEF Reply, Contract!Allowed, Contract!Alike, Contract!Live, Live
    <3> QED
      BY <3>1, <3>2
  <2>2. CASE joined = Reply("replayed", r)
    <3>1. HonestAnswer(w, joined)'
      BY <1>2, <2>0, <2>2, NoneAssumption DEF Reply, HonestAnswer
    <3>2. Contract!Allowed(w, joined)
      BY <2>0, <2>2 DEF Reply, Contract!Allowed, Contract!Alike
    <3> QED
      BY <3>1, <3>2
  <2> QED
    BY <2>1, <2>2
<1>6. \A k \in Keys : \A rec \in Record :
        records'[k] = rec \/ disk'[k] = rec =>
            rec = records[k] \/ rec = disk[k] \/ HonestRecord(k, rec)'
  BY <1>T, <1>2, LeftRecordHonest
<1>7. /\ \A q \in Requests : q # r => launch'[q] = launch[q]
      /\ launch[r] = "landed" => launch'[r] = "landed"
      /\ launch'[r] # "none"
  BY <1>1 DEF Live
<1>8. ContractInv' /\ Contract!Arrive /\ Contract!Answers
  BY <1>3, <1>4, <1>5, <1>6, <1>7, SettleKeeps
<1> QED
  BY <1>1, <1>8 DEF Contract!Next, Contract!Respond

LEMMA RejectStep ==
    ASSUME ContractInv, ProtectionInv', NEW r \in Requests, Reject(r)
    PROVE  ContractInv' /\ Contract!Next
<1>T. TypeOK
  BY DEF ContractInv, ProtectionInv
<1> DEFINE joined == Reply("rejected", None)
<1>1. PICK own \in {Reply("rejected", None), Reply("store_error", None)} :
        Settle(r, own, joined)
  BY DEF Reject
<1>2. /\ Acting(r) /\ launch[r] = "pending" /\ UNCHANGED <<now, startedAt>>
      /\ launch' = [launch EXCEPT ![r] = "rejected"]
      /\ records' = With(r, None) /\ disk' \in {records', disk}
  BY DEF Reject, PersistOk, PersistThrows, Settle, Retire
<1>3. own \in Answer /\ joined \in Answer
  BY ReplyType DEF AnswerKinds
<1>4. /\ \A q \in Requests : q # r => launch'[q] = launch[q]
      /\ launch'[r] = "rejected"
  BY <1>T, <1>2 DEF TypeOK
<1>5. HonestAnswer(r, own)' /\ Contract!Allowed(r, own)
  BY <1>4 DEF Reply, HonestAnswer, Contract!Allowed, Contract!Alike
<1>6. \A w \in Requests :
        Waiting(w, r) => HonestAnswer(w, joined)' /\ Contract!Allowed(w, joined)
  BY <1>2, <1>4, WaiterIsAlike
     DEF Reply, HonestAnswer, Contract!Allowed, Contract!Alike
<1>7. \A k \in Keys : \A rec \in Record :
        records'[k] = rec \/ disk'[k] = rec => rec = records[k] \/ rec = disk[k]
  BY <1>T, <1>2, NoneAssumption DEF With, TypeOK
<1> HIDE DEF joined
<1>8. ContractInv' /\ Contract!Arrive /\ Contract!Answers
  BY <1>1, <1>2, <1>3, <1>4, <1>5, <1>6, <1>7, SettleKeeps
<1>9. ~Contract!Named(r)
  <2>1. pc[r] = "acting" /\ r # None
    BY <1>2, NoneAssumption DEF Acting
  <2> QED
    BY <2>1
       DEF Contract!Named, ContractInv, HonestAnswers, HonestAnswer, Settled
<1> QED
  BY <1>2, <1>8, <1>9 DEF Contract!Next, Contract!RespondRejected

-----------------------------------------------------------------------------
(* The chain, time and the process *)

LEMMA LandStep ==
    ASSUME ContractInv, ProtectionInv', NEW r \in Requests, Land(r)
    PROVE  ContractInv' /\ Contract!Next
<1>T. TypeOK /\ TypeOK'
  BY DEF ContractInv, ProtectionInv
<1>1. /\ launch[r] = "pending" /\ launch' = [launch EXCEPT ![r] = "landed"]
      /\ UNCHANGED <<now, records, disk, inFlight, pc, answer, startedAt>>
  BY DEF Land, storeVars, requestVars
<1>2. Kept
  BY <1>T, <1>1 DEF Kept, Settled, Live, Seen, Contract!Seen, TypeOK
<1>3. Honest(records)' /\ Honest(disk)' /\ HonestAnswers'
  BY <1>T, <1>1, <1>2, HonestyStays
<1>4. InFlightActs' /\ WaitersAlike' /\ AnsweredWhenDone'
  BY <1>1 DEF ContractInv, InFlightActs, WaitersAlike, AnsweredWhenDone
<1> QED
  BY <1>1, <1>3, <1>4 DEF ContractInv, asked, Contract!Next, Contract!Land

\* Steps outside the requests.
LEMMA IdleStep ==
    ASSUME ContractInv, ProtectionInv', UNCHANGED <<answer, launch>>,
           \A k \in Keys : \A rec \in Record :
               records'[k] = rec \/ disk'[k] = rec => rec = records[k] \/ rec = disk[k],
           \A q \in Requests : pc'[q] = pc[q] \/ (pc[q] # "done" /\ pc'[q] = "lost"),
           \/ UNCHANGED <<pc, inFlight>>
           \/ /\ \A k \in Keys : inFlight'[k] = None
              /\ \A q \in Requests : pc'[q] # "waiting"
    PROVE  ContractInv'
<1>T. TypeOK /\ TypeOK'
  BY DEF ContractInv, ProtectionInv
<1>1. Kept
  BY DEF Kept, Settled, Live, Seen, Contract!Seen
<1>2. Honest(records)' /\ Honest(disk)' /\ HonestAnswers'
  BY <1>T, <1>1, HonestyStays
<1>3. InFlightActs' /\ WaitersAlike'
  BY DEF ContractInv, InFlightActs, WaitersAlike
<1>4. AnsweredWhenDone'
  BY DEF ContractInv, AnsweredWhenDone
<1> QED
  BY <1>2, <1>3, <1>4 DEF ContractInv

LEMMA ContractInit == Init => ContractInv /\ Contract!Init
<1> SUFFICES ASSUME Init PROVE ContractInv /\ Contract!Init
  OBVIOUS
<1>1. Honest(records) /\ Honest(disk) /\ HonestAnswers
  BY DEF Init, Honest, HonestAnswers
<1>2. InFlightActs /\ WaitersAlike /\ AnsweredWhenDone
  BY DEF Init, InFlightActs, WaitersAlike, AnsweredWhenDone
<1> QED
  BY <1>1, <1>2, ProtectionInit DEF ContractInv, Init, asked, Contract!Init

LEMMA ContractStep ==
    ContractInv /\ [Next]_vars => ContractInv' /\ [Contract!Next]_(Contract!vars)
<1> SUFFICES ASSUME ContractInv, [Next]_vars
             PROVE  ContractInv' /\ [Contract!Next]_(Contract!vars)
  OBVIOUS
<1>P. ProtectionInv'
  BY ProtectionStep DEF ContractInv
<1>T. TypeOK
  BY DEF ContractInv, ProtectionInv
<1>1. ASSUME NEW r \in Requests, Execute(r)
      PROVE  ContractInv' /\ [Contract!Next]_(Contract!vars)
  BY <1>1, <1>P, PruneThrowsStep, JoinStep, FromRecordStep, StartStep,
     StartThrowsStep DEF Execute
<1>2. ASSUME NEW r \in Requests, SettleAny(r)
      PROVE  ContractInv' /\ [Contract!Next]_(Contract!vars)
  <2>1. CASE Complete(r)
    BY <1>P, <2>1, CompleteStep
  <2>2. CASE CompleteThrows(r)
    BY <1>P, <2>2, InDoubtStep DEF CompleteThrows
  <2>3. CASE Doubt(r)
    <3>1. PICK own \in {Reply("in_doubt", r), Reply("store_error", None)} :
            Settle(r, own, Reply("in_doubt", r))
      BY <2>3 DEF Doubt
    <3>2. /\ Acting(r) /\ UNCHANGED launch /\ disk' \in {records', disk}
          /\ records' = With(r, NewRecord("in_doubt", r, r))
      BY <2>3 DEF Doubt, PersistOk, PersistThrows
    <3>3. Reply("in_doubt", r) # Reply("replayed", r)
      BY DEF Reply
    <3> QED
      BY <1>P, <3>1, <3>2, <3>3, InDoubtStep
  <2>4. CASE Reject(r)
    BY <1>P, <2>4, RejectStep
  <2> QED
    BY <1>2, <2>1, <2>2, <2>3, <2>4 DEF SettleAny
<1>3. ASSUME NEW r \in Requests, Land(r)
      PROVE  ContractInv' /\ [Contract!Next]_(Contract!vars)
  BY <1>3, <1>P, LandStep
<1>4. CASE Tick
  <2>1. /\ now' = now + 1
        /\ UNCHANGED <<records, disk, inFlight, pc, answer, launch, startedAt>>
    BY <1>4 DEF Tick, storeVars, requestVars, launchVars
  <2>2. ContractInv'
    BY <1>P, <2>1, IdleStep
  <2> QED
    BY <2>1, <2>2 DEF asked, Contract!Next, Contract!Tick
<1>5. CASE Crash
  <2>1. /\ UNCHANGED <<now, disk, answer, launch, startedAt>>
        /\ \A k \in Keys : records'[k] = None /\ inFlight'[k] = None
    BY <1>5 DEF Crash, launchVars
  <2>2. \A q \in Requests :
          /\ pc'[q] = pc[q] \/ (pc[q] # "done" /\ pc'[q] = "lost")
          /\ pc'[q] # "waiting"
    BY <1>5 DEF Crash
  <2>3. ContractInv'
    BY <1>P, <2>1, <2>2, IdleStep, NoneAssumption
  <2>4. asked' = asked
    BY <1>5 DEF Crash, asked, TypeOK
  <2> QED
    BY <2>1, <2>3, <2>4 DEF Contract!vars
<1>6. CASE Restart
  <2>1. /\ UNCHANGED <<now, inFlight, pc, answer, launch, startedAt>>
        /\ records' = Pruned(disk) /\ disk' = Pruned(disk)
    BY <1>6 DEF Restart, requestVars, launchVars
  <2>2. ContractInv'
    BY <1>P, <1>T, <2>1, IdleStep, PruneWritesNothing
  <2> QED
    BY <2>1, <2>2 DEF asked, Contract!vars
<1>7. CASE UNCHANGED vars
  <2>1. UNCHANGED <<now, records, disk, inFlight, pc, answer, launch, startedAt>>
    BY <1>7 DEF vars
  <2>2. ContractInv'
    BY <1>P, <2>1, IdleStep
  <2> QED
    BY <2>1, <2>2 DEF asked, Contract!vars
<1> QED
  BY <1>1, <1>2, <1>3, <1>4, <1>5, <1>6, <1>7 DEF Next

\* The file store implements the contract of the interface it is used
\* through: whatever fails to be written and whenever the process dies, a
\* launch is started, and a request answered, only as the contract allows.
THEOREM ImplementsContract == Spec => KeepsContract
BY ContractInit, ContractStep, PTL DEF Spec, KeepsContract, Contract!Spec

-----------------------------------------------------------------------------
(* What the contract is worth.  It is proved of the contract alone, and so   *)
(* for every store that keeps it.                                            *)

CallersInv ==
    /\ now \in Nat
    /\ startedAt \in [Requests -> Nat]
    /\ launch \in [Requests -> {"none", "pending", "landed", "rejected"}]
    /\ \A r \in Requests : startedAt[r] <= now
    /\ Contract!LaunchesAreApart
    /\ Contract!AnswersStayTrue

\* Answers stay true when no launch that one of them names is rejected.
LEMMA AnswersHold ==
    ASSUME Contract!AnswersStayTrue, Contract!Answers,
           \A l \in Requests :
             /\ launch[l] = "landed" => launch'[l] = "landed"
             /\ Contract!Live(l) /\ Contract!Named(l) => Contract!Live(l)'
    PROVE  Contract!AnswersStayTrue'
<1> SUFFICES ASSUME NEW r \in Requests, answer'[r] # None
             PROVE  /\ answer'[r].kind \in {"ok", "replayed"} =>
                         /\ answer'[r].launch \in Requests
                         /\ launch'[answer'[r].launch] = "landed"
                    /\ answer'[r].launch # None =>
                         /\ answer'[r].launch \in Requests
                         /\ Contract!Live(answer[r].launch)'
                         /\ Contract!Alike(answer[r].launch, r)'
  BY DEF Contract!AnswersStayTrue
<1>1. CASE answer'[r] = answer[r]
  BY <1>1 DEF Contract!AnswersStayTrue, Contract!Named, Contract!Alike
<1>2. CASE answer'[r] # answer[r]
  <2>1. Contract!Allowed(r, answer'[r])
    BY <1>2 DEF Contract!Answers
  <2> QED
    BY <2>1 DEF Contract!Allowed, Contract!Live, Contract!Alike
<1> QED
  BY <1>1, <1>2

LEMMA CallersStep == CallersInv /\ [Contract!Next]_(Contract!vars) => CallersInv'
<1> SUFFICES ASSUME CallersInv, [Contract!Next]_(Contract!vars) PROVE CallersInv'
  OBVIOUS
<1> USE BoundsAssumption DEF CallersInv
<1>1. ASSUME NEW r \in Requests, Contract!Admit(r) PROVE CallersInv'
  <2>1. /\ launch[r] = "none" /\ launch' = [launch EXCEPT ![r] = "pending"]
        /\ startedAt' = [startedAt EXCEPT ![r] = now] /\ UNCHANGED <<now, answer>>
        /\ \A q \in Requests :
             KeyOf[q] = KeyOf[r] /\ Contract!Live(q) => now - startedAt[q] > TtlMs
    BY <1>1 DEF Contract!Admit, Contract!Seen
  <2>2. \A q \in Requests \ {r} : launch'[q] = launch[q] /\ startedAt'[q] = startedAt[q]
    BY <2>1
  <2>3. startedAt'[r] = now /\ startedAt' \in [Requests -> Nat]
    BY <2>1
  <2>4. \A q \in Requests : startedAt'[q] <= now'
    BY <2>1, <2>2, <2>3
  <2>5. Contract!LaunchesAreApart'
    <3> SUFFICES ASSUME NEW p \in Requests, NEW q \in Requests, p # q,
                        KeyOf[p] = KeyOf[q], Contract!Live(p)', Contract!Live(q)'
                 PROVE  \/ startedAt'[q] - startedAt'[p] > TtlMs
                        \/ startedAt'[p] - startedAt'[q] > TtlMs
      BY DEF Contract!LaunchesAreApart
    <3>1. CASE p = r
      BY <2>1, <2>2, <2>3, <3>1 DEF Contract!Live
    <3>2. CASE q = r
      BY <2>1, <2>2, <2>3, <3>2 DEF Contract!Live
    <3>3. CASE p # r /\ q # r
      BY <2>2, <3>3 DEF Contract!LaunchesAreApart, Contract!Live
    <3> QED
      BY <3>1, <3>2, <3>3
  <2>6. Contract!AnswersStayTrue'
    BY <2>1, <2>2, AnswersHold DEF Contract!Answers, Contract!Live
  <2> QED
    BY <2>1, <2>3, <2>4, <2>5, <2>6
<1>2. ASSUME NEW r \in Requests, Contract!Land(r) PROVE CallersInv'
  <2>1. /\ launch[r] = "pending" /\ launch' = [launch EXCEPT ![r] = "landed"]
        /\ UNCHANGED <<now, startedAt, answer>>
    BY <1>2 DEF Contract!Land
  <2>2. \A l \in Requests : Contract!Live(l)' <=> Contract!Live(l)
    BY <2>1 DEF Contract!Live
  <2>3. Contract!LaunchesAreApart'
    BY <2>1, <2>2 DEF Contract!LaunchesAreApart
  <2>4. Contract!AnswersStayTrue'
    BY <2>1, <2>2, AnswersHold DEF Contract!Answers
  <2> QED
    BY <2>1, <2>3, <2>4
<1>3. ASSUME NEW r \in Requests, Contract!RespondRejected(r) PROVE CallersInv'
  <2>1. /\ launch[r] = "pending" /\ ~Contract!Named(r)
        /\ launch' = [launch EXCEPT ![r] = "rejected"]
        /\ Contract!Answers /\ UNCHANGED <<now, startedAt>>
    BY <1>3 DEF Contract!RespondRejected
  <2>2. \A l \in Requests \ {r} : Contract!Live(l)' <=> Contract!Live(l)
    BY <2>1 DEF Contract!Live
  <2>3. ~Contract!Live(r)'
    BY <2>1 DEF Contract!Live
  <2>4. Contract!LaunchesAreApart'
    BY <2>1, <2>2, <2>3 DEF Contract!LaunchesAreApart
  <2>5. Contract!AnswersStayTrue'
    BY <2>1, <2>2, AnswersHold
  <2> QED
    BY <2>1, <2>4, <2>5
<1>4. CASE Contract!Respond
  <2>1. UNCHANGED <<now, launch, startedAt>> /\ Contract!Answers
    BY <1>4 DEF Contract!Respond
  <2>2. Contract!AnswersStayTrue'
    BY <2>1, AnswersHold DEF Contract!Live
  <2> QED
    BY <2>1, <2>2 DEF Contract!LaunchesAreApart, Contract!Live
<1>5. CASE Contract!Tick \/ UNCHANGED Contract!vars
  <2>1. now' \in {now, now + 1} /\ UNCHANGED <<launch, startedAt, answer>>
    BY <1>5 DEF Contract!Tick, Contract!vars
  <2>2. \A r \in Requests : startedAt'[r] <= now'
    BY <2>1
  <2> QED
    BY <2>1, <2>2
       DEF Contract!LaunchesAreApart, Contract!AnswersStayTrue, Contract!Live,
           Contract!Alike
<1> QED
  BY <1>1, <1>2, <1>3, <1>4, <1>5 DEF Contract!Next

\* Whoever keeps the contract of execute() launches at most once per key and
\* TTL and never tells a client what turns out not to be so.
THEOREM ContractProtectsCallers ==
    Contract!Spec => [](Contract!LaunchesAreApart /\ Contract!AnswersStayTrue)
<1>1. Contract!Init => CallersInv
  BY DEF Contract!Init, CallersInv, Contract!LaunchesAreApart,
         Contract!AnswersStayTrue, Contract!Live
<1>2. CallersInv => Contract!LaunchesAreApart /\ Contract!AnswersStayTrue
  BY DEF CallersInv
<1> QED
  BY <1>1, <1>2, CallersStep, PTL DEF Contract!Spec

\* No answer of the file store, first, replayed or in doubt, ever names a
\* launch of another key or payload, or one that did not, or could not, land.
THEOREM AnswersAreHonest == Spec => []Contract!AnswersStayTrue
BY ImplementsContract, ContractProtectsCallers, PTL DEF KeepsContract

=============================================================================
