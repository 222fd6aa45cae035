------------------------- MODULE TuneRequestsProofs -------------------------
(***************************************************************************)
(* Proofs about the tune request ledger, for any set of owner threads, any *)
(* length of the history and any number of requests.                       *)
(***************************************************************************)
EXTENDS TuneRequests, FiniteSetTheorems, TLAPS

(* The part of the inductive invariant that concerns the records and the   *)
(* two atomics: the lock is held exactly while writes are outstanding, and *)
(* the generation is always written before the count is released.          *)
LedgerType ==
    /\ rec \in [Ids -> Record]
    /\ generation \in Nat
    /\ count \in Nat
    /\ lock \in Owners \cup {"backend", "free"}
    /\ adv \in {0, 1}
    /\ delta \in Int
    /\ committed \subseteq Ids
    /\ owed \subseteq Ids

LockInv ==
    /\ lock = "free" <=> (adv = 0 /\ delta = 0)
    /\ adv = 1 => delta < 0
    /\ delta <= 1

CommittedResolved == \A i \in committed : rec[i].state \in {"FINISHED", "FREE"}

LedgerInv ==
    /\ LedgerType
    /\ LockInv
    /\ CountMatchesLedger
    /\ GenerationCountsCommits
    /\ CommittedResolved

(* The part that concerns the owners: a request id is fresh until its      *)
(* record exists, and an increment still to come belongs to an owner that  *)
(* has not returned from request_begin().                                  *)
OwnerType ==
    /\ next_request \in 0 .. MaxRequests
    /\ pc \in [Owners -> {"idle", "begin", "submit", "wait", "return"}]
    /\ cur \in [Owners -> 0 .. MaxRequests]
    /\ ret \in [Owners -> Results]
    /\ staged \subseteq Ids
    /\ inflight \subseteq Ids
    /\ ownerActive \in BOOLEAN

Fresh(i) == rec[i].state = "FREE" /\ i \notin committed

OwnerInv ==
    /\ OwnerType
    /\ \A i \in Ids : i > next_request => Fresh(i)
    /\ \A o \in Owners : cur[o] <= next_request /\ (pc[o] # "idle" => cur[o] \in Ids)
    /\ \A o \in Owners : pc[o] = "begin" => Fresh(cur[o])
    /\ \A o, p \in Owners : pc[o] = "begin" /\ o # p => cur[o] # cur[p]

OpeningInv ==
    delta = 1 => \E o \in Owners : lock = o /\ pc[o] = "submit" /\ cur[o] \in Unresolved

(* The part that concerns the frame's check, which reads without the lock. *)
FrameInv ==
    /\ frame \in Frames
    /\ frame.pc # "none" => frame.gen <= generation
    /\ frame.pc = "gen2" => frame.clear \/ frame.gen < generation
    /\ frame.pc = "admitted" => frame.clear
    /\ frame.pc = "status" => frame.upto # 0

(* The part that concerns the failures whose gate nothing has lifted: the  *)
(* gate is carried by the failure's own record or, once that is evicted,   *)
(* by a newer unresolved request that inherited it, from heir to heir.  An *)
(* increment still to come is for a request that carries no such gate.     *)
Carries(i, e) ==
    \/ i = e /\ rec[i].state = "FAILED_GATED"
    \/ i > e /\ rec[i].inherited /\ rec[i].state \in {"PENDING", "FAILED_GATED"}

OwedInv ==
    /\ \A e \in owed : rec[e].state \in {"FAILED_GATED", "FREE"} /\ \E i \in Ids : Carries(i, e)
    /\ \A e \in owed : e <= next_request /\ \A o \in Owners : pc[o] = "begin" => cur[o] # e
    /\ delta = 1 => \E i \in Ids : rec[i].state = "PENDING" /\ ~rec[i].inherited

IInv == LedgerInv /\ OwnerInv /\ OpeningInv /\ OwedInv /\ FrameInv

-----------------------------------------------------------------------------
LEMMA IdsFinite == IsFiniteSet(Ids) /\ Ids \subseteq Nat
  BY FS_Interval, MaxRequestsAssumption DEF Ids

LEMMA IdsOrdered ==
    /\ \A i, j, k \in Ids : i > j /\ j > k => i > k
    /\ \A i, j \in Ids : i < j \/ i = j \/ i > j
    /\ \A i, j \in Ids : i < j <=> j > i
    /\ \A i, j \in Ids, n \in Nat : (i = j \/ i > j) /\ j > n => i > n
  BY MaxRequestsAssumption DEF Ids

LEMMA UnresolvedFinite ==
    /\ Unresolved \subseteq Ids /\ IsFiniteSet(Unresolved) /\ Cardinality(Unresolved) \in Nat
  <1>1. Unresolved \subseteq Ids
    BY DEF Unresolved, InState
  <1>2. QED
    BY <1>1, IdsFinite, FS_Subset, FS_CardinalityType

LEMMA CardinalityAddOne ==
    ASSUME NEW T, IsFiniteSet(T), NEW x, x \notin T
    PROVE  Cardinality({x} \cup T) = 1 + Cardinality(T)
  <1>1. {x} \cup T = T \cup {x}
    OBVIOUS
  <1>2. Cardinality(T \cup {x}) = Cardinality(T) + 1
    BY FS_AddElement
  <1>3. Cardinality(T) \in Nat
    BY FS_CardinalityType
  <1>4. Cardinality({x} \cup T) = Cardinality(T) + 1
    BY <1>1, <1>2, Zenon
  <1>5. QED
    BY <1>3, <1>4

(* Finishing a set of unresolved records takes exactly that many out.      *)
LEMMA MarkFinished ==
    ASSUME rec \in [Ids -> Record], NEW r \in [Ids -> Record],
           \A i \in Ids : r[i].state = rec[i].state /\ r[i].inherited = rec[i].inherited,
           NEW S, S \subseteq Unresolved, rec' = Mark(r, S, "FINISHED")
    PROVE  /\ rec' \in [Ids -> Record]
           /\ \A i \in Ids : rec'[i].state = IF i \in S THEN "FINISHED" ELSE rec[i].state
           /\ \A i \in Ids : rec'[i].inherited = rec[i].inherited
           /\ IsFiniteSet(S) /\ Cardinality(S) \in Nat
           /\ Cardinality(Unresolved') = Cardinality(Unresolved) - Cardinality(S)
  <1>1. rec' \in [Ids -> Record]
    BY DEF Mark, Record, RequestStates
  <1>2. \A i \in Ids : rec'[i].state = IF i \in S THEN "FINISHED" ELSE rec[i].state
    BY DEF Mark, Record
  <1>3. Unresolved' = Unresolved \ S
    BY <1>2 DEF Unresolved, InState
  <1>4. S \cap Unresolved = S /\ Unresolved \cap S = S
    OBVIOUS
  <1>5. IsFiniteSet(S) /\ Cardinality(S) \in Nat
    BY UnresolvedFinite, FS_Subset, FS_CardinalityType
  <1>6. Cardinality(Unresolved \ S) = Cardinality(Unresolved) - Cardinality(Unresolved \cap S)
    BY UnresolvedFinite, FS_Difference
  <1>7. \A i \in Ids : rec'[i].inherited = rec[i].inherited
    BY DEF Mark, Record
  <1>8. QED
    BY <1>1, <1>2, <1>3, <1>4, <1>5, <1>6, <1>7

(* Changing fields other than the state, or gating an unresolved request,  *)
(* leaves the set of unresolved requests as it was.                        *)
LEMMA MarkGated ==
    ASSUME rec \in [Ids -> Record], NEW r \in [Ids -> Record],
           \A i \in Ids : r[i].state = rec[i].state /\ r[i].inherited = rec[i].inherited,
           NEW S, S \subseteq Unresolved,
           rec' = Mark(r, S, "FAILED_GATED") \/ rec' = r
    PROVE  /\ rec' \in [Ids -> Record]
           /\ \A i \in Ids : rec'[i].state = rec[i].state
                             \/ (i \in S /\ rec'[i].state = "FAILED_GATED")
           /\ \A i \in Ids : rec'[i].inherited = rec[i].inherited
           /\ Unresolved' = Unresolved
  <1>1. rec' \in [Ids -> Record]
    BY DEF Mark, Record, RequestStates
  <1>2. \A i \in Ids : rec'[i].state = rec[i].state
                       \/ (i \in S /\ rec'[i].state = "FAILED_GATED")
    BY DEF Mark, Record
  <1>3. Unresolved' = Unresolved
    BY <1>2 DEF Unresolved, InState
  <1>4. \A i \in Ids : rec'[i].inherited = rec[i].inherited
    BY DEF Mark, Record
  <1>5. QED
    BY <1>1, <1>2, <1>3, <1>4

-----------------------------------------------------------------------------
(* What a section does to the failures that are owed: it keeps the gate of *)
(* each it does not lift, and adds only a request it gates.                *)
OwedStep ==
    \A e \in owed' :
       \/ /\ e \in owed /\ rec'[e].state = rec[e].state
          /\ \A i \in Ids : Carries(i, e) => Carries(i, e)'
       \/ rec[e].state # "FREE" /\ rec'[e].state = "FAILED_GATED"

(* What every critical section guarantees: the ledger invariant holds      *)
(* after it, it neither makes nor frees a record nor revives a finished    *)
(* one, a request it commits has a record, and its own step writes neither *)
(* atomic.                                                                 *)
SectionOK ==
    /\ LedgerInv'
    /\ \A i \in Ids : rec'[i].state = "FREE" <=> rec[i].state = "FREE"
    /\ \A i \in Ids : rec[i].state = "FINISHED" => rec'[i].state = "FINISHED"
    /\ \A i \in committed' : i \in committed \/ rec[i].state # "FREE"
    /\ OwedStep
    /\ delta' <= 0
    /\ generation' = generation /\ count' = count

(* The step part of ResolvedStaysResolved.                                 *)
Kept == \A i \in Ids : rec[i].state = "FINISHED" => rec'[i].state \in {"FINISHED", "FREE"}

Caller(t) == t \in Owners \cup {"backend"}

LEMMA CallerIsNotFree == ASSUME NEW t, Caller(t) PROVE t # "free"
  BY OwnersAssumption DEF Caller

LEMMA FinishSuccessSection ==
    ASSUME LedgerInv, NEW t, Caller(t), lock = "free", NEW id \in Ids,
           NEW r \in [Ids -> Record], \A i \in Ids : r[i].state = rec[i].state /\ r[i].inherited = rec[i].inherited,
           rec[id].state = "PENDING", FinishSuccess(t, r, id)
    PROVE  SectionOK
  <1> DEFINE S == {id} \cup OlderFailed(r, id)
  <1> USE DEF LedgerInv, LedgerType
  <1>1. S \subseteq Unresolved /\ id \notin OlderFailed(r, id) /\ OlderFailed(r, id) \subseteq Unresolved
    BY DEF OlderFailed, InState, Unresolved
  <1>2. /\ rec' \in [Ids -> Record]
        /\ \A i \in Ids : rec'[i].state = IF i \in S THEN "FINISHED" ELSE rec[i].state
        /\ \A i \in Ids : rec'[i].inherited = rec[i].inherited
        /\ Cardinality(Unresolved') = Cardinality(Unresolved) - Cardinality(S)
    <2>1. rec' = Mark(r, S, "FINISHED") /\ rec \in [Ids -> Record]
      BY DEF FinishSuccess
    <2> HIDE DEF S
    <2>2. QED
      BY <1>1, <2>1, MarkFinished
  <1>3. Cardinality(S) = 1 + Cardinality(OlderFailed(r, id)) /\ Cardinality(OlderFailed(r, id)) \in Nat
    <2>1. IsFiniteSet(OlderFailed(r, id)) /\ Cardinality(OlderFailed(r, id)) \in Nat
      BY <1>1, UnresolvedFinite, FS_Subset, FS_CardinalityType
    <2>2. QED
      BY <2>1, <1>1, CardinalityAddOne
  <1>4. adv = 0 /\ delta = 0
    BY DEF LockInv
  <1>5. adv' = 1 /\ delta' = -(1 + Cardinality(OlderFailed(r, id))) /\ lock' = t
        /\ count' = count /\ generation' = generation
    BY DEF FinishSuccess, Hold
  <1>6. CountMatchesLedger'
    BY <1>2, <1>3, <1>4, <1>5, UnresolvedFinite DEF CountMatchesLedger
  <1>7. GenerationCountsCommits'
    <2>1. id \notin committed
      BY DEF CommittedResolved
    <2>2. IsFiniteSet(committed) /\ Cardinality(committed) \in Nat
      BY IdsFinite, FS_Subset, FS_CardinalityType
    <2>3. Cardinality(committed') = Cardinality(committed) + 1
      BY <2>1, <2>2, FS_AddElement DEF FinishSuccess
    <2>4. QED
      BY <2>2, <2>3, <1>4, <1>5 DEF GenerationCountsCommits
  <1>8. CommittedResolved'
    BY <1>2 DEF CommittedResolved, FinishSuccess
  <1>9. LockInv'
    BY <1>3, <1>5, CallerIsNotFree DEF LockInv
  <1>10. LedgerType'
    <2>1. committed' \subseteq Ids /\ owed' \subseteq Ids
      BY DEF FinishSuccess
    <2>2. QED
      BY <2>1, <1>2, <1>3, <1>5 DEF Caller
  <1>11. \A i \in Ids : rec'[i].state = "FREE" <=> rec[i].state = "FREE"
    BY <1>1, <1>2 DEF Unresolved, InState
  <1>12. \A i \in committed' : i \in committed \/ rec[i].state # "FREE"
    BY DEF FinishSuccess
  <1>13. \A i \in Ids : rec[i].state = "FINISHED" => rec'[i].state = "FINISHED"
    BY <1>2
  <1>14. OwedStep
    <2>1. \A i \in Ids : i > id => rec'[i].state = rec[i].state
      BY <1>2, IdsFinite DEF OlderFailed
    <2>2. \A e \in owed' : e \in owed /\ e \in Ids /\ e > id
      BY DEF FinishSuccess
    <2>3. \A e \in owed', i \in Ids : i = e \/ i > e => i > id
      BY <2>2, IdsOrdered
    <2>4. \A e \in owed', i \in Ids : Carries(i, e) => Carries(i, e)'
      BY <1>2, <2>1, <2>3 DEF Carries
    <2>5. QED
      BY <2>1, <2>2, <2>4 DEF OwedStep
  <1>15. QED
    BY <1>3, <1>5, <1>6, <1>7, <1>8, <1>9, <1>10, <1>11, <1>12, <1>13, <1>14 DEF SectionOK

(* Sections that leave the two atomics alone.                              *)
LEMMA QuietSection ==
    ASSUME LedgerInv, lock = "free", NEW S, S \subseteq Unresolved,
           NEW r \in [Ids -> Record], \A i \in Ids : r[i].state = rec[i].state /\ r[i].inherited = rec[i].inherited,
           rec' = Mark(r, S, "FAILED_GATED") \/ rec' = r,
           LeaveAtomics, committed' = committed, owed' \subseteq Ids, OwedStep
    PROVE  SectionOK
  <1> USE DEF LedgerInv, LedgerType
  <1>1. /\ rec' \in [Ids -> Record]
        /\ \A i \in Ids : rec'[i].state = rec[i].state \/ (i \in S /\ rec'[i].state = "FAILED_GATED")
        /\ Unresolved' = Unresolved
    BY MarkGated
  <1>2. adv' = adv /\ delta' = delta /\ lock' = lock /\ generation' = generation /\ count' = count
        /\ adv = 0 /\ delta = 0
    BY DEF LeaveAtomics, LockInv
  <1>3. CountMatchesLedger' /\ GenerationCountsCommits' /\ LockInv'
    BY <1>1, <1>2 DEF CountMatchesLedger, GenerationCountsCommits, LockInv
  <1>4. CommittedResolved'
    BY <1>1 DEF CommittedResolved, Unresolved, InState
  <1>5. LedgerType'
    BY <1>1, <1>2
  <1>6. \A i \in Ids : rec'[i].state = "FREE" <=> rec[i].state = "FREE"
    BY <1>1 DEF Unresolved, InState
  <1>7. \A i \in Ids : rec[i].state = "FINISHED" => rec'[i].state = "FINISHED"
    BY <1>1 DEF Unresolved, InState
  <1>8. QED
    BY <1>2, <1>3, <1>4, <1>5, <1>6, <1>7 DEF SectionOK

(* Sections that resolve a non-empty set of failures without a commit.     *)
LEMMA ReleaseSection ==
    ASSUME LedgerInv, NEW t, Caller(t), lock = "free", NEW S, S \subseteq Unresolved, S # {},
           NEW r \in [Ids -> Record], \A i \in Ids : r[i].state = rec[i].state /\ r[i].inherited = rec[i].inherited,
           rec' = Mark(r, S, "FINISHED"), Hold(t, 0, -Cardinality(S)),
           committed' = committed, owed' \subseteq Ids, OwedStep
    PROVE  SectionOK
  <1> USE DEF LedgerInv, LedgerType
  <1>1. /\ rec' \in [Ids -> Record]
        /\ \A i \in Ids : rec'[i].state = IF i \in S THEN "FINISHED" ELSE rec[i].state
        /\ IsFiniteSet(S) /\ Cardinality(S) \in Nat
        /\ Cardinality(Unresolved') = Cardinality(Unresolved) - Cardinality(S)
    BY MarkFinished
  <1>2. Cardinality(S) > 0
    BY <1>1, FS_EmptySet
  <1>3. adv' = 0 /\ delta' = -Cardinality(S) /\ lock' = t /\ generation' = generation /\ count' = count
        /\ adv = 0 /\ delta = 0
    BY DEF Hold, LockInv
  <1>4. CountMatchesLedger' /\ GenerationCountsCommits'
    BY <1>1, <1>3, UnresolvedFinite DEF CountMatchesLedger, GenerationCountsCommits
  <1>5. LockInv'
    BY <1>1, <1>2, <1>3, CallerIsNotFree DEF LockInv
  <1>6. CommittedResolved'
    BY <1>1 DEF CommittedResolved
  <1>7. LedgerType'
    BY <1>1, <1>3 DEF Caller
  <1>8. \A i \in Ids : rec'[i].state = "FREE" <=> rec[i].state = "FREE"
    BY <1>1 DEF Unresolved, InState
  <1>9. QED
    BY <1>1, <1>2, <1>3, <1>4, <1>5, <1>6, <1>7, <1>8 DEF SectionOK

LEMMA FinishRolledBackSection ==
    ASSUME LedgerInv, NEW t, Caller(t), lock = "free", NEW id \in Ids,
           NEW r \in [Ids -> Record], \A i \in Ids : r[i].state = rec[i].state /\ r[i].inherited = rec[i].inherited,
           rec[id].state \in {"PENDING", "FAILED_GATED"}, FinishRolledBack(t, r, id)
    PROVE  SectionOK
  <1>1. {id} \subseteq Unresolved /\ {id} # {} /\ Cardinality({id}) = 1
    BY FS_Singleton DEF Unresolved, InState
  <1>2. committed' = committed /\ owed' = owed \ {id} /\ owed' \subseteq Ids /\ rec \in [Ids -> Record]
    BY DEF FinishRolledBack, LedgerInv, LedgerType
  <1>3. CASE r[id].inherited
    <2>1. rec' = Mark(r, {id}, "FAILED_GATED") /\ LeaveAtomics
      BY <1>3 DEF FinishRolledBack
    <2>2. /\ \A i \in Ids : rec'[i].state = rec[i].state
                             \/ (i \in {id} /\ rec'[i].state = "FAILED_GATED")
          /\ \A i \in Ids : rec'[i].inherited = rec[i].inherited
      BY <1>1, <1>2, <2>1, MarkGated
    <2>3. OwedStep
      BY <1>2, <2>2 DEF OwedStep, Carries
    <2>4. QED
      BY <1>1, <1>2, <2>1, <2>3, QuietSection
  <1>4. CASE ~r[id].inherited
    <2>1. rec' = Mark(r, {id}, "FINISHED") /\ Hold(t, 0, -Cardinality({id}))
      BY <1>1, <1>4 DEF FinishRolledBack
    <2>2. /\ \A i \in Ids : rec'[i].state = IF i \in {id} THEN "FINISHED" ELSE rec[i].state
          /\ \A i \in Ids : rec'[i].inherited = rec[i].inherited
      BY <1>1, <1>2, <2>1, MarkFinished
    <2>3. OwedStep
      BY <1>2, <1>4, <2>2 DEF OwedStep, Carries
    <2>4. QED
      BY <1>1, <1>2, <2>1, <2>3, ReleaseSection
  <1>5. QED
    BY <1>3, <1>4

LEMMA GateFailureSection ==
    ASSUME LedgerInv, lock = "free", NEW id \in Ids,
           NEW r \in [Ids -> Record], \A i \in Ids : r[i].state = rec[i].state /\ r[i].inherited = rec[i].inherited,
           rec[id].state \in {"PENDING", "FAILED_GATED"}, GateFailure(r, id)
    PROVE  SectionOK
  <1>1. {id} \subseteq Unresolved
    BY DEF Unresolved, InState
  <1>2. /\ rec' = Mark(r, {id}, "FAILED_GATED") /\ LeaveAtomics /\ committed' = committed
        /\ owed' = owed \cup {id} /\ owed' \subseteq Ids /\ rec \in [Ids -> Record]
    BY DEF GateFailure, LedgerInv, LedgerType
  <1>3. /\ \A i \in Ids : rec'[i].state = rec[i].state
                           \/ (i \in {id} /\ rec'[i].state = "FAILED_GATED")
        /\ \A i \in Ids : rec'[i].inherited = rec[i].inherited
    BY <1>1, <1>2, MarkGated
  <1>4. rec'[id].state = "FAILED_GATED"
    BY <1>2 DEF Mark, Record
  <1>5. OwedStep
    BY <1>2, <1>3, <1>4 DEF OwedStep, Carries
  <1>6. QED
    BY <1>1, <1>2, <1>5, QuietSection

LEMMA OnlyRecordsSection ==
    ASSUME LedgerInv, lock = "free", NEW r \in [Ids -> Record],
           \A i \in Ids : r[i].state = rec[i].state /\ r[i].inherited = rec[i].inherited, OnlyRecords(r)
    PROVE  SectionOK
  <1>1. /\ rec' = r /\ LeaveAtomics /\ committed' = committed
        /\ owed' = owed /\ owed' \subseteq Ids
    BY DEF OnlyRecords, LedgerInv, LedgerType
  <1>2. {} \subseteq Unresolved
    OBVIOUS
  <1>3. OwedStep
    BY <1>1 DEF OwedStep, Carries
  <1>4. QED
    BY <1>1, <1>2, <1>3, QuietSection

(* The four operations of the interface are such sections.                 *)
LEMMA PublishSection ==
    ASSUME LedgerInv, NEW t, Caller(t), NEW id \in Ids, NEW result \in Terminal, Publish(t, id, result)
    PROVE  SectionOK
  <1> DEFINE r == [rec EXCEPT ![id].result = result, ![id].backend_complete = TRUE]
  <1>0. lock = "free" /\ rec \in [Ids -> Record] /\ \A i \in Ids : rec[i].state = rec[i].state /\ rec[i].inherited = rec[i].inherited
    BY DEF Publish, LedgerInv, LedgerType
  <1>1. r \in [Ids -> Record] /\ \A i \in Ids : r[i].state = rec[i].state /\ r[i].inherited = rec[i].inherited
    BY <1>0 DEF Record, Results, Terminal
  <1>2. CASE rec[id].state # "PENDING"
    BY <1>0, <1>2, OnlyRecordsSection DEF Publish
  <1>3. CASE rec[id].state = "PENDING" /\ result = "OK" /\ rec[id].owner_ready
    <2>1. FinishSuccess(t, r, id)
      BY <1>3 DEF Publish
    <2> HIDE DEF r
    <2>2. QED
      BY <1>0, <1>1, <1>3, <2>1, FinishSuccessSection
  <1>4. CASE rec[id].state = "PENDING" /\ result = "OK" /\ ~rec[id].owner_ready
    <2>1. OnlyRecords(r)
      BY <1>4 DEF Publish
    <2> HIDE DEF r
    <2>2. QED
      BY <1>0, <1>1, <2>1, OnlyRecordsSection
  <1>5. CASE rec[id].state = "PENDING" /\ result # "OK" /\ rec[id].disowned
    <2>1. FinishRolledBack(t, r, id)
      BY <1>5 DEF Publish
    <2> HIDE DEF r
    <2>2. QED
      BY <1>0, <1>1, <1>5, <2>1, FinishRolledBackSection
  <1>6. CASE rec[id].state = "PENDING" /\ result # "OK" /\ ~rec[id].disowned
    <2>1. GateFailure(r, id)
      BY <1>6 DEF Publish
    <2> HIDE DEF r
    <2>2. QED
      BY <1>0, <1>1, <1>6, <2>1, GateFailureSection
  <1>7. QED
    BY <1>2, <1>3, <1>4, <1>5, <1>6

LEMMA MarkReadySection ==
    ASSUME LedgerInv, NEW t, Caller(t), NEW id \in Ids, MarkReady(t, id)
    PROVE  SectionOK
  <1> DEFINE r == [rec EXCEPT ![id].owner_ready = TRUE]
  <1>0. lock = "free" /\ rec \in [Ids -> Record] /\ \A i \in Ids : rec[i].state = rec[i].state /\ rec[i].inherited = rec[i].inherited
    BY DEF MarkReady, LedgerInv, LedgerType
  <1>1. r \in [Ids -> Record] /\ \A i \in Ids : r[i].state = rec[i].state /\ r[i].inherited = rec[i].inherited
    BY <1>0 DEF Record
  <1>2. CASE rec[id].state # "PENDING"
    BY <1>0, <1>2, OnlyRecordsSection DEF MarkReady
  <1>3. CASE rec[id].state = "PENDING" /\ rec[id].backend_complete /\ rec[id].result = "OK"
    <2>1. FinishSuccess(t, r, id)
      BY <1>3 DEF MarkReady
    <2> HIDE DEF r
    <2>2. QED
      BY <1>0, <1>1, <1>3, <2>1, FinishSuccessSection
  <1>4. CASE rec[id].state = "PENDING" /\ ~(rec[id].backend_complete /\ rec[id].result = "OK")
    <2>1. OnlyRecords(r)
      BY <1>4 DEF MarkReady
    <2> HIDE DEF r
    <2>2. QED
      BY <1>0, <1>1, <2>1, OnlyRecordsSection
  <1>5. QED
    BY <1>2, <1>3, <1>4

LEMMA CompleteSection ==
    ASSUME LedgerInv, NEW t, Caller(t), NEW id \in Ids, NEW result \in Terminal, Complete(t, id, result)
    PROVE  SectionOK
  <1> DEFINE r == [rec EXCEPT ![id].owner_ready = TRUE]
             first == [r EXCEPT ![id].result = result, ![id].backend_complete = TRUE]
             other == IF result = "OK" THEN r ELSE [r EXCEPT ![id].result = result]
             backendOk == rec[id].result = "OK"
  <1>0. lock = "free" /\ rec \in [Ids -> Record] /\ \A i \in Ids : rec[i].state = rec[i].state /\ rec[i].inherited = rec[i].inherited
    BY DEF Complete, LedgerInv, LedgerType
  <1>1. r \in [Ids -> Record] /\ \A i \in Ids : r[i].state = rec[i].state /\ r[i].inherited = rec[i].inherited
    BY <1>0 DEF Record
  <1>2. first \in [Ids -> Record] /\ \A i \in Ids : first[i].state = rec[i].state /\ first[i].inherited = rec[i].inherited
    <2> HIDE DEF r
    <2>1. first \in [Ids -> Record]
      BY <1>1 DEF Record, Results, Terminal
    <2>2. \A i \in Ids : first[i].state = r[i].state /\ first[i].inherited = r[i].inherited
      BY <1>1 DEF Record
    <2>3. QED
      BY <1>1, <2>1, <2>2
  <1>3. other \in [Ids -> Record] /\ \A i \in Ids : other[i].state = rec[i].state /\ other[i].inherited = rec[i].inherited
    <2> HIDE DEF r
    <2>1. QED
      BY <1>1 DEF Record, Results, Terminal
  <1>4. rec[id].state \in RequestStates /\ rec[id].backend_complete \in BOOLEAN
    BY <1>0 DEF Record
  <1>5. CASE OnlyRecords(rec) \/ OnlyRecords(r)
    <2> HIDE DEF r
    <2>1. QED
      BY <1>0, <1>1, <1>5, OnlyRecordsSection
  <1>6. CASE rec[id].state = "PENDING" /\ (FinishSuccess(t, r, id) \/ FinishSuccess(t, first, id))
    <2> HIDE DEF r, first
    <2>1. QED
      BY <1>0, <1>1, <1>2, <1>6, FinishSuccessSection
  <1>7. CASE /\ rec[id].state \in {"PENDING", "FAILED_GATED"}
             /\ FinishRolledBack(t, r, id) \/ FinishRolledBack(t, first, id)
    <2> HIDE DEF r, first
    <2>1. QED
      BY <1>0, <1>1, <1>2, <1>7, FinishRolledBackSection
  <1>8. CASE rec[id].state = "PENDING" /\ GateFailure(other, id)
    <2> HIDE DEF r, other
    <2>1. QED
      BY <1>0, <1>3, <1>8, GateFailureSection
  <1>9. \/ OnlyRecords(rec) \/ OnlyRecords(r)
        \/ rec[id].state = "PENDING" /\ (FinishSuccess(t, r, id) \/ FinishSuccess(t, first, id))
        \/ /\ rec[id].state \in {"PENDING", "FAILED_GATED"}
           /\ FinishRolledBack(t, r, id) \/ FinishRolledBack(t, first, id)
        \/ rec[id].state = "PENDING" /\ GateFailure(other, id)
    <2>1. CASE rec[id].state \in {"FREE", "FINISHED"}
      BY <2>1 DEF Complete
    <2>2. CASE rec[id].state = "FAILED_GATED"
      BY <2>2 DEF Complete
    <2>3. CASE rec[id].state = "PENDING" /\ ~rec[id].backend_complete
      BY <2>3 DEF Complete
    <2>4. CASE rec[id].state = "PENDING" /\ rec[id].backend_complete
      BY <2>4 DEF Complete
    <2>5. QED
      BY <1>4, <2>1, <2>2, <2>3, <2>4 DEF RequestStates
  <1>10. QED
    BY <1>5, <1>6, <1>7, <1>8, <1>9

LEMMA DisownSection ==
    ASSUME LedgerInv, NEW t, Caller(t), NEW id \in Ids, Disown(t, id)
    PROVE  SectionOK
  <1> DEFINE r == [rec EXCEPT ![id].disowned = TRUE, ![id].owner_ready = TRUE]
  <1>0. lock = "free" /\ rec \in [Ids -> Record] /\ \A i \in Ids : rec[i].state = rec[i].state /\ rec[i].inherited = rec[i].inherited
    BY DEF Disown, LedgerInv, LedgerType
  <1>1. r \in [Ids -> Record] /\ \A i \in Ids : r[i].state = rec[i].state /\ r[i].inherited = rec[i].inherited
    BY <1>0 DEF Record
  <1>2. CASE rec[id].state = "PENDING" /\ rec[id].backend_complete /\ rec[id].result = "OK"
    <2>1. FinishSuccess(t, r, id)
      BY <1>2 DEF Disown
    <2> HIDE DEF r
    <2>2. QED
      BY <1>0, <1>1, <1>2, <2>1, FinishSuccessSection
  <1>3. CASE rec[id].state = "PENDING" /\ ~(rec[id].backend_complete /\ rec[id].result = "OK")
    <2>1. OnlyRecords(r)
      BY <1>3 DEF Disown
    <2> HIDE DEF r
    <2>2. QED
      BY <1>0, <1>1, <2>1, OnlyRecordsSection
  <1>4. CASE rec[id].state = "FAILED_GATED"
    <2>1. FinishRolledBack(t, rec, id)
      BY <1>4 DEF Disown
    <2>2. QED
      BY <1>0, <1>4, <2>1, FinishRolledBackSection
  <1>5. CASE rec[id].state \notin {"PENDING", "FAILED_GATED"}
    <2>1. OnlyRecords(rec)
      BY <1>5 DEF Disown
    <2>2. QED
      BY <1>0, <2>1, OnlyRecordsSection
  <1>6. QED
    BY <1>2, <1>3, <1>4, <1>5

-----------------------------------------------------------------------------
(* Steps of the specification, by kind.                                    *)

(* A step in which no owner starts a request and at most forgets one.      *)
OwnersMoveOn ==
    /\ OwnerType'
    /\ next_request' = next_request
    /\ \A o \in Owners : /\ cur'[o] \in {0, cur[o]}
                         /\ pc'[o] = "begin" => pc[o] = "begin"
                         /\ pc'[o] # "idle" => pc[o] # "idle" /\ cur'[o] = cur[o]

LEMMA SectionKeepsOwnerInv ==
    ASSUME IInv, SectionOK, OwnersMoveOn
    PROVE  OwnerInv' /\ OpeningInv' /\ OwedInv'
  <1> USE DEF IInv, OwnerInv, SectionOK, OwnersMoveOn
  <1>1. \A i \in Ids : Fresh(i) => Fresh(i)'
    BY DEF Fresh
  <1>2. \A i \in Ids : (i > next_request)' => Fresh(i)'
    BY <1>1
  <1>3. \A o \in Owners : cur'[o] <= next_request' /\ (pc'[o] # "idle" => cur'[o] \in Ids)
    BY DEF OwnerType
  <1>4. \A o \in Owners : pc'[o] = "begin" => cur'[o] \in Ids /\ cur'[o] = cur[o] /\ Fresh(cur[o])
    BY <1>3
  <1>5. \A o \in Owners : pc'[o] = "begin" => Fresh(cur[o])'
    BY <1>1, <1>4 DEF Fresh
  <1>6. \A o, p \in Owners : pc'[o] = "begin" /\ o # p => cur'[o] # cur'[p]
    BY <1>4, MaxRequestsAssumption DEF Ids
  <1>7. OpeningInv'
    BY DEF OpeningInv, LedgerInv, LedgerType
  <1>8. OwedInv'
    <2>1. /\ owed' \subseteq Ids /\ delta' \in Int /\ delta' <= 0 /\ next_request \in Nat
      BY DEF LedgerInv, LedgerType, OwnerType
    <2>2. \A e \in owed' : rec'[e].state \in {"FAILED_GATED", "FREE"} /\ \E i \in Ids : Carries(i, e)'
      BY <2>1 DEF OwedStep, OwedInv, Carries
    <2>3. \A e \in owed' : e \in owed \/ ~Fresh(e)
      BY DEF OwedStep, Fresh
    <2>4. \A e \in owed' : e <= next_request' /\ \A o \in Owners : pc'[o] = "begin" => cur'[o] # e
      BY <1>4, <2>1, <2>3, IdsFinite DEF OwedInv
    <2>5. QED
      BY <2>1, <2>2, <2>4 DEF OwedInv
  <1>9. QED
    BY <1>2, <1>3, <1>5, <1>6, <1>7, <1>8

LEMMA UnchangedLedger ==
    ASSUME LedgerInv, UNCHANGED ledgerVars
    PROVE  LedgerInv' /\ Unresolved' = Unresolved /\ \A i \in Ids : Fresh(i)' <=> Fresh(i)
  BY DEF LedgerInv, LedgerType, LockInv, CountMatchesLedger, GenerationCountsCommits,
         CommittedResolved, Unresolved, InState, ledgerVars, Fresh

(* Without a write to the ledger, the holder of the lock stays where it is *)
(* because every other owner's step needs the lock not to be its own.      *)
LEMMA UnchangedLedgerKeepsOwnerInv ==
    ASSUME IInv, UNCHANGED ledgerVars, OwnersMoveOn,
           \A o \in Owners : lock = o => pc'[o] = pc[o] /\ cur'[o] = cur[o]
    PROVE  LedgerInv' /\ OwnerInv' /\ OpeningInv' /\ OwedInv'
  <1> USE DEF IInv, OwnerInv, OwnersMoveOn
  <1>1. LedgerInv' /\ Unresolved' = Unresolved /\ \A i \in Ids : Fresh(i)' <=> Fresh(i)
    BY UnchangedLedger
  <1>2. \A i \in Ids : (i > next_request)' => Fresh(i)'
    BY <1>1
  <1>3. \A o \in Owners : cur'[o] <= next_request' /\ (pc'[o] # "idle" => cur'[o] \in Ids)
    BY DEF OwnerType
  <1>4. \A o \in Owners : pc'[o] = "begin" => cur'[o] \in Ids /\ cur'[o] = cur[o] /\ Fresh(cur[o])
    BY <1>3
  <1>5. \A o \in Owners : pc'[o] = "begin" => Fresh(cur[o])'
    BY <1>1, <1>4 DEF Fresh
  <1>6. \A o, p \in Owners : pc'[o] = "begin" /\ o # p => cur'[o] # cur'[p]
    BY <1>4, MaxRequestsAssumption DEF Ids
  <1>7. OpeningInv'
    BY <1>1 DEF OpeningInv, ledgerVars
  <1>8. OwedInv'
    BY <1>4 DEF OwedInv, Carries, ledgerVars
  <1>9. QED
    BY <1>1, <1>2, <1>3, <1>5, <1>6, <1>7, <1>8

LEMMA FrameUntouched ==
    ASSUME FrameInv, UNCHANGED <<frame, generation>>
    PROVE  FrameInv'
  BY DEF FrameInv

(* A section of an owner or of the backend, outside the frame's check.     *)
LEMMA SectionStep ==
    ASSUME IInv, SectionOK, OwnersMoveOn, UNCHANGED frame
    PROVE  IInv'
  <1>1. OwnerInv' /\ OpeningInv' /\ OwedInv'
    BY SectionKeepsOwnerInv
  <1>2. FrameInv'
    BY FrameUntouched DEF IInv, SectionOK
  <1>3. QED
    BY <1>1, <1>2 DEF IInv, SectionOK

(* A step of an owner that leaves the ledger alone.                        *)
LEMMA QuietStep ==
    ASSUME IInv, UNCHANGED ledgerVars, OwnersMoveOn, UNCHANGED frame,
           \A o \in Owners : lock = o => pc'[o] = pc[o] /\ cur'[o] = cur[o]
    PROVE  IInv'
  <1>1. LedgerInv' /\ OwnerInv' /\ OpeningInv' /\ OwedInv'
    BY UnchangedLedgerKeepsOwnerInv
  <1>2. FrameInv'
    BY FrameUntouched DEF IInv, ledgerVars
  <1>3. QED
    BY <1>1, <1>2 DEF IInv

LEMMA BeginStep ==
    ASSUME IInv, NEW o \in Owners, Begin(o)
    PROVE  IInv'
  <1> USE DEF IInv, LedgerInv, LedgerType
  <1>1. PICK victim \in Victims :
          LET inherit == \E v \in victim : rec[v].state = "FAILED_GATED"
              kept == [i \in Ids |-> IF i \in victim THEN FreeRecord ELSE rec[i]] IN
          /\ Runs(o)
          /\ pc[o] = "begin"
          /\ lock = "free"
          /\ rec' = [kept EXCEPT ![cur[o]] = NewRecord(inherit)]
          /\ IF inherit THEN LeaveAtomics ELSE Hold(o, 0, 1)
          /\ pc' = [pc EXCEPT ![o] = "submit"]
          /\ owed' = IF inherit /\ \E v \in victim : v > cur[o] THEN {e \in owed : kept[e].state # "FREE"} ELSE owed
          /\ UNCHANGED <<committed, next_request, cur, ret, staged, inflight, ownerActive, frame>>
    BY DEF Begin
  <1> DEFINE inherit == \E v \in victim : rec[v].state = "FAILED_GATED"
  <1>2. cur[o] \in Ids /\ rec[cur[o]].state = "FREE" /\ cur[o] \notin committed /\ adv = 0 /\ delta = 0
    BY <1>1 DEF OwnerInv, Fresh, LockInv
  <1>3. \/ victim = {}
        \/ \E v \in Ids : victim = {v} /\ rec[v].state \in {"FINISHED", "FAILED_GATED"}
    BY DEF Victims, Oldest, InState
  <1>4. inherit \in BOOLEAN
    OBVIOUS
  <1>5. rec' \in [Ids -> Record]
    BY <1>1, <1>2, <1>4 DEF NewRecord, FreeRecord, Record, RequestStates, Results, Terminal
  <1>6. /\ rec'[cur[o]].state = "PENDING"
        /\ \A i \in Ids : i # cur[o] => rec'[i].state = IF i \in victim THEN "FREE" ELSE rec[i].state
    BY <1>1, <1>2 DEF NewRecord, FreeRecord
  <1>6a. committed' = committed /\ owed' \subseteq Ids
    BY <1>1
  <1>7. ASSUME ~inherit
        PROVE  LedgerType' /\ LockInv' /\ CountMatchesLedger' /\ GenerationCountsCommits' /\ OpeningInv'
    <2>1. \A v \in victim : rec[v].state = "FINISHED"
      BY <1>3, <1>7
    <2>2. Unresolved' = Unresolved \cup {cur[o]} /\ cur[o] \notin Unresolved
      BY <1>2, <1>6, <2>1 DEF Unresolved, InState
    <2>3. Cardinality(Unresolved') = Cardinality(Unresolved) + 1
      BY <2>2, UnresolvedFinite, FS_AddElement
    <2>4. adv' = 0 /\ delta' = 1 /\ lock' = o /\ generation' = generation /\ count' = count
      BY <1>1, <1>7 DEF Hold
    <2>5. CountMatchesLedger' /\ GenerationCountsCommits'
      BY <1>1, <1>2, <2>3, <2>4, UnresolvedFinite DEF CountMatchesLedger, GenerationCountsCommits
    <2>6. LockInv'
      BY <2>4, OwnersAssumption DEF LockInv
    <2>7. LedgerType'
      BY <1>6a, <1>5, <2>4
    <2>8. OpeningInv'
      BY <1>1, <2>2, <2>4 DEF OpeningInv, OwnerInv, OwnerType
    <2>9. QED
      BY <2>4, <2>5, <2>6, <2>7, <2>8
  <1>8. ASSUME inherit
        PROVE  LedgerType' /\ LockInv' /\ CountMatchesLedger' /\ GenerationCountsCommits' /\ OpeningInv'
    <2>1. PICK v \in Ids : victim = {v} /\ rec[v].state = "FAILED_GATED"
      BY <1>3, <1>8
    <2>2. Unresolved' = (Unresolved \ {v}) \cup {cur[o]} /\ cur[o] \notin Unresolved /\ v \in Unresolved
      BY <1>2, <1>6, <2>1 DEF Unresolved, InState
    <2>3. Cardinality(Unresolved') = Cardinality(Unresolved)
      <3> DEFINE U == Unresolved \ {v}
      <3>1. IsFiniteSet(U) /\ Cardinality(U) = Cardinality(Unresolved) - 1
        BY <2>2, UnresolvedFinite, FS_RemoveElement
      <3>2. cur[o] \notin U
        BY <2>2
      <3> HIDE DEF U
      <3>3. Cardinality(U \cup {cur[o]}) = Cardinality(U) + 1
        BY <3>1, <3>2, FS_AddElement
      <3>4. QED
        BY <2>2, <3>1, <3>3, UnresolvedFinite DEF U
    <2>4. adv' = 0 /\ delta' = 0 /\ lock' = lock /\ generation' = generation /\ count' = count
      BY <1>1, <1>8 DEF LeaveAtomics
    <2>5. CountMatchesLedger' /\ GenerationCountsCommits'
      BY <1>1, <1>2, <2>3, <2>4, UnresolvedFinite DEF CountMatchesLedger, GenerationCountsCommits
    <2>6. LockInv'
      BY <1>1, <2>4 DEF LockInv
    <2>7. LedgerType'
      BY <1>6a, <1>5, <2>4
    <2>8. OpeningInv'
      BY <2>4 DEF OpeningInv
    <2>9. QED
      BY <2>4, <2>5, <2>6, <2>7, <2>8
  <1>9. LedgerType' /\ LockInv' /\ CountMatchesLedger' /\ GenerationCountsCommits' /\ OpeningInv'
        /\ generation' = generation
    <2>1. inherit => generation' = generation
      BY <1>1 DEF LeaveAtomics
    <2>2. ~inherit => generation' = generation
      BY <1>1 DEF Hold
    <2>3. QED
      BY <1>7, <1>8, <2>1, <2>2
  <1>10. CommittedResolved'
    BY <1>1, <1>2, <1>6 DEF CommittedResolved
  <1>11. OwnerInv'
    <2> USE DEF OwnerInv
    <2>1. OwnerType'
      BY <1>1 DEF OwnerType
    <2>2. cur[o] <= next_request
      OBVIOUS
    <2>3. \A i \in Ids : i # cur[o] => (Fresh(i) => Fresh(i)')
      BY <1>1, <1>6 DEF Fresh
    <2>4. \A i \in Ids : (i > next_request)' => Fresh(i)'
      BY <1>1, <1>2, <2>2, <2>3, IdsFinite DEF OwnerType
    <2>5. \A p \in Owners : p # o => pc'[p] = pc[p] /\ pc'[o] = "submit"
      BY <1>1 DEF OwnerType
    <2>6. \A p \in Owners : pc'[p] = "begin" => pc[p] = "begin" /\ p # o /\ cur[p] # cur[o] /\ cur[p] \in Ids
      BY <1>1, <2>5 DEF OwnerType
    <2>7. \A p \in Owners : pc'[p] = "begin" => Fresh(cur[p])'
      BY <1>1, <2>3, <2>6 DEF Fresh
    <2>8. \A p \in Owners : cur'[p] <= next_request' /\ (pc'[p] # "idle" => cur'[p] \in Ids)
      BY <1>1, <1>2, <2>5
    <2>9. \A p, q \in Owners : pc'[p] = "begin" /\ p # q => cur'[p] # cur'[q]
      BY <1>1, <2>6
    <2>10. QED
      BY <2>1, <2>4, <2>7, <2>8, <2>9
  <1>12. FrameInv'
    BY <1>1, <1>9, FrameUntouched
  <1>13. OwedInv'
    <2>1. rec'[cur[o]] = NewRecord(inherit) /\ \A i \in Ids \ {cur[o]} : i \notin victim => rec'[i] = rec[i]
      BY <1>1, <1>2
    <2>2. rec'[cur[o]].inherited = inherit /\ rec'[cur[o]].state = "PENDING"
      BY <1>4, <2>1 DEF NewRecord, FreeRecord
    <2>3. \A e \in owed : e \in Ids /\ e # cur[o] /\ \E i \in Ids : Carries(i, e)
      BY <1>1 DEF OwedInv
    <2>4. \A e \in owed' : /\ e \in owed /\ e # cur[o]
                          /\ e <= next_request' /\ \A p \in Owners : pc'[p] = "begin" => cur'[p] # e
      <3>1. \A p \in Owners : pc'[p] = "begin" => pc[p] = "begin"
        BY <1>1 DEF OwnerInv, OwnerType
      <3>2. QED
        BY <1>1, <2>3, <3>1 DEF OwedInv
    <2>5. \A e \in owed' : rec'[e].state \in {"FAILED_GATED", "FREE"}
      <3>1. \A e \in owed' : rec[e].state \in {"FAILED_GATED", "FREE"} /\ e \in Ids
        BY <2>3, <2>4 DEF OwedInv
      <3>2. QED
        BY <1>6, <2>4, <3>1
    <2>6. \A e \in owed' : \E i \in Ids : Carries(i, e)'
      <3>1. SUFFICES ASSUME NEW e \in owed' PROVE \E i \in Ids : Carries(i, e)'
        OBVIOUS
      <3>2. PICK i \in Ids : Carries(i, e)
        BY <2>3, <2>4
      <3>3. i # cur[o] /\ rec[i].state \in {"PENDING", "FAILED_GATED"} /\ (i = e \/ i > e) /\ e \in Ids
        BY <1>2, <2>3, <2>4, <3>2 DEF Carries
      <3>4. CASE i \notin victim
        <4>1. rec'[i] = rec[i]
          BY <2>1, <3>3, <3>4
        <4>2. QED
          BY <3>2, <4>1 DEF Carries
      <3>5. CASE i \in victim /\ i < cur[o]
        <4>1. inherit
          BY <1>3, <3>3, <3>5
        <4>2. cur[o] > e
          BY <1>2, <3>3, <3>5, IdsOrdered
        <4>3. QED
          BY <1>2, <2>2, <4>1, <4>2 DEF Carries
      <3>6. CASE i \in victim /\ i > cur[o]
        <4>1. inherit /\ victim = {i}
          BY <1>3, <3>3, <3>6
        <4>2. owed' = {d \in owed : [j \in Ids |-> IF j \in victim THEN FreeRecord ELSE rec[j]][d].state # "FREE"}
          BY <1>1, <3>6, <4>1
        <4>3. e \notin victim /\ rec[e].state # "FREE"
          BY <2>3, <2>4, <4>2 DEF FreeRecord
        <4>4. rec'[e] = rec[e] /\ rec[e].state = "FAILED_GATED" /\ e \in Ids
          BY <2>1, <2>3, <2>4, <4>3 DEF OwedInv
        <4>5. QED
          BY <4>4 DEF Carries
      <3>7. QED
        BY <1>2, <3>3, <3>4, <3>5, <3>6, IdsOrdered
    <2>7. delta' = 1 => \E i \in Ids : rec'[i].state = "PENDING" /\ ~rec'[i].inherited
      <3>1. inherit => delta' = 0
        BY <1>1 DEF LeaveAtomics
      <3>2. ~inherit => ~rec'[cur[o]].inherited
        BY <2>2
      <3> HIDE DEF inherit
      <3>3. QED
        BY <1>2, <2>2, <3>1, <3>2
    <2>8. QED
      BY <2>4, <2>5, <2>6, <2>7 DEF OwedInv
  <1>14. QED
    BY <1>9, <1>10, <1>11, <1>12, <1>13

LEMMA ApplyStep ==
    ASSUME IInv, LockStep
    PROVE  IInv'
  <1> USE DEF IInv, LedgerInv, LedgerType, LockInv
  <1>1. UNCHANGED <<rec, committed, owed, next_request, pc, cur, ret, staged, inflight, ownerActive, frame>>
    BY DEF LockStep, ApplyAdvance, ApplyCount, ownerVars
  <1>2. Unresolved' = Unresolved /\ Cardinality(Unresolved) \in Nat
    BY <1>1, UnresolvedFinite DEF Unresolved, InState
  <1>3. IsFiniteSet(committed) /\ Cardinality(committed) \in Nat
    BY IdsFinite, FS_Subset, FS_CardinalityType
  <1>4. ASSUME ApplyAdvance
        PROVE  LedgerType' /\ LockInv' /\ CountMatchesLedger' /\ GenerationCountsCommits'
               /\ delta' <= 0 /\ generation' >= generation
    <2>1. adv = 1 /\ adv' = 0 /\ delta < 0 /\ delta' = delta /\ lock' = lock /\ count' = count
          /\ generation' = generation + 1
      BY <1>4 DEF ApplyAdvance
    <2>2. QED
      BY <2>1, <1>1, <1>2, <1>3 DEF CountMatchesLedger, GenerationCountsCommits
  <1>5. ASSUME ApplyCount
        PROVE  LedgerType' /\ LockInv' /\ CountMatchesLedger' /\ GenerationCountsCommits'
               /\ delta' <= 0 /\ generation' >= generation
    <2>1. adv = 0 /\ adv' = 0 /\ generation' = generation /\ delta # 0
      BY <1>5 DEF ApplyCount
    <2>2. CASE delta > 0
      <3>1. delta = 1 /\ count' = count + 1 /\ delta' = 0 /\ lock' = "free"
        BY <1>5, <2>1, <2>2 DEF ApplyCount
      <3>2. QED
        BY <1>1, <1>2, <2>1, <3>1 DEF CountMatchesLedger, GenerationCountsCommits
    <2>3. CASE delta < 0
      <3>1. count' = count - 1 /\ delta' = delta + 1
            /\ lock' = IF delta = -1 THEN "free" ELSE lock
        BY <1>5, <2>1, <2>3 DEF ApplyCount
      <3>2. count > 0
        BY <1>2, <2>3 DEF CountMatchesLedger
      <3>3. QED
        BY <1>1, <1>2, <2>1, <2>3, <3>1, <3>2 DEF CountMatchesLedger, GenerationCountsCommits
    <2>4. QED
      BY <2>1, <2>2, <2>3
  <1>6. LedgerType' /\ LockInv' /\ CountMatchesLedger' /\ GenerationCountsCommits'
        /\ delta' <= 0 /\ generation' >= generation
    BY <1>4, <1>5 DEF LockStep
  <1>7. CommittedResolved'
    BY <1>1 DEF CommittedResolved
  <1>8. OwnerInv'
    BY <1>1 DEF OwnerInv, OwnerType, Fresh
  <1>9. OpeningInv'
    BY <1>6 DEF OpeningInv
  <1>10. FrameInv'
    <2>1. frame' = frame /\ generation' \in Nat /\ generation' >= generation /\ FrameInv
      BY <1>1, <1>6
    <2>2. frame \in Frames /\ frame.gen \in Nat
      BY DEF FrameInv, Frames
    <2>3. QED
      BY <2>1, <2>2 DEF FrameInv
  <1>11. OwedInv'
    BY <1>1, <1>6 DEF OwedInv, Carries
  <1>12. QED
    BY <1>6, <1>7, <1>8, <1>9, <1>10, <1>11

LEMMA ResetStep ==
    ASSUME IInv, Reset
    PROVE  IInv'
  <1> USE DEF IInv, LedgerInv, LedgerType
  <1>1. rec' = [i \in Ids |-> FreeRecord] /\ count' = 0 /\ owed' = {} /\ lock = "free"
        /\ UNCHANGED <<generation, lock, adv, delta, committed, next_request, pc, cur, ret, staged,
                       inflight, ownerActive, frame>>
    BY DEF Reset, ownerVars
  <1>2. adv = 0 /\ delta = 0
    BY <1>1 DEF LockInv
  <1>3. rec' \in [Ids -> Record] /\ \A i \in Ids : rec'[i].state = "FREE"
    BY <1>1 DEF FreeRecord, Record, RequestStates, Results, Terminal
  <1>4. Unresolved' = {}
    BY <1>3 DEF Unresolved, InState
  <1>5. CountMatchesLedger'
    BY <1>1, <1>2, <1>4, FS_EmptySet DEF CountMatchesLedger
  <1>6. GenerationCountsCommits' /\ LockInv' /\ LedgerType'
    BY <1>1, <1>3 DEF GenerationCountsCommits, LockInv
  <1>7. CommittedResolved'
    BY <1>1, <1>3 DEF CommittedResolved
  <1>8. OwnerInv'
    BY <1>1, <1>3 DEF OwnerInv, OwnerType, Fresh
  <1>9. OpeningInv'
    BY <1>1, <1>2 DEF OpeningInv
  <1>10. FrameInv'
    BY <1>1, FrameUntouched
  <1>11. OwedInv'
    BY <1>1, <1>2 DEF OwedInv
  <1>12. QED
    BY <1>5, <1>6, <1>7, <1>8, <1>9, <1>10, <1>11

LEMMA FetchIdStep ==
    ASSUME IInv, NEW o \in Owners, FetchId(o)
    PROVE  IInv'
  <1> USE DEF IInv
  <1>1. /\ UNCHANGED ledgerVars /\ UNCHANGED <<ret, staged, inflight, ownerActive, frame>>
        /\ lock # o /\ pc[o] = "idle" /\ next_request < MaxRequests
        /\ next_request' = next_request + 1
        /\ cur' = [cur EXCEPT ![o] = next_request + 1]
        /\ pc' = [pc EXCEPT ![o] = "begin"]
    BY DEF FetchId, Runs
  <1>2. LedgerInv' /\ Unresolved' = Unresolved /\ \A i \in Ids : Fresh(i)' <=> Fresh(i)
    BY <1>1, UnchangedLedger
  <1> USE DEF OwnerInv
  <1>3. OwnerType' /\ next_request + 1 \in Ids
    BY <1>1, MaxRequestsAssumption DEF OwnerType, Ids
  <1>4. \A p \in Owners : IF p = o THEN pc'[p] = "begin" /\ cur'[p] = next_request + 1
                          ELSE pc'[p] = pc[p] /\ cur'[p] = cur[p]
    BY <1>1 DEF OwnerType
  <1>5. \A i \in Ids : (i > next_request)' => Fresh(i)'
    BY <1>1, <1>2, <1>3, IdsFinite DEF OwnerType
  <1>6. \A p \in Owners : cur'[p] <= next_request' /\ (pc'[p] # "idle" => cur'[p] \in Ids)
    BY <1>1, <1>3, <1>4 DEF OwnerType
  <1>7. Fresh(next_request + 1)
    BY <1>3 DEF OwnerType
  <1>8. \A p \in Owners : pc'[p] = "begin" => cur'[p] \in Ids /\ Fresh(cur'[p])
    BY <1>1, <1>3, <1>4, <1>7
  <1>9. \A p \in Owners : (pc[p] = "begin" => Fresh(cur[p]))'
    BY <1>2, <1>8 DEF Fresh
  <1>10. \A p, q \in Owners : pc'[p] = "begin" /\ p # q => cur'[p] # cur'[q]
    BY <1>1, <1>4 DEF OwnerType
  <1>11. OpeningInv'
    BY <1>1, <1>2, <1>4 DEF OpeningInv, ledgerVars
  <1>12. FrameInv'
    BY <1>1, FrameUntouched DEF ledgerVars
  <1>13. OwedInv'
    <2>1. next_request \in Nat /\ owed \subseteq Nat /\ UNCHANGED <<rec, owed, delta>>
      BY <1>1, IdsFinite DEF OwnerType, LedgerInv, LedgerType, ledgerVars
    <2>2. \A e \in owed : e <= next_request' /\ \A p \in Owners : pc'[p] = "begin" => cur'[p] # e
      BY <1>1, <1>4, <2>1 DEF OwedInv
    <2>3. QED
      BY <2>1, <2>2 DEF OwedInv, Carries
  <1>14. QED
    BY <1>2, <1>3, <1>5, <1>6, <1>9, <1>10, <1>11, <1>12, <1>13

-----------------------------------------------------------------------------
(* The remaining steps of the owners, the backend and the decoder.         *)

LEMMA OwnerSectionSteps ==
    ASSUME IInv, NEW o \in Owners, NEW id \in Ids,
           SubmitHalf(o) \/ NoteResult(o) \/ Expire(o, id) \/ RollBack(o, id) \/ LetGo(o, id)
    PROVE  IInv' /\ Kept
  <1> USE DEF IInv
  <1>1. Caller(o) /\ LedgerInv /\ OwnerType
    BY DEF Caller, OwnerInv
  <1>2. ASSUME SubmitHalf(o) PROVE SectionOK /\ OwnersMoveOn /\ UNCHANGED frame
    <2>1. cur[o] \in Ids
      BY <1>2 DEF SubmitHalf, OwnerInv
    <2>2. SectionOK
      BY <1>1, <1>2, <2>1, PublishSection DEF SubmitHalf, Terminal
    <2>3. OwnersMoveOn
      BY <1>1, <1>2 DEF SubmitHalf, OwnersMoveOn, OwnerType, Results, Terminal
    <2>4. QED
      BY <1>2, <2>2, <2>3 DEF SubmitHalf
  <1>3. ASSUME NoteResult(o) PROVE SectionOK /\ OwnersMoveOn /\ UNCHANGED frame
    <2>1. cur[o] \in Ids /\ ret[o] \in Results
      BY <1>1, <1>3 DEF NoteResult, OwnerInv, OwnerType
    <2>2. ret[o] # "PENDING" => ret[o] \in Terminal
      BY <2>1 DEF Results
    <2>3. MarkReady(o, cur[o]) \/ (ret[o] # "PENDING" /\ Complete(o, cur[o], ret[o]))
      BY <1>3 DEF NoteResult
    <2>4. SectionOK
      BY <1>1, <2>1, <2>2, <2>3, MarkReadySection, CompleteSection
    <2>5. staged' \subseteq Ids
      BY <1>1, <1>3, <2>1 DEF NoteResult, OwnerType
    <2>6. OwnersMoveOn
      BY <1>1, <1>3, <2>5, MaxRequestsAssumption DEF NoteResult, OwnersMoveOn, OwnerType, Results, Terminal
    <2>7. QED
      BY <1>3, <2>4, <2>6 DEF NoteResult
  <1>4. ASSUME Expire(o, id) \/ RollBack(o, id) \/ LetGo(o, id)
        PROVE  SectionOK /\ OwnersMoveOn /\ UNCHANGED frame
    <2>1. Publish(o, id, "FAILED") \/ Complete(o, id, "FAILED") \/ Disown(o, id)
      BY <1>4 DEF Expire, RollBack, LetGo
    <2>2. "FAILED" \in Terminal
      BY DEF Terminal
    <2>3. SectionOK
      BY <1>1, <2>1, <2>2, PublishSection, CompleteSection, DisownSection
    <2>4. staged' \subseteq staged /\ OwnerRest
      BY <1>4 DEF Expire, RollBack, LetGo
    <2>5. QED
      BY <1>1, <2>3, <2>4 DEF OwnerRest, OwnersMoveOn, OwnerType
  <1>5. QED
    BY <1>2, <1>3, <1>4, SectionStep DEF SectionOK, Kept

LEMMA BackendStep ==
    ASSUME IInv, NEW id \in Ids, NEW result \in Terminal, BackendCompletes(id, result)
    PROVE  IInv' /\ Kept
  <1>1. SectionOK
    BY PublishSection DEF BackendCompletes, Caller, IInv
  <1>2. ret' \in [Owners -> Results]
    BY DEF BackendCompletes, IInv, OwnerInv, OwnerType, Results
  <1>3. OwnersMoveOn
    BY <1>2 DEF BackendCompletes, OwnersMoveOn, IInv, OwnerInv, OwnerType
  <1>4. QED
    BY <1>1, <1>3, SectionStep DEF BackendCompletes, SectionOK, Kept

LEMMA OwnerQuietSteps ==
    ASSUME IInv, NEW o \in Owners, NEW id \in Ids, NEW result \in Terminal,
           BeginRefused(o) \/ SubmitDirect(o, result) \/ SubmitTagged(o) \/ WaitEnds(o)
             \/ Drop(o, id)
    PROVE  IInv'
  <1>1. UNCHANGED ledgerVars /\ UNCHANGED frame
    BY DEF BeginRefused, SubmitDirect, SubmitTagged, WaitEnds, Drop, OwnerRest
  <1> USE DEF IInv, OwnerInv
  <1>2. ASSUME BeginRefused(o) \/ SubmitDirect(o, result) \/ WaitEnds(o)
        PROVE  OwnersMoveOn
    BY <1>2, MaxRequestsAssumption DEF BeginRefused, SubmitDirect, WaitEnds, OwnersMoveOn, OwnerType, Results
  <1>3. ASSUME SubmitTagged(o)
        PROVE  OwnersMoveOn
    <2>1. cur[o] \in Ids
      BY <1>3 DEF SubmitTagged
    <2>2. QED
      BY <1>3, <2>1 DEF SubmitTagged, OwnersMoveOn, OwnerType
  <1>4. ASSUME Drop(o, id)
        PROVE  OwnersMoveOn
    BY <1>4 DEF Drop, OwnerRest, OwnersMoveOn, OwnerType
  <1>5. OwnersMoveOn
    BY <1>2, <1>3, <1>4
  <1>6. \A p \in Owners : lock = p => pc'[p] = pc[p] /\ cur'[p] = cur[p]
    BY DEF BeginRefused, SubmitDirect, SubmitTagged, WaitEnds, Drop, Tracks, Runs, OwnerRest,
           OwnerType
  <1>7. QED
    BY <1>1, <1>5, <1>6, QuietStep

(* What the second look at the count sees: with the count at zero no write *)
(* of a completed tune is outstanding, and the only request that can be    *)
(* unresolved is one whose request_begin() has not returned.               *)
LEMMA CountZeroIsClear ==
    ASSUME IInv, count = 0
    PROVE  generation = 1 + Cardinality(committed) /\ Opened \cap Unresolved = {}
  <1> USE DEF IInv, LedgerInv, LedgerType
  <1>1. delta = Cardinality(Unresolved) /\ delta \in {0, 1} /\ adv = 0
    BY UnresolvedFinite DEF CountMatchesLedger, LockInv
  <1>2. generation = 1 + Cardinality(committed)
    BY <1>1 DEF GenerationCountsCommits
  <1>3. CASE delta = 0
    <2>1. Unresolved = {}
      BY <1>1, <1>3, UnresolvedFinite, FS_EmptySet
    <2>2. QED
      BY <1>2, <2>1
  <1>4. CASE delta = 1
    <2>1. PICK o \in Owners : lock = o /\ pc[o] = "submit" /\ cur[o] \in Unresolved
      BY <1>4 DEF OpeningInv
    <2>2. PICK x : Unresolved = {x}
      BY <1>1, <1>4, UnresolvedFinite, FS_Singleton
    <2>3. Unresolved = {cur[o]}
      BY <2>1, <2>2
    <2>4. cur[o] \notin Opened
      BY <2>1 DEF Opened
    <2>5. QED
      BY <1>2, <2>3, <2>4
  <1>5. QED
    BY <1>1, <1>3, <1>4

(* A check that ends keeps the frame's invariant: the frame is admitted    *)
(* only by a last read that still finds its generation.                    *)
LEMMA AfterCheckKeepsFrameInv ==
    ASSUME FrameInv, generation \in Nat, generation' = generation, frame.pc # "none",
           NEW ok \in BOOLEAN, frame' = AfterCheck(ok),
           ok => frame.pc = "gen2" /\ frame.gen = generation
    PROVE  FrameInv'
  <1>1. frame \in Frames /\ frame.gen <= generation
    BY DEF FrameInv
  <1>2. CASE frame.pass = 1
    <2>1. frame' = [frame EXCEPT !.pass = 2, !.pc = IF ok THEN "count1" ELSE "inspect"]
      BY <1>2 DEF AfterCheck
    <2>2. frame' \in Frames
      BY <1>1, <2>1 DEF Frames
    <2>3. frame'.pc \in {"count1", "inspect"} /\ frame'.gen = frame.gen
      BY <1>1, <2>1 DEF Frames
    <2>4. QED
      BY <1>1, <2>2, <2>3 DEF FrameInv
  <1>3. CASE frame.pass # 1 /\ ok
    <2>1. frame' = [frame EXCEPT !.pc = "admitted"] /\ frame.clear
      BY <1>1, <1>3 DEF AfterCheck, FrameInv, Frames
    <2>2. frame' \in Frames
      BY <1>1, <2>1 DEF Frames
    <2>3. frame'.pc = "admitted" /\ frame'.gen = frame.gen /\ frame'.clear = frame.clear
      BY <1>1, <2>1 DEF Frames
    <2>4. QED
      BY <1>1, <2>1, <2>2, <2>3 DEF FrameInv
  <1>4. CASE frame.pass # 1 /\ ~ok
    <2>1. frame' = NoFrame
      BY <1>4 DEF AfterCheck
    <2>2. frame' \in Frames /\ frame'.pc = "none"
      BY <2>1, MaxRequestsAssumption DEF Frames, NoFrame
    <2>3. QED
      BY <2>2 DEF FrameInv
  <1>5. QED
    BY <1>2, <1>3, <1>4

LEMMA FrameReadSteps ==
    ASSUME IInv,
           Capture \/ CheckBegins \/ Dispatch \/ ReadCount1 \/ ReadGeneration1 \/ ReadCount2
             \/ ReadGeneration2 \/ Inspect \/ InspectStatus
    PROVE  IInv'
  <1>1. FrameRest
    BY DEF Capture, CheckBegins, Dispatch, ReadCount1, ReadGeneration1, ReadCount2,
           ReadGeneration2, Inspect, InspectStatus
  <1>2. LedgerInv' /\ OwnerInv' /\ OpeningInv' /\ OwedInv'
    <2>1. UNCHANGED ledgerVars /\ OwnersMoveOn
      BY <1>1 DEF FrameRest, OwnersMoveOn, ownerVars, IInv, OwnerInv, OwnerType
    <2>2. \A o \in Owners : lock = o => pc'[o] = pc[o] /\ cur'[o] = cur[o]
      BY <1>1 DEF FrameRest, ownerVars
    <2>3. QED
      BY <2>1, <2>2, UnchangedLedgerKeepsOwnerInv
  <1>3. generation' = generation /\ generation \in Nat /\ FrameInv /\ frame \in Frames
    BY <1>1 DEF FrameRest, ledgerVars, IInv, LedgerInv, LedgerType, FrameInv
  <1>4. SUFFICES FrameInv'
    BY <1>2 DEF IInv
  <1>5. CASE Capture
    <2>1. frame' \in Frames
      BY <1>3, <1>5 DEF Capture, Frames
    <2>2. frame'.pc = "captured" /\ frame'.gen = generation
      BY <1>3, <1>5 DEF Capture, Frames
    <2>3. QED
      BY <1>3, <2>1, <2>2 DEF FrameInv
  <1>6. CASE CheckBegins
    <2>1. frame' \in Frames
      BY <1>3, <1>6 DEF CheckBegins, Frames
    <2>2. frame'.pc = "count1" /\ frame'.gen = frame.gen /\ frame.pc = "captured"
      BY <1>3, <1>6 DEF CheckBegins, Frames
    <2>3. QED
      BY <1>3, <2>1, <2>2 DEF FrameInv
  <1>7. CASE Dispatch
    <2>1. frame' \in Frames /\ frame'.pc = "none"
      BY <1>7, MaxRequestsAssumption DEF Dispatch, NoFrame, Frames
    <2>2. QED
      BY <2>1 DEF FrameInv
  <1>8. CASE ReadCount1 \/ ReadGeneration1
    <2>1. CASE frame' = AfterCheck(FALSE) /\ frame.pc # "none"
      BY <1>3, <2>1, AfterCheckKeepsFrameInv
    <2>2. CASE \E next \in {"gen1", "count2"} : frame' = [frame EXCEPT !.pc = next] /\ frame.pc # "none"
      <3>1. PICK next \in {"gen1", "count2"} : frame' = [frame EXCEPT !.pc = next] /\ frame.pc # "none"
        BY <2>2
      <3>2. frame' \in Frames
        BY <1>3, <3>1 DEF Frames
      <3>3. frame'.pc = next /\ frame'.gen = frame.gen
        BY <1>3, <3>1 DEF Frames
      <3>4. QED
        BY <1>3, <3>1, <3>2, <3>3 DEF FrameInv
    <2>3. QED
      BY <1>8, <2>1, <2>2 DEF ReadCount1, ReadGeneration1
  <1>9. CASE ReadCount2
    <2>1. CASE count # 0
      BY <1>3, <1>9, <2>1, AfterCheckKeepsFrameInv DEF ReadCount2
    <2>2. CASE count = 0
      <3>1. generation = 1 + Cardinality(committed) /\ Opened \cap Unresolved = {}
        BY <2>2, CountZeroIsClear
      <3>2. frame.pc = "count2"
            /\ frame' = [frame EXCEPT !.pc = "gen2", !.clear = (frame.gen = generation)]
        BY <1>9, <2>2, <3>1 DEF ReadCount2
      <3>3. frame' \in Frames
        BY <1>3, <3>2 DEF Frames
      <3>4. frame'.pc = "gen2" /\ frame'.gen = frame.gen
        BY <1>3, <3>2 DEF Frames
      <3>5. frame'.clear <=> frame.gen = generation
        BY <1>3, <3>2 DEF Frames
      <3>6. frame.gen <= generation /\ frame.gen \in Nat
        BY <1>3, <3>2 DEF FrameInv, Frames
      <3>7. QED
        BY <1>3, <3>3, <3>4, <3>5, <3>6 DEF FrameInv
    <2>3. QED
      BY <2>1, <2>2
  <1>10. CASE ReadGeneration2
    <2>1. (frame.gen = generation) \in BOOLEAN
      OBVIOUS
    <2>2. QED
      BY <1>3, <1>10, <2>1, AfterCheckKeepsFrameInv DEF ReadGeneration2
  <1>11. CASE Inspect
    <2>1. \A newest \in Unresolved : newest \in 0 .. MaxRequests /\ newest # 0
      BY UnresolvedFinite, MaxRequestsAssumption DEF Ids
    <2>2. frame.pc = "inspect"
      BY <1>11 DEF Inspect
    <2>3. CASE frame' = [frame EXCEPT !.pc = "count1"]
      <3>1. frame' \in Frames
        BY <1>3, <2>3 DEF Frames
      <3>2. frame'.pc = "count1" /\ frame'.gen = frame.gen
        BY <1>3, <2>3 DEF Frames
      <3>3. QED
        BY <1>3, <2>2, <3>1, <3>2 DEF FrameInv
    <2>4. CASE \E newest \in Unresolved : frame' = [frame EXCEPT !.pc = "status", !.upto = newest]
      <3>1. PICK newest \in Unresolved : frame' = [frame EXCEPT !.pc = "status", !.upto = newest]
        BY <2>4
      <3>2. frame' \in Frames
        BY <1>3, <2>1, <3>1 DEF Frames
      <3>3. frame'.pc = "status" /\ frame'.gen = frame.gen /\ frame'.upto = newest
        BY <1>3, <3>1 DEF Frames
      <3>4. QED
        BY <1>3, <2>1, <2>2, <3>2, <3>3 DEF FrameInv
    <2>5. QED
      BY <1>11, <2>3, <2>4 DEF Inspect
  <1>12. CASE InspectStatus
    <2>1. frame.pc = "status" /\ frame.upto \in 1 .. MaxRequests
      BY <1>3, <1>12, MaxRequestsAssumption DEF InspectStatus, FrameInv, Frames
    <2> DEFINE upto == IF Status(frame.upto) = "PENDING" THEN frame.upto - 1 ELSE frame.upto
    <2>2a. frame' = [frame EXCEPT !.pc = "retire", !.upto = upto]
      BY <1>12 DEF InspectStatus
    <2>2b. upto \in 0 .. MaxRequests
      BY <2>1, MaxRequestsAssumption
    <2> HIDE DEF upto
    <2>2. frame' = [frame EXCEPT !.pc = "retire", !.upto = upto] /\ upto \in 0 .. MaxRequests
      BY <2>2a, <2>2b
    <2>3. frame' \in Frames
      BY <1>3, <2>2 DEF Frames
    <2>4. frame'.pc = "retire" /\ frame'.gen = frame.gen
      BY <1>3, <2>2 DEF Frames
    <2>5. QED
      BY <1>3, <2>1, <2>3, <2>4 DEF FrameInv
  <1>13. QED
    BY <1>5, <1>6, <1>7, <1>8, <1>9, <1>10, <1>11, <1>12

LEMMA RetireStep ==
    ASSUME IInv, RetireThrough
    PROVE  IInv' /\ Kept
  <1> DEFINE retired == {i \in InState(rec, "FAILED_GATED") : i <= frame.upto}
  <1> USE DEF IInv
  <1>1. UNCHANGED <<next_request, pc, cur, ret, staged, inflight, ownerActive>>
        /\ frame' = [frame EXCEPT !.pc = "count1", !.upto = 0]
    BY DEF RetireThrough, ownerVars
  <1>2. OwnersMoveOn
    BY <1>1 DEF OwnersMoveOn, OwnerInv, OwnerType
  <1>3. ASSUME generation' = generation PROVE FrameInv'
    <2>1. frame \in Frames /\ frame.pc = "retire"
      BY DEF FrameInv, RetireThrough
    <2>2. frame' \in Frames
      <3>1. 0 \in 0 .. MaxRequests
        BY MaxRequestsAssumption
      <3>2. frame' = [frame EXCEPT !.pc = "count1", !.upto = 0]
        BY <1>1
      <3>3. QED
        BY <2>1, <3>1, <3>2 DEF Frames
    <2>3. frame'.pc = "count1" /\ frame'.gen = frame.gen
      BY <1>1, <2>1 DEF Frames
    <2>4. QED
      BY <1>3, <2>1, <2>2, <2>3 DEF FrameInv
  <1>4. CASE UNCHANGED ledgerVars
    <2>1. LedgerInv' /\ OwnerInv' /\ OpeningInv' /\ OwedInv'
      BY <1>1, <1>2, <1>4, UnchangedLedgerKeepsOwnerInv
    <2>2. QED
      BY <1>3, <1>4, <2>1 DEF ledgerVars, Kept
  <1>5. CASE lock = "free" /\ rec' = Mark(rec, retired, "FINISHED") /\ owed' = {e \in owed : e > frame.upto}
             /\ committed' = committed
             /\ IF retired = {} THEN LeaveAtomics ELSE Hold(Decoder, 0, -Cardinality(retired))
    <2>1. SectionOK
      <3>1. retired \subseteq Unresolved /\ Caller(Decoder)
        BY OwnersAssumption DEF Unresolved, InState, Caller
      <3>2. rec \in [Ids -> Record] /\ owed' \subseteq Ids /\ \A i \in Ids : rec[i].state = rec[i].state /\ rec[i].inherited = rec[i].inherited
        BY <1>5 DEF LedgerInv, LedgerType
      <3>3. retired = {} => rec' = rec
        BY <1>5, <3>2 DEF Mark
      <3>4. OwedStep
        <4>1. \A i \in Ids : i > frame.upto => i \notin retired
          BY IdsFinite DEF FrameInv, Frames
        <4>2. \A i \in Ids : i > frame.upto => rec'[i] = rec[i]
          BY <1>5, <4>1 DEF Mark
        <4>3. \A e \in owed' : e \in owed /\ e \in Ids /\ e > frame.upto
          BY <1>5, <3>2
        <4>4. frame.upto \in Nat
          BY MaxRequestsAssumption DEF FrameInv, Frames
        <4>5. \A e \in owed', i \in Ids : i = e \/ i > e => i > frame.upto
          BY <4>3, <4>4, IdsOrdered
        <4>6. \A e \in owed', i \in Ids : Carries(i, e) => Carries(i, e)'
          BY <4>2, <4>5 DEF Carries
        <4>7. QED
          BY <4>2, <4>3, <4>6 DEF OwedStep
      <3> HIDE DEF retired
      <3>5. CASE retired = {}
        BY <1>5, <3>1, <3>2, <3>3, <3>4, <3>5, QuietSection
      <3>6. CASE retired # {}
        BY <1>5, <3>1, <3>2, <3>4, <3>6, ReleaseSection
      <3>7. QED
        BY <3>5, <3>6
    <2>2. OwnerInv' /\ OpeningInv' /\ OwedInv'
      BY <1>2, <2>1, SectionKeepsOwnerInv
    <2>3. QED
      BY <1>3, <2>1, <2>2 DEF SectionOK, Kept
  <1>6. QED
    BY <1>4, <1>5 DEF RetireThrough

-----------------------------------------------------------------------------
LEMMA InitIInv == Init => IInv
  <1> SUFFICES ASSUME Init PROVE IInv
    OBVIOUS
  <1> USE DEF Init
  <1>1. rec \in [Ids -> Record] /\ \A i \in Ids : rec[i].state = "FREE"
    BY DEF FreeRecord, Record, RequestStates, Results, Terminal
  <1>2. Unresolved = {}
    BY <1>1 DEF Unresolved, InState
  <1>3. CountMatchesLedger /\ GenerationCountsCommits
    BY <1>2, FS_EmptySet DEF CountMatchesLedger, GenerationCountsCommits
  <1>4. LedgerInv
    BY <1>1, <1>3 DEF LedgerInv, LedgerType, LockInv, CommittedResolved
  <1>5. OwnerInv
    BY <1>1, MaxRequestsAssumption DEF OwnerInv, OwnerType, Fresh, Results
  <1>6. OpeningInv
    BY DEF OpeningInv
  <1>7. FrameInv
    <2>1. frame \in Frames /\ frame.pc = "none"
      BY MaxRequestsAssumption DEF NoFrame, Frames
    <2>2. QED
      BY <2>1 DEF FrameInv
  <1>8. OwedInv
    BY DEF OwedInv
  <1>9. QED
    BY <1>4, <1>5, <1>6, <1>7, <1>8 DEF IInv

LEMMA StutterIInv == ASSUME IInv, UNCHANGED vars PROVE IInv'
  <1>1. UNCHANGED ledgerVars /\ OwnersMoveOn /\ UNCHANGED frame
    BY DEF vars, ownerVars, OwnersMoveOn, IInv, OwnerInv, OwnerType
  <1>2. \A o \in Owners : lock = o => pc'[o] = pc[o] /\ cur'[o] = cur[o]
    BY DEF vars, ownerVars
  <1>3. QED
    BY <1>1, <1>2, QuietStep

LEMMA NextIInv == IInv /\ [Next]_vars => IInv'
  <1> SUFFICES ASSUME IInv, [Next]_vars PROVE IInv'
    OBVIOUS
  <1>1. ASSUME NEW o \in Owners, OwnerStep(o) PROVE IInv'
    <2>1. CASE FetchId(o) \/ Begin(o)
      BY <2>1, FetchIdStep, BeginStep
    <2>2. CASE BeginRefused(o) \/ SubmitHalf(o) \/ SubmitTagged(o) \/ WaitEnds(o) \/ NoteResult(o)
      <3>1. pc[o] # "idle"
        BY <2>2 DEF BeginRefused, SubmitHalf, SubmitTagged, WaitEnds, NoteResult
      <3>2. cur[o] \in Ids /\ "OK" \in Terminal
        BY <3>1 DEF IInv, OwnerInv, Terminal
      <3>3. QED
        BY <2>2, <3>2, OwnerSectionSteps, OwnerQuietSteps
    <2>3. CASE \E result \in Terminal : SubmitDirect(o, result)
      <3>1. PICK result \in Terminal : SubmitDirect(o, result)
        BY <2>3
      <3>2. cur[o] \in Ids
        BY <3>1 DEF SubmitDirect, IInv, OwnerInv
      <3>3. QED
        BY <3>1, <3>2, OwnerQuietSteps
    <2>4. ASSUME NEW id \in Ids, Expire(o, id) \/ RollBack(o, id) \/ Drop(o, id) \/ LetGo(o, id)
          PROVE  IInv'
      <3>1. "OK" \in Terminal
        BY DEF Terminal
      <3>2. QED
        BY <2>4, <3>1, OwnerSectionSteps, OwnerQuietSteps
    <2>5. QED
      BY <1>1, <2>1, <2>2, <2>3, <2>4 DEF OwnerStep
  <1>2. ASSUME NEW id \in Ids, NEW result \in Terminal, BackendCompletes(id, result) PROVE IInv'
    BY <1>2, BackendStep
  <1>3. CASE ToggleOwner
    <2>1. UNCHANGED ledgerVars /\ OwnersMoveOn /\ UNCHANGED frame
          /\ \A o \in Owners : lock = o => pc'[o] = pc[o] /\ cur'[o] = cur[o]
      BY <1>3 DEF ToggleOwner, ownerVars, OwnersMoveOn, IInv, OwnerInv, OwnerType
    <2>2. QED
      BY <2>1, QuietStep
  <1>4. CASE FrameStep
    BY <1>4, FrameReadSteps, RetireStep DEF FrameStep
  <1>5. CASE UNCHANGED vars
    BY <1>5, StutterIInv
  <1>6. QED
    BY <1>1, <1>2, <1>3, <1>4, <1>5, ApplyStep, ResetStep DEF Next

(* IInv is an inductive invariant of the ledger, its owners and the frame. *)
THEOREM InductiveInvariant == Spec => []IInv
  BY InitIInv, NextIInv, PTL DEF Spec

(* Every variable keeps its type whatever the number of owner threads, the *)
(* length of the history and the number of requests; in particular the     *)
(* unresolved count of trunk_tuning_hooks.c never goes below zero.         *)
THEOREM TypeCorrect == Spec => []TypeOK
  <1>1. IInv => TypeOK
    BY DEF IInv, LedgerInv, LedgerType, OwnerInv, OwnerType, FrameInv, TypeOK
  <1>2. QED
    BY <1>1, InductiveInvariant, PTL

(* The unresolved count, with what the lock holder still has to write, is  *)
(* the number of unresolved records.                                       *)
THEOREM CountCorrect == Spec => []CountMatchesLedger
  <1>1. IInv => CountMatchesLedger
    BY DEF IInv, LedgerInv
  <1>2. QED
    BY <1>1, InductiveInvariant, PTL

(* The generation counts the tunes that completed, each exactly once.      *)
THEOREM GenerationCorrect == Spec => []GenerationCountsCommits
  <1>1. IInv => GenerationCountsCommits
    BY DEF IInv, LedgerInv
  <1>2. QED
    BY <1>1, InductiveInvariant, PTL

(* The lock-free check of frame_is_current() never admits a frame that a   *)
(* tune has made stale.                                                    *)
THEOREM FrameGateSound == Spec => []DispatchedFrameIsCurrent
  <1>1. IInv => DispatchedFrameIsCurrent
    BY DEF IInv, FrameInv, DispatchedFrameIsCurrent
  <1>2. QED
    BY <1>1, InductiveInvariant, PTL

(* A failure that nothing has rolled back, retired or replaced keeps the   *)
(* frame gate of trunk_tuning_hooks.c closed: its gate outlives the record *)
(* in the bounded history, handed from heir to heir.                       *)
THEOREM FailureKeepsGate == Spec => []UnrecoveredFailureKeepsGate
  <1>1. IInv => UnrecoveredFailureKeepsGate
    <2> USE DEF IInv, LedgerInv, LedgerType
    <2> SUFFICES ASSUME IInv, NEW e \in owed PROVE count > 0
      BY DEF UnrecoveredFailureKeepsGate
    <2>2. PICK i \in Ids : Carries(i, e)
      BY DEF OwedInv
    <2>3. i \in Unresolved /\ ~(rec[i].state = "PENDING" /\ ~rec[i].inherited)
      BY <2>2 DEF Carries, Unresolved, InState
    <2>4. count + delta = Cardinality(Unresolved) /\ delta <= 1
      BY DEF CountMatchesLedger, LockInv
    <2>5. Cardinality(Unresolved) > 0
      BY <2>3, UnresolvedFinite, FS_EmptySet
    <2>6. CASE delta <= 0
      BY <2>4, <2>5, <2>6, UnresolvedFinite
    <2>7. CASE delta = 1
      <3>1. PICK j \in Ids : rec[j].state = "PENDING" /\ ~rec[j].inherited
        BY <2>7 DEF OwedInv
      <3>2. j \in Unresolved /\ j # i
        BY <2>3, <3>1 DEF Unresolved, InState
      <3>3. Cardinality(Unresolved) # 1
        BY <2>3, <3>2, UnresolvedFinite, FS_Singleton
      <3>4. QED
        BY <2>4, <2>5, <2>7, <3>3, UnresolvedFinite
    <2>8. QED
      BY <2>4, <2>6, <2>7
  <1>2. QED
    BY <1>1, InductiveInvariant, PTL

(* A record once finished is finished or given up after the step.          *)
LEMMA NextKeeps == IInv /\ [Next]_vars => Kept
  <1> SUFFICES ASSUME IInv, [Next]_vars PROVE Kept
    OBVIOUS
  <1>1. ASSUME UNCHANGED rec PROVE Kept
    BY <1>1 DEF Kept
  <1>2. ASSUME NEW o \in Owners, Begin(o) PROVE Kept
    <2>1. cur[o] \in Ids /\ rec[cur[o]].state = "FREE"
      BY <1>2 DEF Begin, IInv, OwnerInv, Fresh
    <2>2. \A i \in Ids : i # cur[o] => rec'[i] \in {FreeRecord, rec[i]}
      BY <1>2, <2>1 DEF Begin
    <2>3. QED
      BY <2>1, <2>2 DEF Kept, FreeRecord
  <1>3. CASE Reset
    BY <1>3 DEF Reset, Kept, FreeRecord
  <1>4. ASSUME NEW o \in Owners, OwnerStep(o) PROVE Kept
    <2>1. CASE FetchId(o) \/ BeginRefused(o) \/ SubmitTagged(o) \/ WaitEnds(o)
      BY <1>1, <2>1 DEF FetchId, BeginRefused, SubmitTagged, WaitEnds, ledgerVars
    <2>2. ASSUME NEW result \in Terminal, SubmitDirect(o, result) PROVE Kept
      BY <1>1, <2>2 DEF SubmitDirect, ledgerVars
    <2>3. ASSUME NEW id \in Ids, Drop(o, id) PROVE Kept
      BY <1>1, <2>3 DEF Drop, ledgerVars
    <2>4. ASSUME NEW id \in Ids, Expire(o, id) \/ RollBack(o, id) \/ LetGo(o, id) PROVE Kept
      BY <2>4, OwnerSectionSteps
    <2>5. CASE SubmitHalf(o) \/ NoteResult(o)
      <3>1. cur[o] \in Ids
        BY <2>5 DEF SubmitHalf, NoteResult, IInv, OwnerInv
      <3>2. QED
        BY <2>5, <3>1, OwnerSectionSteps
    <2>6. QED
      BY <1>2, <1>4, <2>1, <2>2, <2>3, <2>4, <2>5 DEF OwnerStep
  <1>5. ASSUME NEW id \in Ids, NEW result \in Terminal, BackendCompletes(id, result) PROVE Kept
    BY <1>5, BackendStep
  <1>6. CASE LockStep \/ ToggleOwner
    BY <1>1, <1>6 DEF LockStep, ApplyAdvance, ApplyCount, ToggleOwner, ledgerVars
  <1>7. CASE FrameStep
    <2>1. CASE RetireThrough
      BY <2>1, RetireStep
    <2>2. CASE ~RetireThrough
      <3>1. FrameRest
        BY <1>7, <2>2 DEF FrameStep, Capture, CheckBegins, Dispatch, ReadCount1, ReadGeneration1,
                          ReadCount2, ReadGeneration2, Inspect, InspectStatus
      <3>2. QED
        BY <1>1, <3>1 DEF FrameRest, ledgerVars
    <2>3. QED
      BY <2>1, <2>2
  <1>8. CASE UNCHANGED vars
    BY <1>1, <1>8 DEF vars, ledgerVars
  <1>9. QED
    BY <1>3, <1>4, <1>5, <1>6, <1>7, <1>8 DEF Next

(* ResolvedStaysResolved: no late completion, expiry, rollback or disowning *)
(* revives a request that trunk_tuning_hooks.c has finished.                *)
THEOREM ResolvedForGood == Spec => ResolvedStaysResolved
  <1>1. IInv /\ [Next]_vars =>
          [\A id \in Ids : rec[id].state = "FINISHED" => rec'[id].state \in {"FINISHED", "FREE"}]_rec
    BY NextKeeps DEF Kept
  <1>2. QED
    BY <1>1, InductiveInvariant, PTL DEF Spec, ResolvedStaysResolved

=============================================================================
