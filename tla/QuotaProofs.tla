---------------------------- MODULE QuotaProofs ----------------------------
(***************************************************************************)
(* Proofs about Quota, for any number of rules, groups, jobs and units, any *)
(* limits and any faults.                                                  *)
(***************************************************************************)
EXTENDS Quota, FiniteSetTheorems, TLAPS

USE QuotaFinite, QuotaNoGroup, QuotaLimits, QuotaRules DEF NoLimit

---------------------------------------------------------------------------
(* Type correctness.                                                       *)

LEMMA IdleType == Idle \in JobRecords
<1>1. AnyRule \in Rules
  BY DEF AnyRule
<1> QED BY <1>1 DEF Idle, JobRecords, Phases

LEMMA ClampedType == ASSUME NEW v \in Entered PROVE Clamped(SizeBytes(v)) \in Nat
BY DEF Clamped, SizeBytes

LEMMA SetCard == ASSUME NEW S \in SUBSET Units
                 PROVE  IsFiniteSet(S) /\ Cardinality(S) \in Nat
BY FS_Subset, FS_CardinalityType

LEMMA CardMono == ASSUME NEW S \in SUBSET Units, NEW T \in SUBSET S
                  PROVE  Cardinality(T) \in Nat /\ Cardinality(S) \in Nat
                         /\ Cardinality(T) <= Cardinality(S)
BY SetCard, FS_Subset

LEMMA CardSum == ASSUME NEW S \in SUBSET Units, NEW T \in SUBSET Units
                 PROVE  Cardinality(S \cup T) <= Cardinality(S) + Cardinality(T)
<1>1. /\ Cardinality(S) \in Nat /\ Cardinality(T) \in Nat
      /\ Cardinality(S \cup T) \in Nat /\ Cardinality(S \cap T) \in Nat
  BY SetCard
<1>2. IsFiniteSet(S) /\ IsFiniteSet(T)
  BY SetCard
<1>3. Cardinality(S \cup T) = Cardinality(S) + Cardinality(T) - Cardinality(S \cap T)
  BY <1>2, FS_Union
<1> QED BY <1>1, <1>3

LEMMA LimitType == ASSUME TypeOK, NEW r \in Rules, NEW g \in Groups \cup {NoGroup}
                   PROVE  LimitOf(r, g) \in Nat
BY DEF TypeOK, LimitOf

LEMMA ScopeSet == \A A : UnitsOf(A) \in SUBSET Units
BY DEF UnitsOf

\* A record with another value in one field.
LEMMA FieldTypes ==
  ASSUME NEW rec \in JobRecords
  PROVE  /\ \A p \in Phases : [rec EXCEPT !.phase = p] \in JobRecords
         /\ \A n \in Nat : /\ [rec EXCEPT !.ended = n] \in JobRecords
                           /\ [rec EXCEPT !.limit = n] \in JobRecords
         /\ \A B \in SUBSET Units : [rec EXCEPT !.claim = B] \in JobRecords
         /\ \A b \in BOOLEAN : /\ [rec EXCEPT !.blind = b] \in JobRecords
                               /\ [rec EXCEPT !.missed = b] \in JobRecords
BY DEF JobRecords

LEMMA JobType ==
  ASSUME TypeOK, NEW j \in Jobs
  PROVE  /\ job[j] \in JobRecords
         /\ job[j].rule \in Rules /\ job[j].group \in Groups \cup {NoGroup}
         /\ job[j].limit \in Nat /\ job[j].ended \in Nat /\ job[j].claim \in SUBSET Units
         /\ job[j].blind \in BOOLEAN /\ job[j].missed \in BOOLEAN
BY DEF TypeOK, JobRecords

LEMMA PhaseType ==
  /\ {"idle", "limit", "ended1", "inflight1", "claim", "ended2", "inflight2"} \subseteq Phases
  /\ {"refused", "running", "closed"} \subseteq Phases
BY DEF Phases, Before, Between

\* A step that changes one goroutine.
LEMMA OneJobType ==
  ASSUME TypeOK, NEW j \in Jobs, NEW rec \in JobRecords, job' = [job EXCEPT ![j] = rec]
  PROVE  job' \in [Jobs -> JobRecords]
BY DEF TypeOK

LEMMA GotoType ==
  ASSUME TypeOK, NEW j \in Jobs, NEW phase \in Phases, Goto(j, phase)
  PROVE  job' \in [Jobs -> JobRecords]
<1>1. [[job[j] EXCEPT !.phase = phase] EXCEPT !.ended = 0] \in JobRecords
  <2>1. [job[j] EXCEPT !.phase = phase] \in JobRecords
    BY JobType, FieldTypes
  <2> QED BY <2>1, FieldTypes
<1>2. job' = [job EXCEPT ![j] = [[job[j] EXCEPT !.phase = phase] EXCEPT !.ended = 0]]
  BY DEF Goto, TypeOK
<1> QED BY <1>1, <1>2, OneJobType

LEMMA ReturnType ==
  ASSUME TypeOK, NEW j \in Jobs, Return(j)
  PROVE  job' \in [Jobs -> JobRecords]
BY IdleType, OneJobType DEF Return

LEMMA StartType ==
  ASSUME TypeOK, NEW j \in Jobs, NEW b \in BOOLEAN, Start(j, b)
  PROVE  job' \in [Jobs -> JobRecords]
<1>1. [Idle EXCEPT !.phase = "running", !.blind = b, !.rule = job[j].rule, !.claim = job[j].claim] \in JobRecords
  BY IdleType, JobType, PhaseType DEF JobRecords
<1> QED BY <1>1, OneJobType DEF Start

LEMMA BlindedType == ASSUME TypeOK PROVE Blinded \in [Jobs -> JobRecords]
<1> SUFFICES ASSUME NEW j \in Jobs PROVE [job[j] EXCEPT !.blind = TRUE] \in JobRecords
  BY DEF Blinded, TypeOK
<1> QED BY JobType, FieldTypes

LEMMA TypeInit == Init => TypeOK
BY IdleType, ClampedType DEF Init, TypeOK, NotSaving

LEMMA TypeStep == TypeOK /\ [Next]_vars => TypeOK'
<1> SUFFICES ASSUME TypeOK, [Next]_vars PROVE TypeOK'
  OBVIOUS
<1>1. ASSUME NEW j \in Jobs, ReadLimit(j) PROVE TypeOK'
  <2> DEFINE l == LimitOf(job[j].rule, job[j].group)
  <2>1. l \in Nat
    BY LimitType DEF TypeOK, JobRecords
  <2> HIDE DEF l
  <2>2. [[job[j] EXCEPT !.limit = l] EXCEPT !.phase = IF l > 0 THEN "ended1" ELSE "claim"] \in JobRecords
    <3>1. [job[j] EXCEPT !.limit = l] \in JobRecords
      BY <2>1, JobType, FieldTypes
    <3>2. (IF l > 0 THEN "ended1" ELSE "claim") \in Phases
      BY PhaseType
    <3> QED BY <3>1, <3>2, FieldTypes
  <2>3. job' = [job EXCEPT ![j] = [[job[j] EXCEPT !.limit = l] EXCEPT !.phase = IF l > 0 THEN "ended1" ELSE "claim"]]
    BY <1>1 DEF ReadLimit, TypeOK, l
  <2> QED BY <1>1, <2>2, <2>3, OneJobType DEF ReadLimit, TypeOK
<1>2. ASSUME NEW j \in Jobs, ReadEnded(j) PROVE TypeOK'
  <2> DEFINE c == Cardinality(spent \cap Scope(j))
             s == IF job[j].phase = "ended1" THEN "inflight1" ELSE "inflight2"
  <2>1. c \in Nat
    BY SetCard DEF TypeOK
  <2>2. job' = [job EXCEPT ![j] = [[[job[j] EXCEPT !.ended = c] EXCEPT !.missed = FALSE] EXCEPT !.phase = s]]
    BY <1>2 DEF ReadEnded, TypeOK
  <2> HIDE DEF c
  <2>3. [[[job[j] EXCEPT !.ended = c] EXCEPT !.missed = FALSE] EXCEPT !.phase = s] \in JobRecords
    <3>1. [job[j] EXCEPT !.ended = c] \in JobRecords
      BY <2>1, JobType, FieldTypes
    <3>2. [[job[j] EXCEPT !.ended = c] EXCEPT !.missed = FALSE] \in JobRecords
      BY <3>1, FieldTypes
    <3>3. s \in Phases
      BY PhaseType
    <3> QED BY <3>2, <3>3, FieldTypes
  <2> QED BY <1>2, <2>2, <2>3, OneJobType DEF ReadEnded, TypeOK
<1>3. ASSUME NEW j \in Jobs, Precheck(j) PROVE TypeOK'
  BY <1>3, GotoType, ReturnType DEF Precheck, TypeOK, Phases, Before
<1>4. ASSUME NEW j \in Jobs, Claim(j) PROVE TypeOK'
  <2>1. PICK B \in SUBSET Units :
           /\ queued' = queued \ B
           /\ IF B = {} THEN Return(j)
              ELSE job' = [job EXCEPT ![j].claim = B,
                              ![j].phase = IF job[j].limit > 0 THEN "ended2" ELSE "running"]
    BY <1>4 DEF Claim, Batch, Waiting, TypeOK
  <2>2. [[job[j] EXCEPT !.claim = B] EXCEPT !.phase = IF job[j].limit > 0 THEN "ended2" ELSE "running"] \in JobRecords
    <3>1. [job[j] EXCEPT !.claim = B] \in JobRecords
      BY JobType, FieldTypes
    <3>2. (IF job[j].limit > 0 THEN "ended2" ELSE "running") \in Phases
      BY PhaseType
    <3> QED BY <3>1, <3>2, FieldTypes
  <2>3. CASE B = {}
    BY <1>4, <2>1, <2>3, ReturnType DEF Claim, TypeOK
  <2>4. CASE B # {}
    <3>1. job' = [job EXCEPT ![j] = [[job[j] EXCEPT !.claim = B] EXCEPT !.phase = IF job[j].limit > 0 THEN "ended2" ELSE "running"]]
      BY <2>1, <2>4 DEF TypeOK
    <3> QED BY <1>4, <2>1, <2>2, <3>1, OneJobType DEF Claim, TypeOK
  <2> QED BY <2>3, <2>4
<1>5. ASSUME NEW j \in Jobs, Recheck(j) PROVE TypeOK'
  <2>1. job[j].blind \in BOOLEAN /\ job[j].missed \in BOOLEAN
    BY JobType
  <2>2. CASE Budget(j) > job[j].limit
    BY <1>5, <2>2, GotoType, PhaseType DEF Recheck, TypeOK
  <2>3. CASE ~(Budget(j) > job[j].limit)
    <3>1. Start(j, job[j].blind) /\ clean' = (clean /\ ~job[j].blind /\ ~job[j].missed)
      BY <1>5, <2>3 DEF Recheck
    <3>2. clean' \in BOOLEAN
      BY <3>1
    <3>3. job' \in [Jobs -> JobRecords]
      BY <2>1, <3>1, StartType
    <3> QED BY <1>5, <3>2, <3>3 DEF Recheck, TypeOK
  <2> QED BY <2>2, <2>3
<1>6. ASSUME NEW j \in Jobs, Release(j) PROVE TypeOK'
  BY <1>6, ReturnType DEF Release, TypeOK, JobRecords
<1>7. ASSUME NEW j \in Jobs, CloseRow(j) PROVE TypeOK'
  <2>1. PICK D \in SUBSET job[j].claim :
          /\ spent' = spent \cup D
          /\ job' = [i \in Jobs |->
                        IF i = j THEN [job[i] EXCEPT !.phase = "closed"]
                        ELSE IF job[i].phase = "inflight2" /\ D \cap Scope(i) # {}
                        THEN [job[i] EXCEPT !.missed = TRUE]
                        ELSE job[i]]
    BY <1>7 DEF CloseRow
  <2>2. job' \in [Jobs -> JobRecords]
    <3>1. "closed" \in Phases
      BY PhaseType
    <3> SUFFICES ASSUME NEW i \in Jobs PROVE job'[i] \in JobRecords
      BY <2>1
    <3>2. /\ job[i] \in JobRecords
          /\ [job[i] EXCEPT !.phase = "closed"] \in JobRecords
          /\ [job[i] EXCEPT !.missed = TRUE] \in JobRecords
      BY <3>1, JobType, FieldTypes
    <3> QED BY <2>1, <3>2
  <2>3. spent' \in SUBSET Units
    BY <2>1 DEF TypeOK, JobRecords
  <2> QED BY <1>7, <2>2, <2>3 DEF CloseRow, TypeOK
<1>8. ASSUME NEW j \in Jobs, Finalize(j) PROVE TypeOK'
  <2>1. queued' \in SUBSET Units
    BY <1>8 DEF Finalize, TypeOK, JobRecords
  <2> QED BY <1>8, <2>1, ReturnType DEF Finalize, TypeOK
<1>9. ASSUME NEW j \in Jobs, NEW r \in Rules, Enter(j, r) PROVE TypeOK'
  <2>1. [Idle EXCEPT !.phase = "limit", !.rule = r, !.group = copy[r], !.blind = (copy[r] # group[r])] \in JobRecords
    BY IdleType, PhaseType DEF TypeOK, JobRecords
  <2> QED BY <1>9, <2>1, OneJobType DEF Enter, TypeOK
<1>10. ASSUME NEW u \in Units, Arrive(u) \/ Expire(u) PROVE TypeOK'
  BY <1>10 DEF Arrive, Expire, TypeOK
<1>11. ASSUME NEW r \in Rules, Refresh(r) PROVE TypeOK'
  <2>1. job' \in [Jobs -> JobRecords]
    <3> SUFFICES ASSUME NEW i \in Jobs PROVE job'[i] \in JobRecords
      BY <1>11 DEF Refresh
    <3>1. job[i] \in JobRecords /\ [job[i] EXCEPT !.phase = "refused"] \in JobRecords
      BY PhaseType, JobType, FieldTypes
    <3> QED BY <1>11, <3>1, IdleType DEF Refresh
  <2> QED BY <1>11, <2>1 DEF Refresh, TypeOK
<1>12. CASE SetRules
  <2>1. group' \in [Rules -> Groups \cup {NoGroup}]
    BY <1>12 DEF SetRules, TypeOK
  <2> QED BY <1>12, <2>1, BlindedType DEF SetRules, TypeOK, NotSaving
<1>13. CASE Edit
  <2>1. ASSUME NEW g \in Groups, NEW v \in Entered, NEW M \in SUBSET Rules, SaveGroup(g, v, M) PROVE TypeOK'
    <3>1. upsets' \in 0..MaxUpsets
      BY <2>1 DEF SaveGroup, TypeOK
    <3>2. limit' \in [Groups -> Nat]
      BY <2>1, ClampedType DEF SaveGroup, TypeOK
    <3>3. job' \in [Jobs -> JobRecords] /\ clean' \in BOOLEAN
      BY <2>1, BlindedType DEF SaveGroup
    <3>4. saving' \in [group : Groups \cup {NoGroup}, members : SUBSET Rules]
      BY <2>1 DEF SaveGroup
    <3> QED BY <2>1, <3>1, <3>2, <3>3, <3>4 DEF SaveGroup, TypeOK
  <2>2. ASSUME NEW g \in Groups, DeleteGroup(g) PROVE TypeOK'
    <3>1. upsets' \in 0..MaxUpsets
      BY <2>2 DEF DeleteGroup, TypeOK
    <3>2. limit' \in [Groups -> Nat]
      BY <2>2 DEF DeleteGroup, TypeOK
    <3>3. job' \in [Jobs -> JobRecords] /\ clean' \in BOOLEAN
      BY <2>2, BlindedType DEF DeleteGroup
    <3> QED BY <2>2, <3>1, <3>2, <3>3 DEF DeleteGroup, TypeOK
  <2> QED BY <1>13, <2>1, <2>2 DEF Edit
<1>14. ASSUME NEW j \in Jobs, RecheckFails(j) PROVE TypeOK'
  <2>1. upsets' \in 0..MaxUpsets
    BY <1>14 DEF RecheckFails, TypeOK
  <2>2. job' \in [Jobs -> JobRecords] /\ clean' \in BOOLEAN
    BY <1>14, StartType DEF RecheckFails
  <2> QED BY <1>14, <2>1, <2>2 DEF RecheckFails, TypeOK
<1>15. CASE UNCHANGED vars
  BY <1>15 DEF vars, TypeOK
<1> QED BY <1>1, <1>2, <1>3, <1>4, <1>5, <1>6, <1>7, <1>8, <1>9, <1>10, <1>11, <1>12, <1>13, <1>14, <1>15
        DEF Next, JobStep

\* Type correctness: among the rest, no stored limit is ever negative, not even
\* one whose conversion overflowed.
THEOREM QuotaTypeCorrect == Spec => []TypeOK
BY TypeInit, TypeStep, PTL DEF Spec

---------------------------------------------------------------------------
(* What a goroutine knows.  One that no edit has blinded names the account   *)
(* its rule is in, and the limit it read is the one in force.               *)

OwnClaim(rec) == rec.claim \subseteq UnitsOf({rec.rule})

Sighted(rec) ==
    ~rec.blind =>
        /\ rec.phase \in Before \cup Between => rec.group = group[rec.rule]
        /\ rec.phase \in {"ended1", "inflight1", "claim", "ended2", "inflight2"} =>
              rec.limit = InForce(rec.rule)

\* As long as nothing was edited and nothing failed, nobody is blind.
AllSighted == clean => copy = group /\ \A j \in Jobs : ~job[j].blind

KInv == TypeOK /\ (\A j \in Jobs : OwnClaim(job[j]) /\ Sighted(job[j])) /\ AllSighted

LEMMA IdleKnows == OwnClaim(Idle) /\ Sighted(Idle) /\ Idle.phase = "idle" /\ ~Idle.blind /\ Idle.claim = {}
BY DEF OwnClaim, Sighted, Idle, Before, Between

\* A step of one goroutine, which edits nothing.
LEMMA OneJobKnows ==
  ASSUME KInv, NEW j \in Jobs, NEW rec, job' = [job EXCEPT ![j] = rec],
         UNCHANGED <<group, limit>>, OwnClaim(rec), Sighted(rec)
  PROVE  \A i \in Jobs : OwnClaim(job[i])' /\ Sighted(job[i])'
<1>1. \A i \in Jobs : job'[i] = IF i = j THEN rec ELSE job[i]
  BY DEF KInv, TypeOK
<1>2. \A r, g : LimitOf(r, g)' = LimitOf(r, g)
  BY DEF LimitOf
<1>3. \A r : InForce(r)' = InForce(r)
  BY <1>2 DEF InForce
<1> TAKE i \in Jobs
<1>4. CASE i = j
  <2>1. job'[i] = rec
    BY <1>1, <1>4
  <2> QED BY <2>1, <1>3 DEF OwnClaim, Sighted
<1>5. CASE i # j
  <2>1. job'[i] = job[i]
    BY <1>1, <1>5
  <2> QED BY <2>1, <1>3 DEF KInv, OwnClaim, Sighted
<1> QED BY <1>4, <1>5

LEMMA KnowsInit == Init => KInv
BY TypeInit, IdleKnows DEF Init, KInv, AllSighted

LEMMA KnowsStep == KInv /\ [Next]_vars => KInv'
<1> SUFFICES ASSUME KInv, [Next]_vars PROVE KInv'
  OBVIOUS
<1>0. TypeOK'
  BY TypeStep DEF KInv
<1> DEFINE Knows == \A i \in Jobs : OwnClaim(job[i])' /\ Sighted(job[i])'
<1>1. ASSUME NEW j \in Jobs, ReadLimit(j) PROVE Knows /\ AllSighted'
  <2> DEFINE l == LimitOf(job[j].rule, job[j].group)
             rec == [job[j] EXCEPT !.limit = l, !.phase = IF l > 0 THEN "ended1" ELSE "claim"]
  <2>1. job' = [job EXCEPT ![j] = rec]
    BY <1>1 DEF ReadLimit, KInv, TypeOK
  <2>2. /\ rec.claim = job[j].claim /\ rec.rule = job[j].rule /\ rec.group = job[j].group
        /\ rec.blind = job[j].blind /\ rec.limit = l
    BY JobType DEF KInv, JobRecords
  <2>3. OwnClaim(rec) /\ Sighted(rec)
    BY <1>1, <2>2 DEF KInv, OwnClaim, Sighted, InForce, ReadLimit, Before
  <2> HIDE DEF rec
  <2> QED BY <1>1, <2>1, <2>2, <2>3, OneJobKnows DEF ReadLimit, AllSighted, KInv, TypeOK
<1>2. ASSUME NEW j \in Jobs, ReadEnded(j) PROVE Knows /\ AllSighted'
  <2> DEFINE c == Cardinality(spent \cap Scope(j))
             rec == [job[j] EXCEPT !.ended = c, !.missed = FALSE,
                          !.phase = IF @ = "ended1" THEN "inflight1" ELSE "inflight2"]
  <2>1. job' = [job EXCEPT ![j] = rec]
    BY <1>2 DEF ReadEnded, KInv, TypeOK
  <2>2. /\ rec.claim = job[j].claim /\ rec.rule = job[j].rule /\ rec.group = job[j].group
        /\ rec.blind = job[j].blind /\ rec.limit = job[j].limit
    BY JobType DEF KInv, JobRecords
  <2>3. OwnClaim(rec) /\ Sighted(rec)
    BY <1>2, <2>2 DEF KInv, OwnClaim, Sighted, ReadEnded, Before, Between
  <2> HIDE DEF rec
  <2> QED BY <1>2, <2>1, <2>2, <2>3, OneJobKnows DEF ReadEnded, AllSighted, KInv, TypeOK
<1>3. ASSUME NEW j \in Jobs, Return(j), UNCHANGED <<group, limit, copy, clean>> PROVE Knows /\ AllSighted'
  BY <1>3, IdleKnows, OneJobKnows DEF Return, AllSighted, KInv, TypeOK
<1>4. ASSUME NEW j \in Jobs, NEW phase, Goto(j, phase), UNCHANGED <<group, limit, copy, clean>>,
             \/ job[j].phase = "inflight1" /\ phase = "claim"
             \/ phase = "refused"
      PROVE  Knows /\ AllSighted'
  <2> DEFINE rec == [job[j] EXCEPT !.phase = phase, !.ended = 0]
  <2>1. job' = [job EXCEPT ![j] = rec]
    BY <1>4 DEF Goto, KInv, TypeOK
  <2>2. /\ rec.claim = job[j].claim /\ rec.rule = job[j].rule /\ rec.group = job[j].group
        /\ rec.blind = job[j].blind /\ rec.limit = job[j].limit /\ rec.phase = phase
    BY JobType DEF KInv, JobRecords
  <2>3. OwnClaim(rec) /\ Sighted(rec)
    BY <1>4, <2>2 DEF KInv, OwnClaim, Sighted, Before, Between
  <2> HIDE DEF rec
  <2> QED BY <1>4, <2>1, <2>2, <2>3, OneJobKnows DEF AllSighted, KInv, TypeOK
<1>5. ASSUME NEW j \in Jobs, NEW b \in BOOLEAN, Start(j, b), UNCHANGED <<group, limit, copy>>
      PROVE  /\ Knows
             /\ clean' \in BOOLEAN /\ (clean' => clean /\ ~b) => AllSighted'
  <2> DEFINE rec == [Idle EXCEPT !.phase = "running", !.blind = b, !.rule = job[j].rule, !.claim = job[j].claim]
  <2>1. job' = [job EXCEPT ![j] = rec]
    BY <1>5 DEF Start
  <2>2. rec.claim = job[j].claim /\ rec.rule = job[j].rule /\ rec.blind = b /\ rec.phase = "running"
    BY DEF Idle
  <2>3. OwnClaim(rec) /\ Sighted(rec)
    BY <2>2 DEF KInv, OwnClaim, Sighted, Before, Between
  <2> HIDE DEF rec
  <2>4. Knows
    BY <1>5, <2>1, <2>3, OneJobKnows
  <2>5. \A i \in Jobs : job'[i] = IF i = j THEN rec ELSE job[i]
    BY <2>1 DEF KInv, TypeOK
  <2> QED BY <1>5, <2>2, <2>4, <2>5 DEF AllSighted, KInv
<1>6. ASSUME NEW j \in Jobs, Claim(j) PROVE Knows /\ AllSighted'
  <2>1. PICK B \in Batch(Waiting(job[j].rule)) :
           IF B = {} THEN Return(j)
           ELSE job' = [job EXCEPT ![j].claim = B,
                              ![j].phase = IF job[j].limit > 0 THEN "ended2" ELSE "running"]
    BY <1>6 DEF Claim
  <2>2. CASE B = {}
    BY <1>6, <2>1, <2>2, <1>3 DEF Claim
  <2>3. CASE B # {}
    <3> DEFINE rec == [job[j] EXCEPT !.claim = B, !.phase = IF job[j].limit > 0 THEN "ended2" ELSE "running"]
    <3>1. job' = [job EXCEPT ![j] = rec]
      BY <2>1, <2>3 DEF KInv, TypeOK
    <3>2. /\ rec.claim = B /\ rec.rule = job[j].rule /\ rec.group = job[j].group
          /\ rec.blind = job[j].blind /\ rec.limit = job[j].limit
          /\ rec.phase \in {"ended2", "running"}
      BY JobType DEF KInv, JobRecords
    <3>3. B \subseteq UnitsOf({job[j].rule})
      BY <2>1 DEF Batch, Waiting
    <3>4. OwnClaim(rec) /\ Sighted(rec)
      BY <1>6, <3>2, <3>3 DEF KInv, OwnClaim, Sighted, Claim, Before, Between
    <3> HIDE DEF rec
    <3> QED BY <1>6, <3>1, <3>2, <3>4, OneJobKnows DEF Claim, AllSighted, KInv, TypeOK
  <2> QED BY <2>2, <2>3
<1>7. ASSUME NEW j \in Jobs, Recheck(j) PROVE Knows /\ AllSighted'
  <2>1. CASE Budget(j) > job[j].limit
    BY <1>7, <2>1, <1>4 DEF Recheck
  <2>2. CASE ~(Budget(j) > job[j].limit)
    <3>1. Start(j, job[j].blind) /\ clean' = (clean /\ ~job[j].blind /\ ~job[j].missed)
      BY <1>7, <2>2 DEF Recheck
    <3>2. clean' \in BOOLEAN /\ (clean' => clean /\ ~job[j].blind)
      BY <3>1
    <3>3. job[j].blind \in BOOLEAN
      BY JobType DEF KInv
    <3> QED BY <1>7, <3>1, <3>2, <3>3, <1>5 DEF Recheck
  <2> QED BY <2>1, <2>2
<1>8. ASSUME NEW j \in Jobs, CloseRow(j) PROVE Knows /\ AllSighted'
  <2>1. PICK D \in SUBSET job[j].claim :
          job' = [i \in Jobs |->
                        IF i = j THEN [job[i] EXCEPT !.phase = "closed"]
                        ELSE IF job[i].phase = "inflight2" /\ D \cap Scope(i) # {}
                        THEN [job[i] EXCEPT !.missed = TRUE]
                        ELSE job[i]]
    BY <1>8 DEF CloseRow
  <2>2. ASSUME NEW i \in Jobs
        PROVE  /\ job'[i].claim = job[i].claim /\ job'[i].rule = job[i].rule /\ job'[i].group = job[i].group
               /\ job'[i].blind = job[i].blind /\ job'[i].limit = job[i].limit
               /\ job'[i].phase = job[i].phase \/ job'[i].phase = "closed"
    BY <2>1, JobType DEF KInv, JobRecords
  <2>3. \A r, g : LimitOf(r, g)' = LimitOf(r, g)
    BY <1>8 DEF CloseRow, LimitOf
  <2> QED BY <1>8, <2>2, <2>3 DEF CloseRow, KInv, OwnClaim, Sighted, InForce, AllSighted, Before, Between
<1>9. ASSUME NEW j \in Jobs, NEW r \in Rules, Enter(j, r) PROVE Knows /\ AllSighted'
  <2> DEFINE rec == [Idle EXCEPT !.phase = "limit", !.rule = r, !.group = copy[r], !.blind = (copy[r] # group[r])]
  <2>1. job' = [job EXCEPT ![j] = rec]
    BY <1>9 DEF Enter
  <2>2. /\ rec.claim = {} /\ rec.rule = r /\ rec.group = copy[r]
        /\ rec.blind = (copy[r] # group[r]) /\ rec.phase = "limit"
    BY DEF Idle
  <2>3. OwnClaim(rec) /\ Sighted(rec)
    BY <2>2 DEF OwnClaim, Sighted
  <2> HIDE DEF rec
  <2>4. Knows
    BY <1>9, <2>1, <2>3, OneJobKnows DEF Enter
  <2>5. \A i \in Jobs : job'[i] = IF i = j THEN rec ELSE job[i]
    BY <2>1 DEF KInv, TypeOK
  <2> QED BY <1>9, <2>2, <2>4, <2>5 DEF Enter, AllSighted, KInv
<1>10. ASSUME UNCHANGED <<group, limit, copy, job, clean>> PROVE Knows /\ AllSighted'
  BY <1>10 DEF KInv, OwnClaim, Sighted, InForce, LimitOf, AllSighted
<1>11. ASSUME NEW r \in Rules, Refresh(r) PROVE Knows /\ AllSighted'
  <2>1. ~clean'
    BY <1>11 DEF Refresh, KInv, AllSighted
  <2>2. \A q, g : LimitOf(q, g)' = LimitOf(q, g)
    BY <1>11 DEF Refresh, LimitOf
  <2>3. ASSUME NEW i \in Jobs PROVE OwnClaim(job[i])' /\ Sighted(job[i])'
    <3>1. CASE job'[i] = job[i]
      BY <1>11, <2>2, <3>1 DEF KInv, OwnClaim, Sighted, InForce, Refresh
    <3>2. CASE job'[i] = Idle
      BY <3>2 DEF OwnClaim, Sighted, Idle, Before, Between
    <3>3. CASE job'[i] = [job[i] EXCEPT !.phase = "refused"]
      <4>1. job'[i].phase = "refused" /\ job'[i].claim = job[i].claim /\ job'[i].rule = job[i].rule
        BY <3>3, JobType DEF KInv, JobRecords
      <4> QED BY <4>1 DEF KInv, OwnClaim, Sighted, Before, Between
    <3> QED BY <1>11, <3>1, <3>2, <3>3 DEF Refresh
  <2> QED BY <2>1, <2>3 DEF AllSighted
<1>12. ASSUME job' = Blinded, ~clean' PROVE Knows /\ AllSighted'
  <2>1. ASSUME NEW i \in Jobs PROVE OwnClaim(job[i])' /\ Sighted(job[i])'
    <3>1. CASE job[i].phase = "idle"
      <4>1. job'[i] = job[i]
        BY <1>12, <3>1 DEF Blinded
      <4> QED BY <3>1, <4>1 DEF KInv, OwnClaim, Sighted, Before, Between
    <3>2. CASE job[i].phase # "idle"
      <4>1. job'[i].blind /\ job'[i].claim = job[i].claim /\ job'[i].rule = job[i].rule
        BY <1>12, <3>2, JobType DEF Blinded, KInv, JobRecords
      <4> QED BY <4>1 DEF KInv, OwnClaim, Sighted
    <3> QED BY <3>1, <3>2
  <2> QED BY <1>12, <2>1 DEF AllSighted
<1>13. ASSUME NEW j \in Jobs, RecheckFails(j) PROVE Knows /\ AllSighted'
  BY <1>13, <1>5 DEF RecheckFails
<1>14. ASSUME NEW j \in Jobs, JobStep(j) PROVE Knows /\ AllSighted'
  <2>1. CASE Precheck(j)
    BY <2>1, <1>3, <1>4 DEF Precheck
  <2>2. CASE Release(j) \/ Finalize(j)
    BY <2>2, <1>3 DEF Release, Finalize
  <2> QED BY <1>14, <1>1, <1>2, <1>6, <1>7, <1>8, <2>1, <2>2 DEF JobStep
<1>15. ASSUME Edit \/ SetRules PROVE Knows /\ AllSighted'
  <2>1. job' = Blinded /\ ~clean'
    BY <1>15 DEF Edit, SaveGroup, DeleteGroup, SetRules
  <2> QED BY <2>1, <1>12
<1>16. ASSUME (\E u \in Units : Arrive(u) \/ Expire(u)) \/ UNCHANGED vars PROVE Knows /\ AllSighted'
  <2>1. UNCHANGED <<group, limit, copy, job, clean>>
    BY <1>16 DEF Arrive, Expire, vars
  <2> QED BY <2>1, <1>10
<1>17. ASSUME \/ \E j \in Jobs, r \in Rules : Enter(j, r)
              \/ \E r \in Rules : Refresh(r)
              \/ \E j \in Jobs : RecheckFails(j) \/ JobStep(j)
       PROVE  Knows /\ AllSighted'
  BY <1>17, <1>9, <1>11, <1>13, <1>14
<1>18. Knows /\ AllSighted'
  BY <1>15, <1>16, <1>17 DEF Next
<1> QED BY <1>0, <1>18 DEF KInv

---------------------------------------------------------------------------
(* What the second check relies on: the sum its first statement returned has *)
(* not grown, unless the goroutine has missed the end of a job.             *)

ReadSound == \A j \in Jobs : job[j].phase = "inflight2" /\ ~job[j].blind /\ ~job[j].missed
                             => Cardinality(spent \cap Scope(j)) <= job[j].ended

LEMMA ReadSoundStep == KInv /\ ReadSound /\ [Next]_vars => ReadSound'
<1> SUFFICES ASSUME KInv, ReadSound, [Next]_vars, NEW i \in Jobs,
                    job'[i].phase = "inflight2", ~job'[i].blind, ~job'[i].missed
             PROVE  (Cardinality(spent \cap Scope(i)) <= job[i].ended)'
  BY DEF ReadSound
<1>0. TypeOK /\ job \in [Jobs -> JobRecords]
  BY DEF KInv, TypeOK
<1>1. ASSUME UNCHANGED group, spent' \subseteq spent, job'[i] = job[i]
      PROVE  (Cardinality(spent \cap Scope(i)) <= job[i].ended)'
  <2>1. Scope(i)' = Scope(i)
    BY <1>1 DEF Scope, Account, UnitsOf
  <2>2. spent \cap Scope(i) \in SUBSET Units /\ spent' \cap Scope(i) \in SUBSET (spent \cap Scope(i))
    BY <1>1 DEF KInv, TypeOK
  <2>3. /\ Cardinality(spent' \cap Scope(i)) \in Nat /\ Cardinality(spent \cap Scope(i)) \in Nat
        /\ Cardinality(spent' \cap Scope(i)) <= Cardinality(spent \cap Scope(i))
    BY <2>2, CardMono
  <2>4. Cardinality(spent \cap Scope(i)) <= job[i].ended /\ job[i].ended \in Nat
    BY <1>0, <1>1, JobType DEF ReadSound
  <2> QED BY <1>1, <2>1, <2>3, <2>4
<1>2. ASSUME NEW j \in Jobs, ReadEnded(j) PROVE (Cardinality(spent \cap Scope(i)) <= job[i].ended)'
  <2>1. CASE i = j
    <3>1. /\ job'[i].ended = Cardinality(spent \cap Scope(i))
          /\ job'[i].rule = job[i].rule /\ job'[i].group = job[i].group
      BY <1>0, <1>2, <2>1 DEF ReadEnded, JobRecords
    <3>2. Scope(i)' = Scope(i)
      BY <1>2, <3>1 DEF ReadEnded, Scope, Account, UnitsOf
    <3>3. Cardinality(spent \cap Scope(i)) \in Nat
      BY SetCard DEF KInv, TypeOK
    <3> QED BY <1>2, <3>1, <3>2, <3>3 DEF ReadEnded
  <2>2. CASE i # j
    BY <1>0, <1>1, <1>2, <2>2 DEF ReadEnded
  <2> QED BY <2>1, <2>2
<1>3. ASSUME NEW j \in Jobs, CloseRow(j) PROVE (Cardinality(spent \cap Scope(i)) <= job[i].ended)'
  <2>1. PICK D \in SUBSET job[j].claim :
          /\ spent' = spent \cup D
          /\ job' = [k \in Jobs |->
                        IF k = j THEN [job[k] EXCEPT !.phase = "closed"]
                        ELSE IF job[k].phase = "inflight2" /\ D \cap Scope(k) # {}
                        THEN [job[k] EXCEPT !.missed = TRUE]
                        ELSE job[k]]
    BY <1>3 DEF CloseRow
  <2>2. i # j
    BY <1>0, <2>1 DEF JobRecords
  <2>3. ~(job[i].phase = "inflight2" /\ D \cap Scope(i) # {})
    BY <1>0, <2>1, <2>2 DEF JobRecords
  <2>4. job'[i] = job[i] /\ D \cap Scope(i) = {}
    BY <2>1, <2>2, <2>3
  <2>5. Scope(i)' = Scope(i)
    BY <1>3, <2>4 DEF CloseRow, Scope, Account, UnitsOf
  <2>6. spent' \cap Scope(i) = spent \cap Scope(i)
    BY <2>1, <2>4
  <2> QED BY <2>4, <2>5, <2>6 DEF ReadSound
<1>4. ASSUME NEW j \in Jobs, NEW rec, job' = [job EXCEPT ![j] = rec], rec.phase # "inflight2",
             UNCHANGED <<group, spent>>
      PROVE  (Cardinality(spent \cap Scope(i)) <= job[i].ended)'
  <2>1. job'[i] = job[i]
    BY <1>0, <1>4
  <2> QED BY <1>1, <1>4, <2>1
<1>5. ASSUME NEW j \in Jobs, Return(j), UNCHANGED <<group, spent>>
      PROVE  (Cardinality(spent \cap Scope(i)) <= job[i].ended)'
  BY <1>4, <1>5, IdleKnows DEF Return
<1>6. ASSUME NEW j \in Jobs, NEW p, p # "inflight2", Goto(j, p), UNCHANGED <<group, spent>>
      PROVE  (Cardinality(spent \cap Scope(i)) <= job[i].ended)'
  <2> DEFINE rec == [job[j] EXCEPT !.phase = p, !.ended = 0]
  <2>1. job' = [job EXCEPT ![j] = rec]
    BY <1>0, <1>6 DEF Goto
  <2>2. rec.phase # "inflight2"
    BY <1>0, <1>6 DEF JobRecords
  <2> HIDE DEF rec
  <2> QED BY <1>4, <1>6, <2>1, <2>2
<1>7. ASSUME NEW j \in Jobs, NEW b, Start(j, b), UNCHANGED <<group, spent>>
      PROVE  (Cardinality(spent \cap Scope(i)) <= job[i].ended)'
  <2> DEFINE rec == [Idle EXCEPT !.phase = "running", !.blind = b, !.rule = job[j].rule, !.claim = job[j].claim]
  <2>1. job' = [job EXCEPT ![j] = rec] /\ rec.phase # "inflight2"
    BY <1>7 DEF Start, Idle
  <2> HIDE DEF rec
  <2> QED BY <1>4, <1>7, <2>1
<1>8. ASSUME NEW j \in Jobs, ReadLimit(j) PROVE (Cardinality(spent \cap Scope(i)) <= job[i].ended)'
  <2>1. job'[i] = job[i]
    BY <1>0, <1>8 DEF ReadLimit, JobRecords
  <2> QED BY <1>1, <1>8, <2>1 DEF ReadLimit
<1>9. ASSUME NEW j \in Jobs, Claim(j) PROVE (Cardinality(spent \cap Scope(i)) <= job[i].ended)'
  <2>1. \/ Return(j)
        \/ \E B : job' = [job EXCEPT ![j].claim = B,
                              ![j].phase = IF job[j].limit > 0 THEN "ended2" ELSE "running"]
    BY <1>9 DEF Claim
  <2>2. job'[i] = job[i] \/ Return(j)
    BY <1>0, <2>1 DEF JobRecords
  <2> QED BY <1>1, <1>5, <1>9, <2>2 DEF Claim
<1>10. ASSUME NEW j \in Jobs, JobStep(j) PROVE (Cardinality(spent \cap Scope(i)) <= job[i].ended)'
  <2>1. CASE Precheck(j)
    BY <2>1, <1>5, <1>6 DEF Precheck
  <2>2. CASE Recheck(j)
    BY <2>2, <1>6, <1>7 DEF Recheck
  <2>3. CASE Release(j) \/ Finalize(j)
    BY <2>3, <1>5 DEF Release, Finalize
  <2> QED BY <1>2, <1>3, <1>8, <1>9, <1>10, <2>1, <2>2, <2>3 DEF JobStep
<1>11. ASSUME NEW j \in Jobs, NEW r \in Rules, Enter(j, r) PROVE (Cardinality(spent \cap Scope(i)) <= job[i].ended)'
  <2> DEFINE rec == [Idle EXCEPT !.phase = "limit", !.rule = r, !.group = copy[r], !.blind = (copy[r] # group[r])]
  <2>1. job' = [job EXCEPT ![j] = rec] /\ rec.phase # "inflight2"
    BY <1>11 DEF Enter, Idle
  <2> HIDE DEF rec
  <2> QED BY <1>4, <1>11, <2>1 DEF Enter
<1>12. ASSUME NEW u \in Units, Arrive(u) \/ Expire(u) PROVE (Cardinality(spent \cap Scope(i)) <= job[i].ended)'
  BY <1>1, <1>12 DEF Arrive, Expire
<1>13. ASSUME NEW r \in Rules, Refresh(r) PROVE (Cardinality(spent \cap Scope(i)) <= job[i].ended)'
  <2>1. \/ job'[i] = job[i] \/ job'[i] = Idle \/ job'[i] = [job[i] EXCEPT !.phase = "refused"]
    BY <1>13 DEF Refresh
  <2>2. job'[i] = job[i]
    BY <1>0, <2>1, IdleKnows DEF JobRecords
  <2> QED BY <1>1, <1>13, <2>2 DEF Refresh
<1>14. ~(Edit \/ SetRules)
  <2>1. job' # Blinded
    BY <1>0 DEF Blinded, JobRecords
  <2> QED BY <2>1 DEF Edit, SaveGroup, DeleteGroup, SetRules
<1>15. ASSUME NEW j \in Jobs, RecheckFails(j) PROVE (Cardinality(spent \cap Scope(i)) <= job[i].ended)'
  BY <1>7, <1>15 DEF RecheckFails
<1>16. CASE UNCHANGED vars
  BY <1>1, <1>16 DEF vars
<1> QED BY <1>10, <1>11, <1>12, <1>13, <1>14, <1>15, <1>16 DEF Next

---------------------------------------------------------------------------
(* Accounts.                                                               *)

\* The rules of an account agree on its units and its limit; other rules have
\* none of its units.
LEMMA Shared ==
  ASSUME KInv, NEW r \in Rules, NEW q \in Rules
  PROVE  \/ Mine(q) = Mine(r) /\ (InForce(q) = InForce(r))
         \/ UnitsOf({q}) \cap Mine(r) = {}
<1>1. CASE group[r] = NoGroup
  <2>1. CASE q = r
    BY <2>1
  <2>2. CASE q # r
    BY <1>1, <2>2 DEF UnitsOf, Mine, Account
  <2> QED BY <2>1, <2>2
<1>2. CASE group[r] # NoGroup
  <2>1. CASE group[q] = group[r]
    BY <1>2, <2>1 DEF Mine, Account, InForce, LimitOf
  <2>2. CASE group[q] # group[r]
    BY <1>2, <2>2 DEF UnitsOf, Mine, Account
  <2> QED BY <2>1, <2>2
<1> QED BY <1>1, <1>2

LEMMA MineSet == \A r : Mine(r) \in SUBSET Units
BY DEF Mine, UnitsOf

LEMMA InForceType == ASSUME KInv, NEW r \in Rules PROVE InForce(r) \in Nat
<1>1. TypeOK /\ group[r] \in Groups \cup {NoGroup}
  BY DEF KInv, TypeOK
<1> QED BY <1>1, LimitType DEF InForce

\* A sighted goroutine at the second check sums over its account.
LEMMA ScopeIsMine ==
  ASSUME KInv, NEW j \in Jobs, job[j].phase \in Between, ~job[j].blind
  PROVE  Scope(j) = Mine(job[j].rule) /\ job[j].limit = InForce(job[j].rule)
BY DEF KInv, Sighted, Scope, Mine, Between

\* No edit: the limits in force and the units of each account stay.
LEMMA SameAccounts ==
  ASSUME UNCHANGED <<group, limit>>
  PROVE  \A r : InForce(r)' = InForce(r) /\ Mine(r)' = Mine(r)
BY DEF InForce, LimitOf, Mine, Account, UnitsOf

Used(r) == (spent \cup Claims({"running"})) \cap Mine(r)

Works(rec) == rec.phase \in {"running", "closed"} /\ ~rec.blind

Limits == InflightWithinLimit /\ QuotaKept

LEMMA SeenType == ASSUME KInv PROVE \A r : Seen(r) \in SUBSET Units /\ Used(r) \in SUBSET Units
<1>1. spent \in SUBSET Units /\ \A i \in Jobs : job[i].claim \in SUBSET Units
  BY JobType DEF KInv, TypeOK
<1> QED BY <1>1, MineSet DEF Seen, AtWork, Used, Claims

\* A step after which no account has more at work or used.
LEMMA LimitsShrink ==
  ASSUME KInv, Limits, UNCHANGED <<group, limit>>, clean' => clean,
         \A i \in Jobs : Works(job'[i]) => Works(job[i]) /\ job'[i].claim = job[i].claim,
         clean' => \A r \in Rules : Used(r)' \subseteq Used(r)
  PROVE  Limits'
<1>1. ASSUME NEW r \in Rules, InForce(r)' > 0 PROVE Cardinality(Seen(r))' <= InForce(r)'
  <2>1. Seen(r)' \subseteq Seen(r)
    BY SameAccounts DEF Seen, AtWork, Works
  <2>2. InForce(r)' = InForce(r) /\ InForce(r) \in Nat
    BY SameAccounts, InForceType
  <2>3. Cardinality(Seen(r)) <= InForce(r)
    BY <1>1, <2>2 DEF Limits, InflightWithinLimit
  <2>4. /\ Cardinality(Seen(r)') \in Nat /\ Cardinality(Seen(r)) \in Nat
        /\ Cardinality(Seen(r)') <= Cardinality(Seen(r))
    BY <2>1, SeenType, CardMono
  <2> QED BY <2>2, <2>3, <2>4
<1>2. ASSUME clean', NEW r \in Rules, InForce(r)' > 0 PROVE Cardinality(Used(r))' <= InForce(r)'
  <2>1. Used(r)' \subseteq Used(r)
    BY <1>2
  <2>2. InForce(r)' = InForce(r) /\ InForce(r) \in Nat
    BY SameAccounts, InForceType
  <2>3. Cardinality(Used(r)) <= InForce(r)
    BY <1>2, <2>2 DEF Limits, QuotaKept, Used
  <2>4. /\ Cardinality(Used(r)') \in Nat /\ Cardinality(Used(r)) \in Nat
        /\ Cardinality(Used(r)') <= Cardinality(Used(r))
    BY <2>1, SeenType, CardMono
  <2> QED BY <2>2, <2>3, <2>4
<1> QED BY <1>1, <1>2 DEF Limits, InflightWithinLimit, QuotaKept, Used

\* A goroutine starts its claim: without a limit, or with the sum in hand.
LEMMA LimitsStart ==
  ASSUME KInv, KInv', Limits, UNCHANGED <<group, limit, spent>>, clean' => clean,
         NEW j \in Jobs, NEW rec, job' = [job EXCEPT ![j] = rec],
         rec.phase = "running", rec.claim \subseteq UnitsOf({job[j].rule}),
         NEW room \in SUBSET Units,
         ~rec.blind => \/ InForce(job[j].rule) = 0
                       \/ /\ \A r \in Rules : Seen(r)' \subseteq room
                          /\ Cardinality(room \cap Mine(job[j].rule)) <= InForce(job[j].rule),
         NEW used \in SUBSET Units,
         clean' => \/ InForce(job[j].rule) = 0
                   \/ /\ \A r \in Rules : Used(r)' \subseteq used
                      /\ Cardinality(used \cap Mine(job[j].rule)) <= InForce(job[j].rule)
  PROVE  Limits'
<1>1. job[j].rule \in Rules /\ \A i \in Jobs : job'[i] = IF i = j THEN rec ELSE job[i]
  BY JobType DEF KInv, TypeOK
<1> DEFINE q == job[j].rule
<1> HIDE DEF q
<1>2. q \in Rules /\ InForce(q) \in Nat /\ rec.claim \subseteq UnitsOf({q})
  BY <1>1, InForceType DEF q
<1>3. ASSUME NEW r \in Rules, InForce(r)' > 0 PROVE Cardinality(Seen(r))' <= InForce(r)'
  <2>1. InForce(r)' = InForce(r) /\ InForce(r) \in Nat
    BY SameAccounts, InForceType
  <2>2. CASE UnitsOf({q}) \cap Mine(r) = {} \/ rec.blind
    <3>1. Seen(r)' \subseteq Seen(r)
      <4> SUFFICES ASSUME NEW u, u \in Seen(r)' PROVE u \in Seen(r)
        OBVIOUS
      <4>1. Mine(r)' = Mine(r)
        BY SameAccounts
      <4>2. PICK i \in Jobs : job'[i].phase \in {"running", "closed"} /\ ~job'[i].blind /\ u \in job'[i].claim
        BY DEF Seen, AtWork
      <4>3. u \in Mine(r)
        BY <4>1 DEF Seen, AtWork
      <4>4. CASE i = j
        BY <1>1, <1>2, <2>2, <4>2, <4>3, <4>4
      <4>5. CASE i # j
        BY <1>1, <4>2, <4>3, <4>5 DEF Seen, AtWork
      <4> QED BY <4>4, <4>5
    <3>2. Cardinality(Seen(r)) <= InForce(r)
      BY <1>3, <2>1 DEF Limits, InflightWithinLimit
    <3>3. /\ Cardinality(Seen(r)') \in Nat /\ Cardinality(Seen(r)) \in Nat
          /\ Cardinality(Seen(r)') <= Cardinality(Seen(r))
      BY <3>1, SeenType, CardMono
    <3> QED BY <2>1, <3>2, <3>3
  <2>3. CASE Mine(q) = Mine(r) /\ InForce(q) = InForce(r) /\ ~rec.blind
    <3>1. Seen(r)' \subseteq room /\ Cardinality(room \cap Mine(q)) <= InForce(q)
      BY <1>2, <1>3, <2>1, <2>3 DEF q
    <3>2. Seen(r)' \subseteq room \cap Mine(q)
      <4>1. Mine(r)' = Mine(r) /\ Seen(r)' \subseteq Mine(r)'
        BY SameAccounts DEF Seen, AtWork
      <4> QED BY <2>3, <3>1, <4>1
    <3>3. /\ Cardinality(Seen(r)') \in Nat /\ Cardinality(room \cap Mine(q)) \in Nat
          /\ Cardinality(Seen(r)') <= Cardinality(room \cap Mine(q))
      BY <3>2, CardMono
    <3> QED BY <2>1, <2>3, <3>1, <3>3
  <2> QED BY <1>2, <2>2, <2>3, Shared
<1>4. ASSUME clean', NEW r \in Rules, InForce(r)' > 0 PROVE Cardinality(Used(r))' <= InForce(r)'
  <2>1. InForce(r)' = InForce(r) /\ InForce(r) \in Nat
    BY SameAccounts, InForceType
  <2>2. CASE UnitsOf({q}) \cap Mine(r) = {}
    <3>1. Used(r)' \subseteq Used(r)
      BY <1>1, <1>2, <2>2, SameAccounts DEF Used, Claims
    <3>2. Cardinality(Used(r)) <= InForce(r)
      BY <1>4, <2>1 DEF Limits, QuotaKept, Used
    <3>3. /\ Cardinality(Used(r)') \in Nat /\ Cardinality(Used(r)) \in Nat
          /\ Cardinality(Used(r)') <= Cardinality(Used(r))
      BY <3>1, SeenType, CardMono
    <3> QED BY <2>1, <3>2, <3>3
  <2>3. CASE Mine(q) = Mine(r) /\ InForce(q) = InForce(r)
    <3>1. Used(r)' \subseteq used /\ Cardinality(used \cap Mine(q)) <= InForce(q)
      BY <1>2, <1>4, <2>1, <2>3 DEF q
    <3>2. Used(r)' \subseteq used \cap Mine(q)
      BY <2>3, <3>1, SameAccounts DEF Used
    <3>3. /\ Cardinality(Used(r)') \in Nat /\ Cardinality(used \cap Mine(q)) \in Nat
          /\ Cardinality(Used(r)') <= Cardinality(used \cap Mine(q))
      BY <3>2, CardMono
    <3> QED BY <2>1, <2>3, <3>1, <3>3
  <2> QED BY <1>2, <2>2, <2>3, Shared
<1> QED BY <1>3, <1>4 DEF Limits, InflightWithinLimit, QuotaKept, Used

---------------------------------------------------------------------------
(* The limits hold.                                                        *)

QInv == KInv /\ ReadSound /\ Limits

LEMMA QuotaInit == Init => QInv
<1> SUFFICES ASSUME Init PROVE ReadSound /\ Limits
  BY KnowsInit DEF QInv
<1>1. \A j \in Jobs : job[j] = Idle
  BY DEF Init
<1>2. ReadSound
  BY <1>1, IdleKnows DEF ReadSound
<1>3. \A r : Seen(r) = {} /\ Used(r) = {}
  BY <1>1, IdleKnows DEF Init, Seen, AtWork, Used, Claims
<1>4. Cardinality({}) = 0 /\ \A r \in Rules : InForce(r) \in Nat
  BY FS_EmptySet, KnowsInit, InForceType
<1> QED BY <1>2, <1>3, <1>4 DEF Limits, InflightWithinLimit, QuotaKept, Used

LEMMA LimitsStep == QInv /\ [Next]_vars => Limits'
<1> SUFFICES ASSUME QInv, [Next]_vars PROVE Limits'
  OBVIOUS
<1>0. /\ KInv /\ KInv' /\ ReadSound /\ Limits /\ TypeOK
      /\ job \in [Jobs -> JobRecords] /\ spent \in SUBSET Units
      /\ Transferring \in SUBSET Units
  BY KnowsStep, JobType DEF QInv, KInv, TypeOK, Transferring
\* One goroutine moves, and is not at work afterwards.
<1>1. ASSUME NEW j \in Jobs, NEW rec, job' = [job EXCEPT ![j] = rec], rec.phase \notin {"running", "closed"},
             UNCHANGED <<group, limit, spent>>, clean' => clean
      PROVE  Limits'
  <2>1. \A i \in Jobs : job'[i] = IF i = j THEN rec ELSE job[i]
    BY <1>0, <1>1
  <2>2. \A r : Used(r)' \subseteq Used(r)
    BY <1>1, <2>1, SameAccounts DEF Used, Claims
  <2>3. \A i \in Jobs : Works(job'[i]) => Works(job[i]) /\ job'[i].claim = job[i].claim
    BY <1>1, <2>1 DEF Works
  <2> QED BY <1>0, <1>1, <2>2, <2>3, LimitsShrink
<1>2. ASSUME NEW j \in Jobs, Return(j), UNCHANGED <<group, limit, spent, clean>> PROVE Limits'
  BY <1>1, <1>2, IdleKnows DEF Return
<1>3. ASSUME NEW j \in Jobs, NEW p, p \notin {"running", "closed"}, Goto(j, p),
             UNCHANGED <<group, limit, spent, clean>>
      PROVE  Limits'
  <2> DEFINE rec == [job[j] EXCEPT !.phase = p, !.ended = 0]
  <2>1. job' = [job EXCEPT ![j] = rec] /\ rec.phase = p
    BY <1>0, <1>3 DEF Goto, JobRecords
  <2> HIDE DEF rec
  <2> QED BY <1>1, <1>3, <2>1
<1>4. ASSUME NEW j \in Jobs, ReadLimit(j) \/ ReadEnded(j) PROVE Limits'
  <2>1. PICK rec : job' = [job EXCEPT ![j] = rec] /\ rec.phase \notin {"running", "closed"}
    <3>1. CASE ReadLimit(j)
      <4> DEFINE l == LimitOf(job[j].rule, job[j].group)
                 rec == [job[j] EXCEPT !.limit = l, !.phase = IF l > 0 THEN "ended1" ELSE "claim"]
      <4>1. job' = [job EXCEPT ![j] = rec] /\ rec.phase \notin {"running", "closed"}
        BY <1>0, <3>1 DEF ReadLimit, JobRecords
      <4> QED BY <4>1
    <3>2. CASE ReadEnded(j)
      <4> DEFINE rec == [job[j] EXCEPT !.ended = Cardinality(spent \cap Scope(j)), !.missed = FALSE,
                              !.phase = IF job[j].phase = "ended1" THEN "inflight1" ELSE "inflight2"]
      <4>1. job' = [job EXCEPT ![j] = rec] /\ rec.phase \notin {"running", "closed"}
        BY <1>0, <3>2 DEF ReadEnded, JobRecords
      <4> QED BY <4>1
    <3> QED BY <1>4, <3>1, <3>2
  <2>2. UNCHANGED <<group, limit, spent, clean>>
    BY <1>4 DEF ReadLimit, ReadEnded
  <2> QED BY <1>1, <2>1, <2>2
<1>5. ASSUME NEW j \in Jobs, Claim(j) PROVE Limits'
  <2>1. PICK B \in Batch(Waiting(job[j].rule)) :
           IF B = {} THEN Return(j)
           ELSE job' = [job EXCEPT ![j].claim = B,
                              ![j].phase = IF job[j].limit > 0 THEN "ended2" ELSE "running"]
    BY <1>5 DEF Claim
  <2>2. CASE B = {}
    BY <1>2, <1>5, <2>1, <2>2 DEF Claim
  <2>3. CASE B # {}
    <3> DEFINE rec == [job[j] EXCEPT !.claim = B, !.phase = IF job[j].limit > 0 THEN "ended2" ELSE "running"]
    <3>1. job' = [job EXCEPT ![j] = rec]
      BY <1>0, <2>1, <2>3
    <3>2. rec.claim = B /\ rec.phase = (IF job[j].limit > 0 THEN "ended2" ELSE "running")
          /\ rec.blind = job[j].blind
      BY <1>0 DEF JobRecords
    <3>3. B \subseteq UnitsOf({job[j].rule})
      BY <2>1 DEF Batch, Waiting
    <3> HIDE DEF rec
    <3>4. CASE job[j].limit > 0
      BY <1>1, <1>5, <3>1, <3>2, <3>4 DEF Claim
    <3>5. CASE ~(job[j].limit > 0)
      <4>1. job[j].limit = 0
        BY <1>0, <3>5, JobType
      <4>2. ~job[j].blind => InForce(job[j].rule) = 0
        BY <1>0, <1>5, <4>1 DEF Claim, KInv, Sighted
      <4>3. clean => ~job[j].blind
        BY <1>0 DEF KInv, AllSighted
      <4>4. {} \in SUBSET Units
        OBVIOUS
      <4> QED BY <1>0, <1>5, <3>1, <3>2, <3>3, <3>5, <4>2, <4>3, <4>4, LimitsStart DEF Claim
    <3> QED BY <3>4, <3>5
  <2> QED BY <2>2, <2>3
<1>6. ASSUME NEW j \in Jobs, Recheck(j) PROVE Limits'
  <2>1. CASE Budget(j) > job[j].limit
    BY <1>3, <1>6, <2>1 DEF Recheck
  <2>2. CASE ~(Budget(j) > job[j].limit)
    <3>1. Start(j, job[j].blind) /\ clean' = (clean /\ ~job[j].blind /\ ~job[j].missed)
      BY <1>6, <2>2 DEF Recheck
    <3> DEFINE rec == [Idle EXCEPT !.phase = "running", !.blind = job[j].blind, !.rule = job[j].rule, !.claim = job[j].claim]
               q == job[j].rule
               A == Mine(q)
    <3>2. job' = [job EXCEPT ![j] = rec]
      BY <3>1 DEF Start
    <3>3. rec.phase = "running" /\ rec.blind = job[j].blind /\ rec.claim = job[j].claim
      BY DEF Idle
    <3>4. rec.claim \subseteq UnitsOf({q})
      BY <1>0, <3>3 DEF KInv, OwnClaim
    <3> HIDE DEF rec
    <3>5. \A i \in Jobs : job'[i] = IF i = j THEN rec ELSE job[i]
      BY <1>0, <3>2
    <3>6. /\ \A r \in Rules : Seen(r)' \subseteq Transferring
          /\ \A r \in Rules : Used(r)' \subseteq spent \cup Transferring
      BY <1>6, <3>3, <3>5 DEF Recheck, Seen, AtWork, Used, Claims, Transferring
    <3>7. /\ Cardinality(Transferring \cap Scope(j)) \in Nat /\ Cardinality(spent \cap Scope(j)) \in Nat
          /\ job[j].limit \in Nat /\ job[j].ended \in Nat
      BY <1>0, SetCard, JobType
    <3>8. job[j].ended + Cardinality(Transferring \cap Scope(j)) <= job[j].limit
      BY <2>2, <3>7 DEF Budget
    <3>9. ASSUME ~job[j].blind
          PROVE  Scope(j) = A /\ job[j].limit = InForce(q)
      BY <1>0, <1>6, <3>9, ScopeIsMine DEF Recheck, Between
    <3>10. ~job[j].blind => Cardinality(Transferring \cap A) <= InForce(q)
      BY <3>7, <3>8, <3>9
    <3>11. ASSUME clean' PROVE Cardinality((spent \cup Transferring) \cap A) <= InForce(q)
      <4>1. clean /\ ~job[j].blind /\ ~job[j].missed
        BY <3>1, <3>11
      <4>2. Cardinality(spent \cap A) <= job[j].ended
        BY <1>0, <1>6, <3>9, <4>1 DEF ReadSound, Recheck
      <4>3. /\ Cardinality((spent \cap A) \cup (Transferring \cap A))
                 <= Cardinality(spent \cap A) + Cardinality(Transferring \cap A)
            /\ Cardinality((spent \cap A) \cup (Transferring \cap A)) \in Nat
        BY <1>0, CardSum, SetCard
      <4>4. (spent \cup Transferring) \cap A = (spent \cap A) \cup (Transferring \cap A)
        OBVIOUS
      <4>5. /\ Cardinality(spent \cap A) \in Nat /\ Cardinality(Transferring \cap A) \in Nat
            /\ job[j].ended + Cardinality(Transferring \cap A) <= InForce(q)
            /\ InForce(q) \in Nat
        BY <3>7, <3>8, <3>9, <4>1
      <4> HIDE DEF A, q
      <4> QED BY <3>7, <4>2, <4>3, <4>4, <4>5
    <3>12. clean' => clean
      BY <3>1
    <3>13. spent \cup Transferring \in SUBSET Units
      BY <1>0
    <3> HIDE DEF A
    <3> QED BY <1>0, <1>6, <3>2, <3>3, <3>4, <3>6, <3>10, <3>11, <3>12, <3>13, LimitsStart DEF Recheck, A
  <2> QED BY <2>1, <2>2
<1>7. ASSUME NEW j \in Jobs, CloseRow(j) PROVE Limits'
  <2>1. PICK D \in SUBSET job[j].claim :
          /\ spent' = spent \cup D
          /\ job' = [i \in Jobs |->
                        IF i = j THEN [job[i] EXCEPT !.phase = "closed"]
                        ELSE IF job[i].phase = "inflight2" /\ D \cap Scope(i) # {}
                        THEN [job[i] EXCEPT !.missed = TRUE]
                        ELSE job[i]]
    BY <1>7 DEF CloseRow
  <2>2. ASSUME NEW i \in Jobs
        PROVE  /\ job'[i].claim = job[i].claim /\ job'[i].blind = job[i].blind
               /\ job'[i].phase = IF i = j THEN "closed" ELSE job[i].phase
    BY <1>0, <2>1 DEF JobRecords
  <2>3. \A r : Used(r)' \subseteq Used(r)
    <3>1. D \subseteq Claims({"running"})
      BY <1>7, <2>1 DEF CloseRow, Claims
    <3>2. Claims({"running"})' \subseteq Claims({"running"})
      BY <2>2 DEF Claims
    <3> QED BY <1>7, <2>1, <3>1, <3>2, SameAccounts DEF CloseRow, Used
  <2>4. \A i \in Jobs : Works(job'[i]) => Works(job[i]) /\ job'[i].claim = job[i].claim
    BY <1>7, <2>2 DEF Works, CloseRow
  <2> QED BY <1>0, <1>7, <2>3, <2>4, LimitsShrink DEF CloseRow
<1>8. ASSUME NEW j \in Jobs, JobStep(j) PROVE Limits'
  <2>1. CASE Precheck(j)
    BY <2>1, <1>2, <1>3 DEF Precheck
  <2>2. CASE Release(j) \/ Finalize(j)
    BY <2>2, <1>2 DEF Release, Finalize
  <2> QED BY <1>4, <1>5, <1>6, <1>7, <1>8, <2>1, <2>2 DEF JobStep
<1>9. ASSUME NEW j \in Jobs, NEW r \in Rules, Enter(j, r) PROVE Limits'
  <2> DEFINE rec == [Idle EXCEPT !.phase = "limit", !.rule = r, !.group = copy[r], !.blind = (copy[r] # group[r])]
  <2>1. job' = [job EXCEPT ![j] = rec] /\ rec.phase \notin {"running", "closed"}
    BY <1>9 DEF Enter, Idle
  <2> HIDE DEF rec
  <2> QED BY <1>1, <1>9, <2>1 DEF Enter
<1>10. ASSUME UNCHANGED <<group, limit, clean>>, spent' \subseteq spent,
              \A i \in Jobs : job'[i] \in {job[i], Idle, [job[i] EXCEPT !.phase = "refused"]}
       PROVE  Limits'
  <2>1. ASSUME NEW i \in Jobs, job'[i].phase \in {"running", "closed"} PROVE job'[i] = job[i]
    BY <1>0, <1>10, <2>1, IdleKnows DEF JobRecords
  <2>2. \A r : Used(r)' \subseteq Used(r)
    BY <1>10, <2>1, SameAccounts DEF Used, Claims
  <2>3. \A i \in Jobs : Works(job'[i]) => Works(job[i]) /\ job'[i].claim = job[i].claim
    BY <2>1 DEF Works
  <2> QED BY <1>0, <1>10, <2>2, <2>3, LimitsShrink
<1>11. ASSUME Edit \/ SetRules PROVE Limits'
  <2>1. job' = Blinded /\ ~clean'
    BY <1>11 DEF Edit, SaveGroup, DeleteGroup, SetRules
  <2>2. ASSUME NEW i \in Jobs PROVE ~Works(job'[i])
    BY <1>0, <2>1 DEF Blinded, JobRecords, Works
  <2>3. \A r : Seen(r)' = {}
    BY <2>2 DEF Seen, AtWork, Works
  <2>4. Cardinality({}) = 0 /\ \A r \in Rules : InForce(r)' \in Nat
    <3>1. TypeOK'
      BY <1>0 DEF KInv
    <3>2. \A r \in Rules : InForce(r)' \in Nat
      BY <3>1 DEF TypeOK, InForce, LimitOf
    <3> QED BY <3>2, FS_EmptySet
  <2> QED BY <2>1, <2>3, <2>4 DEF Limits, InflightWithinLimit, QuotaKept
<1>12. ASSUME NEW j \in Jobs, RecheckFails(j) PROVE Limits'
  <2> DEFINE rec == [Idle EXCEPT !.phase = "running", !.blind = TRUE, !.rule = job[j].rule, !.claim = job[j].claim]
  <2>1. job' = [job EXCEPT ![j] = rec] /\ rec.blind
    BY <1>12 DEF RecheckFails, Start, Idle
  <2> HIDE DEF rec
  <2>2. \A i \in Jobs : job'[i] = IF i = j THEN rec ELSE job[i]
    BY <1>0, <2>1
  <2>3. \A i \in Jobs : Works(job'[i]) => Works(job[i]) /\ job'[i].claim = job[i].claim
    BY <2>1, <2>2 DEF Works
  <2> QED BY <1>0, <1>12, <2>3, LimitsShrink DEF RecheckFails
<1>13. ASSUME NEW r \in Rules, Refresh(r) PROVE Limits'
  BY <1>10, <1>13 DEF Refresh
<1>14. ASSUME (\E u \in Units : Arrive(u) \/ Expire(u)) \/ UNCHANGED vars PROVE Limits'
  BY <1>10, <1>14 DEF Arrive, Expire, vars
<1> QED BY <1>8, <1>9, <1>11, <1>12, <1>13, <1>14 DEF Next

LEMMA QInvAlways == Spec => []QInv
<1>1. QInv /\ [Next]_vars => QInv'
  BY KnowsStep, ReadSoundStep, LimitsStep DEF QInv
<1> QED BY QuotaInit, <1>1, PTL DEF Spec

\* However many jobs check at once, those that knew the account have no more at
\* work together than its quota.
THEOREM JobsTogetherWithinLimit == Spec => []InflightWithinLimit
<1>1. QInv => InflightWithinLimit
  BY DEF QInv, Limits
<1> QED BY QInvAlways, <1>1, PTL

\* What was used and what is at work stays within the quota, as long as nothing
\* was edited, nothing failed, and no check was torn by the end of a job.
THEOREM AccountWithinQuota == Spec => []QuotaKept
<1>1. QInv => QuotaKept
  BY DEF QInv, Limits
<1> QED BY QInvAlways, <1>1, PTL

---------------------------------------------------------------------------
(* Edits take effect.  That all who looked before an edit end needs         *)
(* fairness; that nothing exceeds a limit once they have does not.          *)

\* No edit is half done, no worker holds an old copy, no job an old account.
Settled == saving = NotSaving /\ copy = group /\ \A j \in Jobs : ~job[j].blind

LEMMA SettledWithin == Settled /\ InflightWithinLimit => Within
<1> SUFFICES ASSUME Settled, InflightWithinLimit, NEW r \in Rules, InForce(r) > 0
             PROVE  Cardinality(Claims({"running", "closed"}) \cap Mine(r)) <= InForce(r)
  BY DEF Within
<1>1. Claims({"running", "closed"}) \cap Mine(r) = Seen(r)
  BY DEF Settled, Claims, Seen, AtWork
<1> QED BY <1>1 DEF InflightWithinLimit

\* A step of a goroutine leaves every one as blind as it was, or idle.
LEMMA BlindStep ==
  ASSUME TypeOK, NEW j \in Jobs, JobStep(j), NEW i \in Jobs, ~job[i].blind
  PROVE  ~job'[i].blind
<1>0. \A k \in Jobs : job[k] \in JobRecords
  BY DEF TypeOK
<1>1. ASSUME Goto(j, "claim") \/ Goto(j, "refused") PROVE ~job'[i].blind
  BY <1>0, <1>1 DEF Goto, JobRecords, TypeOK
<1>2. ASSUME Return(j) PROVE ~job'[i].blind
  BY <1>2 DEF Return, Idle, TypeOK
<1>3. ASSUME Start(j, job[j].blind) PROVE ~job'[i].blind
  <2> DEFINE b == job[j].blind
             rec == [Idle EXCEPT !.phase = "running", !.blind = b, !.rule = job[j].rule, !.claim = job[j].claim]
  <2>1. rec.blind = b
    BY DEF Idle
  <2>2. job' = [job EXCEPT ![j] = rec]
    BY <1>3 DEF Start
  <2> HIDE DEF rec
  <2> QED BY <2>1, <2>2 DEF TypeOK
<1>4. ASSUME ReadLimit(j) PROVE ~job'[i].blind
  BY <1>0, <1>4 DEF ReadLimit, JobRecords, TypeOK
<1>5. ASSUME ReadEnded(j) PROVE ~job'[i].blind
  BY <1>0, <1>5 DEF ReadEnded, JobRecords, TypeOK
<1>6. ASSUME Precheck(j) PROVE ~job'[i].blind
  BY <1>1, <1>2, <1>6 DEF Precheck
<1>7. ASSUME Claim(j) PROVE ~job'[i].blind
  <2>1. \/ Return(j)
        \/ \E B \in SUBSET Units, s \in {"ended2", "running"} :
              job' = [job EXCEPT ![j] = [[job[j] EXCEPT !.claim = B] EXCEPT !.phase = s]]
    BY <1>7 DEF Claim, Batch, Waiting, TypeOK
  <2>2. ASSUME NEW B \in SUBSET Units, NEW s \in {"ended2", "running"},
               job' = [job EXCEPT ![j] = [[job[j] EXCEPT !.claim = B] EXCEPT !.phase = s]]
        PROVE  ~job'[i].blind
    <3> DEFINE rec == [[job[j] EXCEPT !.claim = B] EXCEPT !.phase = s]
    <3>1. rec.blind = job[j].blind
      BY <1>0 DEF JobRecords
    <3>2. job' = [job EXCEPT ![j] = rec]
      BY <2>2
    <3> HIDE DEF rec
    <3> QED BY <3>1, <3>2 DEF TypeOK
  <2> QED BY <1>2, <2>1, <2>2
<1>8. ASSUME Recheck(j) PROVE ~job'[i].blind
  BY <1>1, <1>3, <1>8 DEF Recheck
<1>9. ASSUME Release(j) \/ Finalize(j) PROVE ~job'[i].blind
  BY <1>2, <1>9 DEF Release, Finalize
<1>10. ASSUME CloseRow(j) PROVE ~job'[i].blind
  <2>1. job'[i] \in {job[i], [job[i] EXCEPT !.phase = "closed"], [job[i] EXCEPT !.missed = TRUE]}
    BY <1>10 DEF CloseRow
  <2> QED BY <1>0, <2>1 DEF JobRecords
<1> QED BY <1>4, <1>5, <1>6, <1>7, <1>8, <1>9, <1>10 DEF JobStep

LEMMA SettledStep ==
  ASSUME TypeOK, Settled, [Next]_vars, ~Edit, \A j \in Jobs : ~RecheckFails(j)
  PROVE  Settled'
<1>1. CASE UNCHANGED vars
  BY <1>1 DEF vars, Settled
<1>2. ASSUME NEW j \in Jobs, JobStep(j) PROVE Settled'
  <2>1. UNCHANGED <<saving, copy, group>>
    BY <1>2 DEF JobStep, ReadLimit, ReadEnded, Precheck, Claim, Recheck, Release, CloseRow, Finalize
  <2> QED BY <1>2, <2>1, BlindStep DEF Settled
<1>3. ASSUME NEW j \in Jobs, NEW r \in Rules, Enter(j, r) PROVE Settled'
  <2> DEFINE rec == [Idle EXCEPT !.phase = "limit", !.rule = r, !.group = copy[r],
                                 !.blind = (copy[r] # group[r])]
  <2>1. ~rec.blind
    BY DEF Idle, Settled
  <2>2. job' = [job EXCEPT ![j] = rec] /\ UNCHANGED <<saving, copy, group>>
    BY <1>3 DEF Enter
  <2> HIDE DEF rec
  <2> QED BY <2>1, <2>2 DEF Settled, TypeOK
<1>4. ASSUME NEW u \in Units, Arrive(u) \/ Expire(u) PROVE Settled'
  BY <1>4 DEF Arrive, Expire, Settled
<1>5. ~SetRules /\ \A r \in Rules : ~Refresh(r)
  BY DEF SetRules, Refresh, Settled
<1> QED BY <1>1, <1>2, <1>3, <1>4, <1>5 DEF Next

\* After an edit no account has more at work than its limit in force, as soon as the
\* edit is done, the workers' copies are new and no job is left that looked before:
\* whichever of these came last, and whatever the limit was lowered to.
THEOREM SettledIsWithin == Spec => [](Settled => Within)
<1> QED BY SettledWithin, JobsTogetherWithinLimit, PTL

\* And it stays so until the next edit or failing read: no job that enters, claims or
\* is refused later has an old account or limit.
THEOREM SettledLasts == Spec => [][Settled /\ ~Edit /\ (\A j \in Jobs : ~RecheckFails(j)) => Settled']_vars
<1>1. TypeOK /\ [Next]_vars => [Settled /\ ~Edit /\ (\A j \in Jobs : ~RecheckFails(j)) => Settled']_vars
  BY SettledStep
<1> QED BY <1>1, QuotaTypeCorrect, PTL DEF Spec
===========================================================================
