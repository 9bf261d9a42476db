-------------------------- MODULE AdmissionProofs --------------------------
(***************************************************************************)
(* Proofs about Admission, for any number of jobs, any capacity and any     *)
(* settings.                                                               *)
(***************************************************************************)
EXTENDS Admission, FiniteSetTheorems, TLAPS

USE CapacityAssumption

\* The clamped limit is a limit.
LEMMA ClampedType == \A n \in Int : ClampedLimit(n) \in 0..Capacity
BY DEF ClampedLimit

LEMMA AdmittedFinite ==
  /\ IsFiniteSet(Admitted) /\ Cardinality(Admitted) \in Nat
  /\ IsFiniteSet(Admitted') /\ Cardinality(Admitted') \in Nat
<1>1. Admitted \subseteq Jobs /\ Admitted' \subseteq Jobs
  BY DEF Admitted, At
<1>2. IsFiniteSet(Admitted) /\ IsFiniteSet(Admitted')
  BY <1>1, JobsAssumption, FS_Subset
<1> QED BY <1>2, FS_CardinalityType

---------------------------------------------------------------------------
(* Type correctness.                                                       *)

LEMMA TypeInit == Init => TypeOK
<1> SUFFICES ASSUME Init PROVE TypeOK
  OBVIOUS
<1>1. PICK s \in Settings :
         /\ limit = ClampedLimit(s.limit)
         /\ first = IF s.first <= 0 THEN DefaultStart ELSE s.first
         /\ last = IF s.last < first THEN first ELSE s.last
  BY DEF Init
<1>2. s.limit \in Int /\ s.first \in Int /\ s.last \in Int
  BY SettingsAssumption
<1>3. limit \in 0..Capacity /\ first \in Nat \ {0} /\ last \in Nat \ {0} /\ first <= last
  BY <1>1, <1>2, ClampedType DEF DefaultStart
<1> QED BY <1>3 DEF Init, TypeOK, Stations

LEMMA TypeStep == TypeOK /\ [Next]_vars => TypeOK'
<1> SUFFICES ASSUME TypeOK, [Next]_vars PROVE TypeOK'
  OBVIOUS
<1> USE DEF TypeOK, Move, Stations, Asking, Inside, limiter, ports
<1>1. ASSUME NEW s \in Settings, SetLimit(s) PROVE TypeOK'
  BY <1>1, SettingsAssumption, ClampedType DEF SetLimit
<1>2. CASE SetRange
  <2>1. PICK s \in Settings :
           /\ first' = IF s.first <= 0 THEN first ELSE s.first
           /\ last' = IF s.last < first' THEN first' ELSE s.last
    BY <1>2 DEF SetRange
  <2>2. s.first \in Int /\ s.last \in Int
    BY SettingsAssumption
  <2>3. first' \in Nat \ {0} /\ last' \in Nat \ {0} /\ first' <= last'
    BY <2>1, <2>2
  <2> QED BY <1>2, <2>3 DEF SetRange
<1>3. ASSUME NEW j \in Jobs, Arrive(j) PROVE TypeOK'
  BY <1>3 DEF Arrive
<1>4. ASSUME NEW j \in Jobs, Load(j) PROVE TypeOK'
  BY <1>4 DEF Load
<1>5. ASSUME NEW j \in Jobs, Test(j) PROVE TypeOK'
  BY <1>5 DEF Test
<1>6. ASSUME NEW j \in Jobs, Send(j) PROVE TypeOK'
  BY <1>6 DEF Send
<1>7. ASSUME NEW j \in Jobs, Wake(j) PROVE TypeOK'
  BY <1>7 DEF Wake
<1>8. ASSUME NEW j \in Jobs, Cancel(j) PROVE TypeOK'
  BY <1>8 DEF Cancel
<1>9. ASSUME NEW j \in Jobs, Release(j) PROVE TypeOK'
  BY <1>9 DEF Release
<1>10. ASSUME NEW j \in Jobs, AcquirePort(j) PROVE TypeOK'
  BY <1>10 DEF AcquirePort
<1>11. ASSUME NEW j \in Jobs, NoPort(j) PROVE TypeOK'
  BY <1>11 DEF NoPort
<1>12. ASSUME NEW j \in Jobs, ReleasePort(j) PROVE TypeOK'
  BY <1>12 DEF ReleasePort
<1>13. CASE UNCHANGED vars
  BY <1>13 DEF vars
<1> QED
  BY <1>1, <1>2, <1>3, <1>4, <1>5, <1>6, <1>7, <1>8, <1>9, <1>10, <1>11, <1>12, <1>13
  DEF Next, Refresh, Loop

\* Type correctness.
THEOREM AdmissionTypeCorrect == Spec => []TypeOK
BY TypeInit, TypeStep, PTL DEF Spec

---------------------------------------------------------------------------
(* The tokens.                                                             *)

\* A step after which no fewer jobs are admitted and no more tokens are out.
LEMMA LeakKept ==
  ASSUME NoTokenLeak, TypeOK, TypeOK', Admitted \subseteq Admitted', tokens' = tokens
  PROVE  NoTokenLeak'
<1>1. Cardinality(Admitted) <= Cardinality(Admitted') /\ Cardinality(Admitted') \in Nat
  BY AdmittedFinite, FS_Subset
<1> QED BY <1>1, AdmittedFinite DEF NoTokenLeak, TypeOK

\* The first job in is one more.
LEMMA OneMore ==
  ASSUME NEW j \in Jobs, j \notin Admitted, Admitted' = Admitted \cup {j}
  PROVE  Cardinality(Admitted') = Cardinality(Admitted) + 1
BY AdmittedFinite, FS_AddElement

LEMMA OneLess ==
  ASSUME NEW j \in Jobs, j \in Admitted, Admitted' = Admitted \ {j}
  PROVE  Cardinality(Admitted') = Cardinality(Admitted) - 1
BY AdmittedFinite, FS_RemoveElement

LEMMA LeakStep == TypeOK /\ TypeOK' /\ NoTokenLeak /\ [Next]_vars => NoTokenLeak'
<1> SUFFICES ASSUME TypeOK, TypeOK', NoTokenLeak, [Next]_vars PROVE NoTokenLeak'
  OBVIOUS
<1> USE DEF Move, Admitted, At, Inside, limiter
<1>1. ASSUME NEW s \in Settings, SetLimit(s) PROVE NoTokenLeak'
  BY <1>1, LeakKept DEF SetLimit, TypeOK
<1>2. CASE SetRange
  BY <1>2, LeakKept DEF SetRange, TypeOK
<1>3. ASSUME NEW j \in Jobs, Arrive(j) PROVE NoTokenLeak'
  BY <1>3, LeakKept DEF Arrive, TypeOK
<1>4. ASSUME NEW j \in Jobs, Load(j) PROVE NoTokenLeak'
  BY <1>4, LeakKept DEF Load, TypeOK
<1>5. ASSUME NEW j \in Jobs, Test(j) PROVE NoTokenLeak'
  BY <1>5, LeakKept DEF Test, TypeOK
<1>6. ASSUME NEW j \in Jobs, Send(j) PROVE NoTokenLeak'
  <2>1. j \notin Admitted /\ Admitted' = Admitted \cup {j}
    BY <1>6 DEF Send, TypeOK
  <2> HIDE DEF Admitted
  <2>2. Cardinality(Admitted') = Cardinality(Admitted) + 1
    BY <2>1, OneMore
  <2>3. tokens \in Nat /\ tokens' = tokens + 1
    BY <1>6 DEF Send, TypeOK
  <2> QED BY <2>2, <2>3, AdmittedFinite DEF NoTokenLeak
<1>7. ASSUME NEW j \in Jobs, Wake(j) PROVE NoTokenLeak'
  BY <1>7, LeakKept DEF Wake, TypeOK
<1>8. ASSUME NEW j \in Jobs, Cancel(j) PROVE NoTokenLeak'
  BY <1>8, LeakKept DEF Cancel, TypeOK
<1>9. ASSUME NEW j \in Jobs, Release(j) PROVE NoTokenLeak'
  <2>1. j \in Admitted /\ Admitted' = Admitted \ {j}
    BY <1>9 DEF Release, TypeOK
  <2> HIDE DEF Admitted
  <2>2. Cardinality(Admitted') = Cardinality(Admitted) - 1
    BY <2>1, OneLess
  <2>3. tokens \in Nat /\ tokens' = IF tokens > 0 THEN tokens - 1 ELSE 0
    BY <1>9 DEF Release, TypeOK
  <2> QED BY <2>2, <2>3, AdmittedFinite DEF NoTokenLeak
<1>10. ASSUME NEW j \in Jobs, AcquirePort(j) PROVE NoTokenLeak'
  BY <1>10, LeakKept DEF AcquirePort, TypeOK
<1>11. ASSUME NEW j \in Jobs, NoPort(j) PROVE NoTokenLeak'
  BY <1>11, LeakKept DEF NoPort, TypeOK
<1>12. ASSUME NEW j \in Jobs, ReleasePort(j) PROVE NoTokenLeak'
  BY <1>12, LeakKept DEF ReleasePort, TypeOK
<1>13. CASE UNCHANGED vars
  BY <1>13, LeakKept DEF vars
<1> QED
  BY <1>1, <1>2, <1>3, <1>4, <1>5, <1>6, <1>7, <1>8, <1>9, <1>10, <1>11, <1>12, <1>13
  DEF Next, Refresh, Loop

\* However the limit changes while jobs ask, run and leave, the tokens out never
\* outnumber the jobs admitted.
THEOREM TokensDoNotLeak == Spec => []NoTokenLeak
<1>1. Init => NoTokenLeak
  BY AdmittedFinite DEF Init, NoTokenLeak
<1> QED BY <1>1, LeakStep, AdmissionTypeCorrect, PTL DEF Spec

---------------------------------------------------------------------------
(* The ports.                                                              *)

LEMMA PortsStep == TypeOK /\ PortsHeld /\ [Next]_vars => PortsHeld'
<1> SUFFICES ASSUME TypeOK, PortsHeld, [Next]_vars PROVE PortsHeld'
  OBVIOUS
<1> USE DEF Move, At, ports, PortsHeld
<1>1. ASSUME NEW s \in Settings, SetLimit(s) PROVE PortsHeld'
  BY <1>1 DEF SetLimit, TypeOK
<1>2. CASE SetRange
  BY <1>2 DEF SetRange, TypeOK
<1>3. ASSUME NEW j \in Jobs, Arrive(j) PROVE PortsHeld'
  BY <1>3 DEF Arrive, TypeOK
<1>4. ASSUME NEW j \in Jobs, Load(j) PROVE PortsHeld'
  BY <1>4 DEF Load, TypeOK
<1>5. ASSUME NEW j \in Jobs, Test(j) PROVE PortsHeld'
  BY <1>5 DEF Test, TypeOK
<1>6. ASSUME NEW j \in Jobs, Send(j) PROVE PortsHeld'
  BY <1>6 DEF Send, TypeOK
<1>7. ASSUME NEW j \in Jobs, Wake(j) PROVE PortsHeld'
  BY <1>7 DEF Wake, TypeOK
<1>8. ASSUME NEW j \in Jobs, Cancel(j) PROVE PortsHeld'
  BY <1>8 DEF Cancel, TypeOK
<1>9. ASSUME NEW j \in Jobs, Release(j) PROVE PortsHeld'
  BY <1>9 DEF Release, TypeOK
<1>10. ASSUME NEW j \in Jobs, AcquirePort(j) PROVE PortsHeld'
  BY <1>10 DEF AcquirePort, TypeOK
<1>11. ASSUME NEW j \in Jobs, NoPort(j) PROVE PortsHeld'
  BY <1>11 DEF NoPort, TypeOK
<1>12. ASSUME NEW j \in Jobs, ReleasePort(j) PROVE PortsHeld'
  BY <1>12 DEF ReleasePort, TypeOK
<1>13. CASE UNCHANGED vars
  BY <1>13 DEF vars
<1> QED
  BY <1>1, <1>2, <1>3, <1>4, <1>5, <1>6, <1>7, <1>8, <1>9, <1>10, <1>11, <1>12, <1>13
  DEF Next, Refresh, Loop

\* Each running job has a port of its own, and no other port is in use.
THEOREM PortsAreHeld == Spec => []PortsHeld
<1>1. Init => PortsHeld
  BY DEF Init, PortsHeld, At
<1> QED BY <1>1, PortsStep, AdmissionTypeCorrect, PTL DEF Spec
===========================================================================
