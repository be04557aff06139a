------------------------- MODULE RoundReport_proofs -------------------------
(***************************************************************************)
(* What holds of a validator's reports for any set of round ids, any       *)
(* number of retries and any selection of events.                          *)
(***************************************************************************)
EXTENDS RoundReport, TLAPS

\* The flags stay flags.
LEMMA FlagStep == FlagTypes /\ [Next]_vars => FlagTypes'
<1> SUFFICES ASSUME FlagTypes, [Next]_vars PROVE FlagTypes'
  OBVIOUS
<1>1. CASE StartRound
  BY <1>1 DEF StartRound, FlagTypes
<1>2. CASE LateStart
  BY <1>2 DEF LateStart, memory, FlagTypes
<1>3. CASE Begin
  BY <1>3 DEF Begin, FlagTypes
<1>4. CASE Flush
  BY <1>4 DEF Flush, FlagTypes
<1>5. CASE Auth
  BY <1>5 DEF Auth, FlagTypes
<1>6. CASE StartAccepted
  BY <1>6 DEF StartAccepted, FlagTypes
<1>7. CASE StartRefused
  BY <1>7 DEF StartRefused, FlagTypes
<1>8. CASE StartFailed
  BY <1>8 DEF StartFailed, FlagTypes
<1>9. CASE SetTasks
  BY <1>9 DEF SetTasks, FlagTypes
<1>10. CASE Register
  BY <1>10 DEF Register, FlagTypes
<1>11. CASE Evaluate
  BY <1>11 DEF Evaluate, memory, FlagTypes
<1>12. CASE EndUnreported
  BY <1>12 DEF EndUnreported, Reset, FlagTypes
<1>13. CASE Finish
  BY <1>13 DEF Finish, FlagTypes
<1>14. CASE CallFinish
  BY <1>14 DEF CallFinish, Reported, FinishRefused, FinishFailed, Kept, Reset, memory, FlagTypes
<1>15. CASE Fallback
  BY <1>15 DEF Fallback, Reported, Kept, Reset, FlagTypes
<1>16. CASE Crash
  BY <1>16 DEF Crash, FlagTypes
<1>17. CASE Recover
  BY <1>17 DEF Recover, memory, FlagTypes
<1>18. CASE UNCHANGED vars
  BY <1>18 DEF vars, memory, FlagTypes
<1> QED
  BY <1>1, <1>2, <1>3, <1>4, <1>5, <1>6, <1>7, <1>8, <1>9, <1>10, <1>11, <1>12, <1>13,
     <1>14, <1>15, <1>16, <1>17, <1>18 DEF Next, Step

\* Ids, steps and counters keep their types.
LEMMA DataStep == DataTypes /\ [Next]_vars => DataTypes'
<1> SUFFICES ASSUME DataTypes, [Next]_vars PROVE DataTypes'
  OBVIOUS
<1> USE ReportAssumption DEF ReportAssumption, Sending, Fates
<1>1. CASE StartRound
  BY <1>1 DEF StartRound, DataTypes, Calls
<1>2. CASE LateStart
  BY <1>2 DEF LateStart, memory, DataTypes, Calls
<1>3. CASE Begin
  BY <1>3 DEF Begin, DataTypes, Calls
<1>4. CASE Flush
  BY <1>4 DEF Flush, DataTypes, Calls
<1>5. CASE Auth
  BY <1>5 DEF Auth, DataTypes, Calls
<1>6. CASE StartAccepted
  BY <1>6 DEF StartAccepted, DataTypes, Calls
<1>7. CASE StartRefused
  BY <1>7 DEF StartRefused, DataTypes, Calls
<1>8. CASE StartFailed
  BY <1>8 DEF StartFailed, DataTypes, Calls
<1>9. CASE SetTasks
  BY <1>9 DEF SetTasks, DataTypes, Calls
<1>10. CASE Register
  BY <1>10 DEF Register, DataTypes, Calls
<1>11. CASE Evaluate
  BY <1>11 DEF Evaluate, memory, DataTypes, Calls
<1>12. CASE EndUnreported
  BY <1>12 DEF EndUnreported, Reset, DataTypes, Calls
<1>13. CASE Finish
  BY <1>13 DEF Finish, DataTypes, Calls
<1>14. CASE CallFinish
  <2> pc = "finish" /\ id \in Ids
    BY <1>14 DEF CallFinish, DataTypes
  <2>1. CASE Reported
    BY <2>1 DEF Reported, Reset, DataTypes, Calls
  <2>2. CASE FinishRefused /\ attempt < FinishRetries
    <3>1. attempt' = attempt + 1
          /\ UNCHANGED <<closed, confirmed, pending, pc, todo, id, tasks, report>>
      BY <2>2 DEF FinishRefused
    <3> QED BY <2>2, <3>1 DEF DataTypes, Calls
  <2>3. CASE FinishRefused /\ ~(attempt < FinishRetries)
    <3>1. Kept /\ UNCHANGED closed
      BY <2>3 DEF FinishRefused
    <3> QED BY <3>1 DEF Kept, Reset, DataTypes, Calls
  <2>4. CASE FinishFailed
    BY <2>4 DEF FinishFailed, memory, DataTypes, Calls
  <2> QED BY <1>14, <2>1, <2>2, <2>3, <2>4 DEF CallFinish
<1>15. CASE Fallback
  <2> pc = "fallback" /\ id \in Ids
    BY <1>15 DEF Fallback, DataTypes
  <2>1. CASE Reported
    BY <2>1 DEF Reported, Reset, DataTypes, Calls
  <2>2. CASE Kept
    <3>1. closed' \subseteq Ids
      BY <1>15 DEF Fallback, Reported, DataTypes
    <3> QED BY <2>2, <3>1 DEF Kept, Reset, DataTypes, Calls
  <2> QED BY <1>15, <2>1, <2>2 DEF Fallback
<1>16. CASE Crash
  BY <1>16 DEF Crash, DataTypes, Calls
<1>17. CASE Recover
  BY <1>17 DEF Recover, memory, DataTypes, Calls
<1>18. CASE UNCHANGED vars
  BY <1>18 DEF vars, memory, DataTypes, Calls
<1> QED
  BY <1>1, <1>2, <1>3, <1>4, <1>5, <1>6, <1>7, <1>8, <1>9, <1>10, <1>11, <1>12, <1>13,
     <1>14, <1>15, <1>16, <1>17, <1>18 DEF Next, Step

\* Type correctness: the memory, the files and the platform keep their types,
\* and no call is retried more often than configured.
THEOREM TypeCorrect == Spec => []TypeOK
<1>1. Init => TypeOK
  <2>1. Init => FlagTypes
    BY DEF Init, FlagTypes
  <2>2. Init => DataTypes
    BY ReportAssumption DEF Init, DataTypes, ReportAssumption, Calls, Fates, Sending
  <2> QED BY <2>1, <2>2 DEF TypeOK
<1>2. TypeOK /\ [Next]_vars => TypeOK'
  BY FlagStep, DataStep DEF TypeOK
<1> QED BY <1>1, <1>2, PTL DEF Spec

-----------------------------------------------------------------------------
(* A report that has been built is accounted for.                          *)

\* From the moment it is built a report is being sent, in a file or received,
\* unless a crash or the disk took it: every step that takes a file away has
\* had the round closed first, and no way out of the sending forgets it.
THEOREM ReportsKept == Spec => []ReportsAreKept
<1>1. Init => ReportsAreKept
  BY DEF Init, ReportsAreKept
<1>2. TypeOK /\ ReportsAreKept /\ [Next]_vars => ReportsAreKept'
  <2> SUFFICES ASSUME TypeOK, ReportsAreKept, [Next]_vars, NEW i \in Ids,
                      (report[i] = "built")'
               PROVE  Accounted(i)'
    BY DEF ReportsAreKept
  <2>a. report[i] = "built" => i \in closed \cup pending \/ (Sending /\ i = id)
    BY DEF ReportsAreKept, Accounted
  <2>b. report \in [Ids -> Fates] /\ (pc # "idle" => id \in Ids)
    BY DEF TypeOK, DataTypes
  <2>1. CASE StartRound
    <3>1. PICK k \in Ids \ pending : closed' = closed \ {k} /\ report' = [report EXCEPT ![k] = "none"]
      BY <2>1 DEF StartRound
    <3>2. i # k /\ report[i] = "built"
      BY <3>1, <2>b
    <3>3. pc = "idle" /\ pending' = pending
      BY <2>1 DEF StartRound
    <3> QED BY <3>1, <3>2, <3>3, <2>a DEF Accounted, Sending
  <2>2. CASE Flush
    <3>1. PICK k \in todo, answer \in Answers(Failures \cup {"authority"}) :
            /\ closed' = IF answer \in {"ok", "lost"} THEN closed \cup {k} ELSE closed
            /\ pending' = IF answer = "ok" THEN pending \ {k} ELSE pending
      BY <2>2 DEF Flush
    <3>2. report' = report /\ pc = "flush"
      BY <2>2 DEF Flush
    <3> QED BY <3>1, <3>2, <2>a DEF Accounted, Sending
  <2>3. CASE Finish
    <3>1. report' = [report EXCEPT ![id] = "built"] /\ pc = "settling" /\ pc' = "finish"
          /\ UNCHANGED <<closed, pending, id>>
      BY <2>3 DEF Finish
    <3> QED BY <3>1, <2>a, <2>b DEF Accounted, Sending
  <2>4. CASE (CallFinish \/ Fallback) /\ pc' = "idle"
    <3>1. closed \subseteq closed' /\ pending \subseteq pending' /\ Sending
      BY <2>4 DEF CallFinish, Fallback, Reported, FinishRefused, FinishFailed, Kept, Sending
    <3>2. \/ report' = report /\ id \in closed' \cup pending'
          \/ report' = [report EXCEPT ![id] = "gone"]
      BY <2>4 DEF CallFinish, Fallback, Reported, FinishRefused, FinishFailed, Kept
    <3> QED BY <3>1, <3>2, <2>a, <2>b DEF Accounted, Sending
  <2>5. CASE CallFinish /\ pc' # "idle"
    <3>1. closed \subseteq closed' /\ pending' = pending /\ report' = report /\ id' = id /\ Sending'
      BY <2>5 DEF CallFinish, Reported, FinishRefused, FinishFailed, Kept, Reset, Sending, memory
    <3> QED BY <3>1, <2>a DEF Accounted
  <2>6. CASE Crash
    <3>1. UNCHANGED <<closed, pending>>
          /\ report' = IF Sending THEN [report EXCEPT ![id] = "gone"] ELSE report
      BY <2>6 DEF Crash
    <3> QED BY <3>1, <2>a, <2>b DEF Accounted
  <2>7. CASE UNCHANGED <<closed, pending, report>> /\ (~Sending \/ UNCHANGED <<pc, id>>)
    BY <2>7, <2>a DEF Accounted, Sending
  <2>8. \/ StartRound \/ Flush \/ Finish \/ CallFinish \/ Crash
        \/ Fallback /\ pc' = "idle"
        \/ UNCHANGED <<closed, pending, report>> /\ (~Sending \/ UNCHANGED <<pc, id>>)
    BY DEF Next, Step, LateStart, Begin, Auth, StartAccepted, StartRefused, StartFailed,
           SetTasks, Register, Evaluate, EndUnreported, Fallback, Reported, Kept, Reset,
           Recover, vars, memory, Sending
  <2> QED BY <2>1, <2>2, <2>3, <2>4, <2>5, <2>6, <2>7, <2>8
<1> QED BY <1>1, <1>2, TypeCorrect, PTL DEF Spec

-----------------------------------------------------------------------------
(* What is sent belongs to the round, and nothing is sent offline.         *)

\* What the ready flag means, and where a round has not been acknowledged.
ReadyInv ==
    /\ pc = "tasks" => confirmed = {"round"}
    /\ pc \in {"handshake", "flush", "start"} => confirmed = {}
    /\ pc = "register" /\ ready => {"round", "tasks"} \subseteq confirmed
    /\ pc \in {"start", "register"} => "run" \notin confirmed
    /\ pc = "start" => ~ready
    /\ RunsBelongToTheRound

\* An agent run is started only in a round that the platform has accepted with
\* its tasks since it began.
THEOREM RunsBelong == Spec => []RunsBelongToTheRound
<1>1. Init => ReadyInv
  BY DEF Init, ReadyInv, RunsBelongToTheRound
<1>2. ReadyInv /\ [Next]_vars => ReadyInv'
  <2> SUFFICES ASSUME ReadyInv, [Next]_vars PROVE ReadyInv'
    OBVIOUS
  <2> USE DEF ReadyInv, RunsBelongToTheRound
  <2>1. CASE StartRound
    BY <2>1 DEF StartRound
  <2>2. CASE LateStart
    BY <2>2 DEF LateStart, memory
  <2>3. CASE Begin
    BY <2>3 DEF Begin
  <2>4. CASE Flush
    BY <2>4 DEF Flush
  <2>5. CASE Auth
    BY <2>5 DEF Auth
  <2>6. CASE StartAccepted
    BY <2>6 DEF StartAccepted
  <2>7. CASE StartRefused
    BY <2>7 DEF StartRefused
  <2>8. CASE StartFailed
    BY <2>8 DEF StartFailed
  <2>9. CASE SetTasks
    BY <2>9 DEF SetTasks
  <2>10. CASE Register
    BY <2>10 DEF Register
  <2>11. CASE Evaluate
    BY <2>11 DEF Evaluate, memory
  <2>12. CASE EndUnreported
    BY <2>12 DEF EndUnreported, Reset
  <2>13. CASE Finish
    BY <2>13 DEF Finish
  <2>14. CASE CallFinish
    BY <2>14 DEF CallFinish, Reported, FinishRefused, FinishFailed, Kept, Reset, memory
  <2>15. CASE Fallback
    BY <2>15 DEF Fallback, Reported, Kept, Reset
  <2>16. CASE Crash
    BY <2>16 DEF Crash
  <2>17. CASE Recover
    BY <2>17 DEF Recover, memory
  <2>18. CASE UNCHANGED vars
    BY <2>18 DEF vars, memory
  <2> QED BY <2>1, <2>2, <2>3, <2>4, <2>5, <2>6, <2>7, <2>8, <2>9, <2>10, <2>11, <2>12,
            <2>13, <2>14, <2>15, <2>16, <2>17, <2>18 DEF Next, Step
<1>3. ReadyInv => RunsBelongToTheRound
  BY DEF ReadyInv
<1> QED BY <1>1, <1>2, <1>3, PTL DEF Spec

\* The steps in which the platform is asked are not taken offline.
OfflineInv ==
    offline => pc \notin {"start", "tasks", "finish", "fallback"}

\* A round that goes offline sends nothing any more.
THEOREM OfflineSilent == Spec => OfflineRoundsSendNothing
<1> DEFINE Silent == offline /\ pc \notin {"idle", "handshake", "flush"} =>
                       confirmed' \subseteq confirmed /\ closed' = closed /\ pending' = pending
<1>1. Init => OfflineInv
  BY DEF Init, OfflineInv
<1>2. OfflineInv /\ [Next]_vars => OfflineInv'
  BY DEF OfflineInv, Next, Step, vars, memory, StartRound, LateStart, Begin, Flush, Auth,
         StartAccepted, StartRefused, StartFailed, SetTasks, Register, Evaluate,
         EndUnreported, Finish, CallFinish, Fallback, Reported, Kept, FinishRefused,
         FinishFailed, Reset, Crash, Recover
<1>3. OfflineInv /\ [Next]_vars => [Silent]_vars
  BY DEF OfflineInv, Next, Step, vars, memory, StartRound, LateStart, Begin, Flush, Auth,
         StartAccepted, StartRefused, StartFailed, SetTasks, Register, Evaluate,
         EndUnreported, Finish, CallFinish, Fallback, Reported, Kept, FinishRefused,
         FinishFailed, Reset, Crash, Recover
<1> QED BY <1>1, <1>2, <1>3, PTL DEF Spec, OfflineRoundsSendNothing
=============================================================================
