----------------------------- MODULE RoundReport -----------------------------
(***************************************************************************)
(* The report of a validator's rounds to the platform IWAP                 *)
(* (platform/utils/round_flow.py): a round is opened, given its tasks and  *)
(* its agent runs, receives their evaluations and is finished.  Every call *)
(* may be refused, fail or be answered too late; a finish that does not    *)
(* get through is kept in a file and replayed at the start of a later      *)
(* round.                                                                  *)
(*                                                                         *)
(* An id stands for a round id with a random suffix.  One that neither the *)
(* process nor the disk knows any more may be minted again, so a finite    *)
(* set of ids is enough for any number of rounds.                          *)
(***************************************************************************)
EXTENDS Naturals, FiniteSets

CONSTANTS
    Ids,            \* round ids
    NoId,           \* no round: current_round_id is None
    StartRetries,   \* START_ROUND_MAX_RETRIES
    FinishRetries,  \* FINISH_ROUND_MAX_RETRIES
    Events          \* what may happen beside rounds that go well

\* "lost" is a call that was carried out and whose answer did not arrive,
\* "error" one that was not; "disk" is a report that cannot be written to its
\* file; the others but "skipped" and "crash" are the refusals the code tells
\* apart.
AllEvents == {"lost", "error", "authority", "window", "duplicate", "mismatch",
              "attached", "skipped", "disk", "crash"}

ASSUME ReportAssumption ==
    /\ NoId \notin Ids
    /\ StartRetries \in Nat
    /\ FinishRetries \in Nat
    /\ Events \subseteq AllEvents

VARIABLES
    platformUp,     \* the platform has recovered for good
    closed,         \* the rounds the platform has closed
    confirmed,      \* what the platform has acknowledged of the current round
    pending,        \* the files in pending_finish that can be read
    pc,             \* the call the validator is about to make
    attempt,        \* retries made so far
    todo,           \* the files still to be replayed
    id,             \* current_round_id
    tasks,          \* the id the keys of current_round_tasks begin with
    hasRun,         \* current_agent_runs has the miner
    offline,        \* _iwap_offline_mode
    shadow,         \* _iwap_shadow_mode
    ready,          \* _iwap_round_ready
    report          \* what became of the report of a round

memory == <<attempt, todo, id, tasks, hasRun, offline, shadow, ready>>
vars == <<platformUp, closed, confirmed, pending, pc, memory, report>>

\* Of the finish_request of a round: it has not been built; it has been built;
\* it is gone, because the process ended while it was being sent or because its
\* file could not be written.
Fates == {"none", "built", "gone"}

Calls == {"idle", "handshake", "flush", "start", "tasks", "register",
          "evaluating", "settling", "finish", "fallback"}

\* The report exists in the memory of the process only.
Sending == pc \in {"finish", "fallback"}

\* How a call may end, as IWAPClient._with_retry returns or raises it.  The
\* bound: with all ids but one pending, the platform behaves, so that there is
\* always an id for the next round.
Full == Cardinality(pending) >= Cardinality(Ids) - 1
Answers(refusals) ==
    {"ok"} \cup IF platformUp \/ Full THEN {} ELSE refusals \cap Events
Failures == {"lost", "error"}

-----------------------------------------------------------------------------
(* The start of a round.                                                   *)

Init ==
    /\ platformUp = FALSE
    /\ closed = {} /\ confirmed = {} /\ pending = {}
    /\ report = [i \in Ids |-> "none"]
    /\ pc = "idle" /\ attempt = 0 /\ todo = {}
    /\ id = NoId /\ tasks = NoId
    /\ hasRun = FALSE /\ offline = FALSE /\ shadow = FALSE /\ ready = FALSE

StartRound ==
    /\ pc = "idle"
    /\ \E i \in Ids \ pending :
         /\ id' = i
         /\ closed' = closed \ {i}
         /\ report' = [report EXCEPT ![i] = "none"]
    /\ confirmed' = {}
    /\ pc' = "handshake"
    /\ UNCHANGED <<platformUp, pending, attempt, todo, tasks, hasRun,
                   offline, shadow, ready>>

\* The late-start guard: the round is left without a reset of its state.
LateStart ==
    /\ pc = "handshake"
    /\ "skipped" \in Events
    /\ pc' = "idle"
    /\ UNCHANGED <<platformUp, closed, confirmed, pending, memory, report>>

\* The tasks are keyed by the id of the round before the platform is asked.
Begin ==
    /\ pc = "handshake"
    /\ tasks' = id
    /\ todo' = IF offline THEN {} ELSE pending
    /\ pc' = "flush"
    /\ UNCHANGED <<platformUp, closed, confirmed, pending, attempt, id, hasRun,
                   offline, shadow, ready, report>>

\* Mutant: the file of a replayed finish is removed whatever comes back.
Flush_RemovesAlways ==
    /\ pc = "flush"
    /\ \E i \in todo, answer \in Answers(Failures \cup {"authority"}) :
         /\ todo' = todo \ {i}
         /\ closed' = IF answer \in {"ok", "lost"} THEN closed \cup {i} ELSE closed
         /\ pending' = pending \ {i}
    /\ UNCHANGED <<platformUp, confirmed, pc, attempt, id, tasks, hasRun,
                   offline, shadow, ready, report>>

\* A pending finish is sent again; its file goes only when it gets through.
Flush ==
    /\ pc = "flush"
    /\ \E i \in todo, answer \in Answers(Failures \cup {"authority"}) :
         /\ todo' = todo \ {i}
         /\ closed' = IF answer \in {"ok", "lost"} THEN closed \cup {i} ELSE closed
         /\ pending' = IF answer = "ok" THEN pending \ {i} ELSE pending
    /\ UNCHANGED <<platformUp, confirmed, pc, attempt, id, tasks, hasRun,
                   offline, shadow, ready, report>>

\* Mutant: the ready flag of the last round is not taken back.
Auth_KeepsReady ==
    /\ pc = "flush" /\ todo = {}
    /\ attempt' = 0
    /\ \E answer \in Answers(Failures) :
         /\ offline' = (answer # "ok")
         /\ pc' = IF answer = "ok" THEN "start" ELSE "register"
    /\ UNCHANGED <<platformUp, closed, confirmed, pending, todo, id, tasks, hasRun,
                   shadow, ready, report>>

\* Mutant: once offline, always offline.
Auth_StaysOffline ==
    /\ pc = "flush" /\ todo = {}
    /\ ready' = FALSE
    /\ attempt' = 0
    /\ \E answer \in Answers(Failures) :
         /\ offline' = (offline \/ answer # "ok")
         /\ pc' = IF offline' THEN "register" ELSE "start"
    /\ UNCHANGED <<platformUp, closed, confirmed, pending, todo, id, tasks, hasRun,
                   shadow, report>>

\* auth_check decides whether the round takes place online.
Auth ==
    /\ pc = "flush" /\ todo = {}
    /\ ready' = FALSE
    /\ attempt' = 0
    /\ \E answer \in Answers(Failures) :
         /\ offline' = (answer # "ok")
         /\ pc' = IF answer = "ok" THEN "start" ELSE "register"
    /\ UNCHANGED <<platformUp, closed, confirmed, pending, todo, id, tasks, hasRun,
                   shadow, report>>

\* start_round is accepted, perhaps under another id and in shadow mode, or it
\* is refused because the round exists, which counts as accepted.
StartAccepted ==
    /\ pc = "start"
    /\ \/ \E vrid \in {id} \cup IF "attached" \in Answers({"attached"}) THEN Ids \ pending ELSE {},
             answeredShadow \in BOOLEAN :
            /\ id' = vrid
            /\ shadow' = (shadow \/ answeredShadow)
       \/ "duplicate" \in Answers({"duplicate"}) /\ UNCHANGED <<id, shadow>>
    /\ confirmed' = {"round"}
    /\ pc' = "tasks"
    /\ UNCHANGED <<platformUp, closed, pending, attempt, todo, tasks, hasRun,
                   offline, ready, report>>

\* Mutant: one retry too many.
StartRefused_OneMore ==
    /\ pc = "start"
    /\ \E answer \in Answers({"authority", "window"}) \ {"ok"} :
         IF attempt <= StartRetries
         THEN attempt' = attempt + 1 /\ UNCHANGED <<pc, shadow>>
         ELSE /\ pc' = "register"
              /\ shadow' = (shadow \/ answer = "authority")
              /\ UNCHANGED attempt
    /\ UNCHANGED <<platformUp, closed, confirmed, pending, todo, id, tasks, hasRun,
                   offline, ready, report>>

\* The main validator has to open the round first, or its window is not open
\* yet: both are waited for, and then the round goes on without the platform,
\* in shadow mode if it was the main validator that was missing.
StartRefused ==
    /\ pc = "start"
    /\ \E answer \in Answers({"authority", "window"}) \ {"ok"} :
         IF attempt < StartRetries
         THEN attempt' = attempt + 1 /\ UNCHANGED <<pc, shadow>>
         ELSE /\ pc' = "register"
              /\ shadow' = (shadow \/ answer = "authority")
              /\ UNCHANGED attempt
    /\ UNCHANGED <<platformUp, closed, confirmed, pending, todo, id, tasks, hasRun,
                   offline, ready, report>>

\* Any other answer, and a season or round the platform does not agree with.
StartFailed ==
    /\ pc = "start"
    /\ Answers(Failures \cup {"mismatch"}) # {"ok"}
    /\ offline' = TRUE
    /\ pc' = "register"
    /\ UNCHANGED <<platformUp, closed, confirmed, pending, attempt, todo, id, tasks,
                   hasRun, shadow, ready, report>>

SetTasks ==
    /\ pc = "tasks"
    /\ \E answer \in Answers(Failures \cup {"duplicate"}) :
         LET accepted == answer \in {"ok", "duplicate"}
         IN  /\ ready' = accepted
             /\ confirmed' = IF accepted THEN confirmed \cup {"tasks"} ELSE confirmed
    /\ pc' = "register"
    /\ UNCHANGED <<platformUp, closed, pending, attempt, todo, id, tasks, hasRun,
                   offline, shadow, report>>

-----------------------------------------------------------------------------
(* Its agent runs, their evaluations and its end.                          *)

\* One miner stands for all: its run is started unless the round is not ready
\* on the platform, or the miner's result of an earlier round is reused.
Register ==
    /\ pc = "register"
    /\ \/ /\ ~offline /\ ready
          /\ \E answer \in Answers(Failures \cup {"duplicate"}) :
               LET started == answer \in {"ok", "duplicate"}
               IN  /\ hasRun' = started
                   /\ confirmed' = IF started THEN confirmed \cup {"run"} ELSE confirmed
       \/ UNCHANGED <<hasRun, confirmed>>
    /\ pc' = "evaluating"
    /\ UNCHANGED <<platformUp, closed, pending, attempt, todo, id, tasks, offline,
                   shadow, ready, report>>

\* A batch goes out if the miner has a run and its tasks are found under the
\* round's id.  Shadow mode changes nothing.
Evaluate ==
    /\ pc = "evaluating"
    /\ IF ~offline /\ hasRun /\ tasks = id
       THEN \E answer \in Answers(Failures) :
              confirmed' = IF answer = "ok" THEN confirmed \cup {"evaluations"}
                           ELSE confirmed
       ELSE UNCHANGED confirmed
    /\ pc' = "settling"
    /\ UNCHANGED <<platformUp, closed, pending, memory, report>>

\* _reset_iwap_round_state leaves the offline and the ready flag alone.
Reset ==
    /\ id' = NoId /\ tasks' = NoId /\ hasRun' = FALSE /\ shadow' = FALSE
    /\ attempt' = 0
    /\ pc' = "idle"
    /\ UNCHANGED <<todo, offline, ready>>

\* The round ends unreported: it is offline, it was over before its
\* settlement, its agents were not all evaluated, or building the report fails.
EndUnreported ==
    /\ pc = "settling"
    /\ offline \/ Events \cap {"skipped", "error"} # {}
    /\ Reset
    /\ UNCHANGED <<platformUp, closed, confirmed, pending, report>>

\* Mutant: an offline round is reported like any other.
Finish_Offline ==
    /\ pc = "settling"
    /\ report' = [report EXCEPT ![id] = "built"]
    /\ pc' = "finish" /\ attempt' = 0
    /\ UNCHANGED <<platformUp, closed, confirmed, pending, todo, id, tasks, hasRun,
                   offline, shadow, ready>>

\* The report is built, in memory.
Finish ==
    /\ pc = "settling"
    /\ ~offline
    /\ report' = [report EXCEPT ![id] = "built"]
    /\ pc' = "finish" /\ attempt' = 0
    /\ UNCHANGED <<platformUp, closed, confirmed, pending, todo, id, tasks, hasRun,
                   offline, shadow, ready>>

\* The report got through.
Reported ==
    /\ closed' = closed \cup {id}
    /\ Reset
    /\ UNCHANGED <<platformUp, confirmed, pending, report>>

\* _persist_pending_finish_request and the end of the round.  What keeps the
\* file from being written, wholly or in part, is logged and forgotten.
Kept ==
    /\ \/ pending' = pending \cup {id} /\ UNCHANGED report
       \/ /\ "disk" \in Events
          /\ report' = [report EXCEPT ![id] = "gone"]
          /\ UNCHANGED pending
    /\ Reset
    /\ UNCHANGED <<platformUp, confirmed>>

FinishRefused ==
    /\ "authority" \in Answers({"authority"})
    /\ IF attempt < FinishRetries
       THEN /\ attempt' = attempt + 1
            /\ UNCHANGED <<platformUp, closed, confirmed, pending, pc, todo, id, tasks,
                           hasRun, offline, shadow, ready, report>>
       ELSE Kept /\ UNCHANGED closed

FinishFailed ==
    \E answer \in Answers(Failures) \ {"ok"} :
        /\ closed' = IF answer = "lost" THEN closed \cup {id} ELSE closed
        /\ pc' = "fallback"
        /\ UNCHANGED <<platformUp, confirmed, pending, memory, report>>

CallFinish == pc = "finish" /\ (Reported \/ FinishRefused \/ FinishFailed)

\* The report is sent once more, with the error as its summary.
Fallback ==
    /\ pc = "fallback"
    /\ \/ Reported
       \/ \E answer \in Answers(Failures \cup {"authority"}) \ {"ok"} :
            /\ closed' = IF answer = "lost" THEN closed \cup {id} ELSE closed
            /\ Kept

\* The process ends at any point and is started again by PM2.  A report that
\* is being sent, or written to its file, is in no file a replay can read.
Crash ==
    /\ ~platformUp
    /\ "crash" \in Events
    /\ report' = IF Sending THEN [report EXCEPT ![id] = "gone"] ELSE report
    /\ id' = NoId /\ tasks' = NoId
    /\ hasRun' = FALSE /\ offline' = FALSE /\ shadow' = FALSE /\ ready' = FALSE
    /\ attempt' = 0 /\ todo' = {}
    /\ pc' = "idle"
    /\ UNCHANGED <<platformUp, closed, confirmed, pending>>

\* From some moment on every call is answered and nothing crashes any more.
Recover ==
    /\ ~platformUp
    /\ platformUp' = TRUE
    /\ UNCHANGED <<closed, confirmed, pending, pc, memory, report>>

Step ==
    \/ StartRound \/ LateStart \/ Begin \/ Flush \/ Auth
    \/ StartAccepted \/ StartRefused \/ StartFailed \/ SetTasks
    \/ Register \/ Evaluate \/ EndUnreported \/ Finish \/ CallFinish \/ Fallback

Next == Step \/ Crash \/ Recover

Spec == Init /\ [][Next]_vars

\* forward() goes on, not every round is started too late, and the platform
\* recovers.
FairSpec == Spec /\ WF_vars(Step) /\ SF_vars(Begin) /\ WF_vars(Recover)

-----------------------------------------------------------------------------
(* Properties.                                                             *)

FlagTypes ==
    /\ platformUp \in BOOLEAN /\ hasRun \in BOOLEAN
    /\ offline \in BOOLEAN /\ shadow \in BOOLEAN /\ ready \in BOOLEAN

DataTypes ==
    /\ closed \subseteq Ids
    /\ confirmed \subseteq {"round", "tasks", "run", "evaluations"}
    /\ pending \subseteq Ids
    /\ pc \in Calls
    /\ attempt \in Nat
    /\ attempt <= IF Sending THEN FinishRetries ELSE StartRetries
    /\ todo \subseteq Ids
    /\ id \in Ids \cup {NoId}
    /\ pc # "idle" => id \in Ids
    /\ tasks \in Ids \cup {NoId}
    /\ report \in [Ids -> Fates]

TypeOK == FlagTypes /\ DataTypes

\* Where the report of round i still is: the platform has closed the round, a
\* file is there to be sent again, or finish_round_flow is still sending it.
Accounted(i) == i \in closed \cup pending \/ (Sending /\ i = id)

\* A report is accounted for from the moment finish_round_flow builds it,
\* whatever the retries, the fallback and the replays of later rounds meet,
\* unless a crash cut it off while it was being sent or its file could not be
\* written.
ReportsAreKept == \A i \in Ids : report[i] = "built" => Accounted(i)

\* An agent run is started only in a round that the platform has accepted,
\* with its tasks, since it began: the flag that says so survives the end of
\* a round and has to be taken back before anything of the next one is sent.
RunsBelongToTheRound ==
    "run" \in confirmed => {"round", "tasks"} \subseteq confirmed

\* A round that goes offline sends nothing any more (docs/advanced/
\* iwap_integration_flow.md, 7), while it is evaluated, settled and finished.
OfflineRoundsSendNothing ==
    [][offline /\ pc \notin {"idle", "handshake", "flush"} =>
         confirmed' \subseteq confirmed /\ closed' = closed /\ pending' = pending]_vars

\* Once the platform has recovered every pending report gets through, although
\* the flag of an offline round keeps the next round from replaying anything.
PendingIsSent == \A i \in Ids : i \in pending ~> i \notin pending
=============================================================================
