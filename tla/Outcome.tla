------------------------------ MODULE Outcome ------------------------------
(***************************************************************************)
(* What becomes of the outcome of one operation in one session, from the   *)
(* three who see it to everything that counts it: the hook of an agent     *)
(* (product-api/src/hook.rs), the wrapper that owns the process            *)
(* (apps/corescout-cli/src/watch.rs) and an agent's own report, through    *)
(* agent-observation (ingest.rs, action.rs) into the failure mode          *)
(* (agent-experience/src/failure.rs), the session and the trial that       *)
(* waits (engine.rs, agent_observe).  When a trial is handed out, and to   *)
(* whom it belongs, is the subject of Trials; retries that of Observation. *)
(*                                                                         *)
(* A client is taken to be honest about what it saw: an exit code, a flag  *)
(* or a check says what happened.  What an agent claims need not be so.    *)
(***************************************************************************)
EXTENDS Integers

CONSTANTS MaxReports    \* bound: reports counted

ASSUME OutcomeAssumption == MaxReports \in Nat

\* Of a process that ends: zero, a code of its own, and killed by a signal,
\* which has none, and is what some crashes look like on Windows.
Ending == {0, 101, -1}

NoCode == 999       \* no exit code is told
NoTrial == "none"

VARIABLES
    mode,       \* FailureMode: attempts, failures, silent failures, unverified
    session,    \* Session: actions and failures
    trial,      \* Engine::pending: whether the procedure was applied, or NoTrial
    arms,       \* the procedure's estimate: trials and failures, by applied
    running,    \* a wrapper has started its process
    caller,     \* how the last wrapped process ended, and what its caller was told
    truth       \* ghost: what happened, and how much of it was told

outcomeVars == <<mode, session, trial, arms, running, caller, truth>>

NoTruth ==
    [broke |-> 0, told |-> 0, refuted |-> 0,
     armTold |-> [a \in BOOLEAN |-> 0], armSaid |-> [a \in BOOLEAN |-> 0]]

OutcomeInit ==
    /\ mode = [attempts |-> 0, failures |-> 0, silent |-> 0, unverified |-> 0]
    /\ session = [actions |-> 0, failures |-> 0]
    /\ trial = NoTrial
    /\ arms = [a \in BOOLEAN |-> [trials |-> 0, failures |-> 0]]
    /\ running = FALSE /\ caller = [ended |-> 0, seen |-> 0]
    /\ truth = NoTruth

-----------------------------------------------------------------------------
(* What a report says, and what is made of it.                             *)

\* The fields of a tool's result that hook.rs looks at.
Response ==
    [code : Ending \cup {NoCode}, flagged : BOOLEAN, interrupted : BOOLEAN,
     success : {"true", "false", "absent"}, begins_with_error : BOOLEAN]

\* What a client sends: ingest.rs Raw.
Raw ==
    [exit_code : Ending \cup {NoCode},
     reported : {"success", "failure", "error", "silent", "absent"},
     verified : {"confirmed", "contradicted", "unavailable", "absent"}]

\* hook::classify, in its order.
HookOutcome(response) ==
    IF response.code # NoCode THEN IF response.code = 0 THEN "success" ELSE "failure"
    ELSE IF response.flagged \/ response.interrupted THEN "failure"
    ELSE IF response.success = "true" THEN "success"
    ELSE IF response.success = "false" \/ response.begins_with_error THEN "failure"
    ELSE "absent"

\* hook::to_raw: a code is not passed on, and nothing was verified.
HookRaw(response) ==
    [exit_code |-> NoCode, reported |-> HookOutcome(response), verified |-> "absent"]

\* watch::run, which owned the process.
RunRaw(code) ==
    IF code = 0
    THEN [exit_code |-> code, reported |-> "success", verified |-> "confirmed"]
    ELSE [exit_code |-> code, reported |-> "failure", verified |-> "contradicted"]

\* Ingest::observe: the word of the client first, then its exit code.
Reported(raw) ==
    IF raw.reported # "absent" THEN raw.reported
    ELSE IF raw.exit_code = NoCode THEN "silent"
    ELSE IF raw.exit_code = 0 THEN "success" ELSE "failure"

\* Action::succeeded.
SucceededMutant(raw) ==     \* a claim is believed before the check
    IF Reported(raw) = "success" THEN "yes"
    ELSE IF raw.verified = "contradicted" \/ Reported(raw) \in {"failure", "error"} THEN "no"
    ELSE "unknown"

Succeeded(raw) ==
    IF raw.verified = "contradicted" THEN "no"
    ELSE IF Reported(raw) = "success" /\ raw.verified = "confirmed" THEN "yes"
    ELSE IF Reported(raw) \in {"failure", "error"} THEN "no"
    ELSE "unknown"

\* Action::visibly_failed, is_silent_failure and unverified.
VisiblyFailed(raw) == Succeeded(raw) = "no"

SilentFailure(raw) == Reported(raw) = "success" /\ raw.verified = "contradicted"

Unverified(raw) == raw.verified = "absent"

-----------------------------------------------------------------------------
(* What happened, of which the code knows only what it is told.            *)

\* A result an honest tool gives of a call that broke, or did not.
HonestResponse(response, broke) ==
    /\ response.code # NoCode => (response.code # 0 <=> broke)
    /\ (\/ response.flagged \/ response.interrupted \/ response.success = "false"
        \/ response.begins_with_error) => broke
    /\ response.success = "true" => ~broke

TellsFailure(response) ==
    \/ response.code \notin {0, NoCode} \/ response.flagged \/ response.interrupted
    \/ response.success = "false" \/ response.begins_with_error

\* An agent that owns up to failures, and need not to be right to say it worked.
HonestRaw(raw, broke) ==
    /\ raw.exit_code # NoCode => (raw.exit_code # 0 <=> broke)
    /\ raw.reported \in {"failure", "error"} \/ raw.verified = "contradicted" => broke
    /\ raw.verified = "confirmed" => ~broke

\* Its claim, if it makes one, is heard before its exit code.
TellsFailureOwn(raw) ==
    \/ raw.verified = "contradicted" \/ raw.reported \in {"failure", "error"}
    \/ raw.reported = "absent" /\ raw.exit_code \notin {0, NoCode}

Once(condition) == IF condition THEN 1 ELSE 0

TruthAfter(raw, broke, told) ==
    LET count(arm, counted) ==
            IF trial = NoTrial \/ ~counted THEN arm ELSE [arm EXCEPT ![trial = "applied"] = @ + 1]
    IN  [broke |-> truth.broke + Once(broke),
         told |-> truth.told + Once(told),
         refuted |-> truth.refuted + Once(raw.reported = "success" /\ raw.verified = "contradicted"),
         armTold |-> count(truth.armTold, told),
         armSaid |-> count(truth.armSaid, Reported(raw) # "silent")]

-----------------------------------------------------------------------------
(* The handlers.                                                           *)

\* FailureMode::observe.
ModeAfter(raw) ==
    [attempts |-> mode.attempts + 1,
     failures |-> mode.failures + Once(VisiblyFailed(raw)),
     silent |-> mode.silent + Once(SilentFailure(raw)),
     unverified |-> mode.unverified + Once(Unverified(raw))]

\* agent_observe: the trial that waits is settled by whatever comes.
ArmsAfter(raw) ==
    IF trial = NoTrial THEN arms
    ELSE [arms EXCEPT ![trial = "applied"] =
            [trials |-> @.trials + 1, failures |-> @.failures + Once(VisiblyFailed(raw))]]

AgentObserve(raw, broke, told) ==
    /\ mode.attempts < MaxReports
    /\ mode' = ModeAfter(raw)
    /\ session' = [actions |-> session.actions + 1,
                   failures |-> session.failures + Once(VisiblyFailed(raw))]
    /\ arms' = ArmsAfter(raw) /\ trial' = NoTrial
    /\ truth' = TruthAfter(raw, broke, told)

\* A call not worth recording, and a hook that gives up or finds nobody, leave
\* no trace.
HookReports ==
    \E response \in Response, broke \in BOOLEAN :
        /\ HonestResponse(response, broke)
        /\ AgentObserve(HookRaw(response), broke, TellsFailure(response))
        /\ UNCHANGED <<running, caller>>

AgentReports ==
    \E raw \in Raw, broke \in BOOLEAN :
        /\ HonestRaw(raw, broke)
        /\ AgentObserve(raw, broke, TellsFailureOwn(raw))
        /\ UNCHANGED <<running, caller>>

\* An agent, or a wrapper before it starts its process, asks for advice.
Asked == \E applied \in BOOLEAN : trial' = IF applied THEN "applied" ELSE "withheld"

Advise == Asked /\ UNCHANGED <<mode, session, arms, running, caller, truth>>

\* watch::run.  A wrapper that cannot reach the service runs all the same.
RunStarts ==
    /\ ~running /\ running' = TRUE
    /\ Asked \/ UNCHANGED trial
    /\ UNCHANGED <<mode, session, arms, caller, truth>>

\* The wrapper's own exit code: a byte, of which main.rs makes 0 or 1.
ExitOf(code) == IF code <= 0 THEN 0 ELSE 1

RunEnds ==
    /\ running /\ running' = FALSE
    /\ \E code \in Ending :
        /\ caller' = [ended |-> code, seen |-> ExitOf(code)]
        /\ \/ AgentObserve(RunRaw(code), code # 0, code # 0)
           \/ UNCHANGED <<mode, session, trial, arms, truth>>

\* The process cannot be started.  Nothing is reported, and its trial waits.
RunCannotStart ==
    /\ running /\ running' = FALSE
    /\ caller' = [ended |-> 1, seen |-> 1]
    /\ UNCHANGED <<mode, session, trial, arms, truth>>

OutcomeNext == HookReports \/ AgentReports \/ Advise \/ RunStarts \/ RunEnds \/ RunCannotStart

OutcomeSpec == OutcomeInit /\ [][OutcomeNext]_outcomeVars

-----------------------------------------------------------------------------
OutcomeTypeOK ==
    /\ mode \in [attempts : 0 .. MaxReports, failures : 0 .. MaxReports,
                 silent : 0 .. MaxReports, unverified : 0 .. MaxReports]
    /\ session \in [actions : 0 .. MaxReports, failures : 0 .. MaxReports]
    /\ trial \in {NoTrial, "applied", "withheld"}
    /\ arms \in [BOOLEAN -> [trials : 0 .. MaxReports, failures : 0 .. MaxReports]]
    /\ running \in BOOLEAN
    /\ caller \in [ended : Ending \cup {1}, seen : {0, 1}]

\* On whichever road an outcome arrives, a failure that was told counts as one
\* in the mode, the session and the trial it settles, none is invented, and a
\* claim that a check refuted is one of the silent failures.
NeverMadeBetter ==
    /\ truth.told = mode.failures /\ mode.failures = session.failures
    /\ mode.failures <= truth.broke
    /\ mode.silent = truth.refuted /\ mode.silent <= mode.failures
    /\ \A a \in BOOLEAN : arms[a].failures = truth.armTold[a]

\* hook.rs: what was not said is an unknown rather than a success.  An action of
\* which nothing was said does not settle a trial as one that did not fail.
UnknownStaysUnknown == \A a \in BOOLEAN : arms[a].trials = truth.armSaid[a]

\* watch.rs: a failure must survive the wrapper.
FailureSurvives == caller.seen = 0 <=> caller.ended = 0
=============================================================================
