------------------------------ MODULE EvalSuite ------------------------------
(***************************************************************************)
(* run_eval and the command line around it: the cases of the data set one  *)
(* after another, each as EvalHarness has it, then the exit code.  Every   *)
(* case is a run of its own; a run the harness gave up on goes on, but on  *)
(* another channel, and the most it can do to the next case is to keep the *)
(* worker busy, which is a delay and nothing the harness may count on.     *)
(***************************************************************************)
EXTENDS EvalHarness

CONSTANT NumCases   \* cases of the data set

ASSUME CasesAssumption == NumCases \in Nat \ {0}

VARIABLES
    results,    \* the CaseResults so far: did the case pass?
    exitCode,   \* of the process, once it has ended
    earned      \* history: cases that passed and whose run fulfilled them

suiteVars == <<allVars, results, exitCode, earned>>

SuiteInit ==
    /\ HarnessInit
    /\ results = << >>
    /\ exitCode = "none"
    /\ earned = 0

CaseNext == HarnessNext /\ UNCHANGED <<results, exitCode, earned>>

(* Mutant of ExitCode: one case that passes is enough. *)
ExitCodeAny(passes) == IF \E i \in DOMAIN passes : passes[i] THEN "0" ELSE "1"

ExitCode(passes) == IF \A i \in DOMAIN passes : passes[i] THEN "0" ELSE "1"

Report ==
    /\ hpc = "reported"
    /\ exitCode = "none"
    /\ results' = Append(results, passed)
    /\ earned' = IF passed /\ CaseHolds THEN earned + 1 ELSE earned

(* Another run on another channel: EventStream starts anew. *)
FreshRun ==
    /\ status' = "queued" /\ stage' = "queued" /\ outcome' = "none"
    /\ stored' = 0 /\ emitted' = 0
    /\ cancel' = [k \in Requests |-> "idle"] /\ overwrote' = FALSE
    /\ cpc' = [c \in Clients |-> "idle"]
    /\ seen' = [c \in Clients |-> "none"]
    /\ replayed' = [c \in Clients |-> 0]
    /\ inbox' = [c \in Clients |-> << >>]
    /\ sent' = [c \in Clients |-> << >>]
    /\ missed' = [c \in Clients |-> {}]
    /\ late' = [c \in Clients |-> {}]

(* The next case of the data set, with what it asserts. *)
FreshCase ==
    /\ hpc' = "submit"
    /\ read' = 0
    /\ runStatus' = "unknown"
    /\ passed' = FALSE /\ contains' = FALSE
    /\ \E case \in Cases : asksTool' = case.asksTool /\ wanted' = case.wanted

NextCase ==
    /\ Report
    /\ Len(results) + 1 < NumCases
    /\ FreshRun
    /\ FreshCase
    /\ UNCHANGED exitCode

(* The last one: the report is printed, the process exits. *)
Exit ==
    /\ Report
    /\ Len(results) + 1 = NumCases
    /\ exitCode' = ExitCode(results')
    /\ UNCHANGED allVars

SuiteNext == CaseNext \/ NextCase \/ Exit

SuiteSpec == SuiteInit /\ [][SuiteNext]_suiteVars

(* The harness goes on, and so does httpx's timer; nothing is assumed of   *)
(* the worker or the API.                                                  *)
FairSuiteSpec == SuiteSpec /\ WF_suiteVars(CaseStep /\ CaseNext) /\ WF_suiteVars(NextCase \/ Exit)

-----------------------------------------------------------------------------
(* Exit code 0 means what eval/__main__.py:6 says, and 1 the contrary: all *)
(* cases passed, each on a run that fulfilled it; what one case left       *)
(* behind counts neither for nor against the next.                         *)
ExitHonest == exitCode # "none" => (exitCode = "0" <=> earned = NumCases)

(* The evaluation ends, whatever the API and the worker do: a stream that  *)
(* never sends a terminal event, or a worker that is gone, costs one case  *)
(* its verdict and never the process its end.                              *)
EvaluationEnds == <>(exitCode # "none")
=============================================================================
