---------------------------- MODULE BackendRetry ----------------------------
(***************************************************************************)
(* How the Tofino backend retries PHV allocation and table placement.      *)
(*                                                                         *)
(* Three passes of the backend's pass list catch Backtrack triggers: the   *)
(* CatchBacktrack of LongBranchAllocFailed, MauBacktracker (before PHV     *)
(* analysis) and TablePlacement (inside TableAlloc).  What to try next is   *)
(* decided by TableSummary, after every table placement, from the          *)
(* compilation state the three share; AllocatePHV, the passes that         *)
(* allocate the temporaries of table placement and JbayNextTable throw     *)
(* too.  Which pass a trigger restarts at, and with which program, is what *)
(* module PassManager establishes: the nearest earlier one that accepts.   *)
(*                                                                         *)
(* How good an allocation or a placement is, is left open.  A placement is *)
(* named by the invocation of TableSummary that recorded it.               *)
(***************************************************************************)
EXTENDS Integers, FiniteSets

CONSTANTS
    Modes,          \* options.alt_phv_alloc: is table placement first?
    DeviceStages,   \* Device::numStages()
    GoodStages,     \* critical path length + CRITICAL_PATH_THRESHOLD
    MaxStages,      \* bound on the stages a placement takes
    MaxTempRuns,    \* bound on the placements that leave temporaries to allocate
    MaxInvoked      \* where numInvoked saturates; no run may get there

ASSUME BoundAssumption ==
    /\ Modes \subseteq BOOLEAN
    /\ DeviceStages \in Nat /\ GoodStages \in Nat /\ MaxStages \in Nat
    /\ MaxTempRuns \in Nat
    /\ MaxInvoked \in Nat /\ MaxInvoked > 2

VARIABLES
    alt,            \* options.alt_phv_alloc, of this compilation
    pc,             \* the pass the backend is about to run, or how it ended
    state,          \* State::state_t, shared by TableSummary and MauBacktracker
    prevState,      \* TableSummary::prev_state
    numInvoked,     \* TableSummary::numInvoked
    fixed,          \* TableSummary::alt_phv_alloc_table_fixed
    firstRoundFit,  \* TableSummary::firstRoundFit
    placed,         \* TableSummary::placedTables
    trivial,        \* TableSummary::trivial_tableAlloc and its companions
    mau,            \* the fields of MauBacktracker
    ignoreCC,       \* TablePlacement::ignoreContainerConflicts
    limitTmp,       \* AllocSetting::limit_tmp_creation
    spillARA,       \* PhvInfo::darkSpillARA
    longBranch,     \* the two long branch options
    result,         \* what table placement has just produced
    tempRuns,       \* placements that left temporaries (bound only)
    timer,          \* the PerfTimer listed before and after the search
    attempt,        \* how often the passes behind CatchBacktrack were begun
    again,          \* history: flips when PHV allocation makes itself be redone
    roundOne,       \* history: the settings the first PHV allocation fitted with
    since           \* history: numInvoked when everything was last reset

summaryVars == <<state, prevState, numInvoked, fixed, firstRoundFit, placed, trivial>>
clock == <<timer, attempt, again>>
vars == <<alt, pc, summaryVars, mau, ignoreCC, limitTmp, spillARA, longBranch, clock, result,
          tempRuns, roundOne, since>>

NormalStates == {"INITIAL", "NOCC_TRY1", "REDO_PHV1", "NOCC_TRY2", "REDO_PHV2",
                 "FINAL_PLACEMENT"}
AltStates == {"ALT_INITIAL", "ALT_RETRY_ENHANCED_TP", "SAME_ORDER", "TABLE_FIXED",
              "ALT_FINALIZE_TABLE"}     \* SAME_ORDER: ALT_FINALIZE_TABLE_SAME_ORDER
Verdicts == {"SUCCESS", "FAILURE"}
States == NormalStates \union AltStates \union Verdicts

Passes == {"phv", "place", "summary", "temps", "next"}
Ended == {"done", "stopped"}

None == 0           \* no placement
Placement == 0 .. MaxInvoked
Settings == [metaOff : BOOLEAN, ara : BOOLEAN]

----------------------------------------------------------------------------
(* The table placement that has just ended.                                *)

Placements == [stages : 0 .. MaxStages, errs : {"none", "warning", "critical"}]

Failed(r) == r.errs # "none"            \* placementFailure
Critical(r) == r.errs = "critical"      \* criticalPlacementFailure

FitsAnyway(r) ==        \* mutant: the recorded errors are not looked at
    r.stages <= DeviceStages
Fits(r) ==
    /\ ~(IF alt THEN Critical(r) ELSE Failed(r))
    /\ r.stages <= DeviceStages

TooLong(r) == r.stages > DeviceStages

----------------------------------------------------------------------------
(* The three handlers.                                                     *)

FirstState == IF alt THEN "ALT_INITIAL" ELSE "INITIAL"      \* resetPlacement

FinalizeNothing == state                \* mutant: the verdict is kept
FinalizePlacement == IF alt THEN "ALT_FINALIZE_TABLE" ELSE "FINAL_PLACEMENT"

\* TablePlacement::backtrack, asked first, about a trigger that is not its own.
RefusedKeeps == ignoreCC                \* mutant: only its own triggers change it
Refused == FALSE

\* MauBacktracker::backtrack.
NotedLatest(m, t) ==        \* mutant: the previous round is not kept
    LET pack == m.ignorePacks \/ t.ignorePacks
    IN  [m EXCEPT !.metaOff = @ \/ t.metaOff, !.ignorePacks = pack,
                  !.firstFit = @ \/ t.fit, !.has = TRUE,
                  !.tables = IF pack THEN @ ELSE t.tables,
                  !.internal = IF pack THEN @ ELSE t.tables]
Noted(m, t) ==
    LET pack == m.ignorePacks \/ t.ignorePacks
    IN  [m EXCEPT !.metaOff = @ \/ t.metaOff, !.ignorePacks = pack,
                  !.firstFit = @ \/ t.fit, !.has = TRUE,
                  !.prev = IF pack \/ m.tables = None THEN @ ELSE m.tables,
                  !.tables = IF pack THEN @ ELSE t.tables,
                  !.internal = IF pack THEN @ ELSE t.tables]

\* MauBacktracker::apply_visitor.
Applied(m) == IF m.firstFit THEN [m EXCEPT !.tables = None, !.prev = None] ELSE m

\* MauBacktracker::clear.
Cleared(m) == [m EXCEPT !.tables = None, !.prev = None, !.metaOff = FALSE,
                        !.ignorePacks = FALSE, !.firstFit = FALSE]

NewMau == [tables |-> None, prev |-> None, internal |-> None, has |-> FALSE,
           metaOff |-> FALSE, ignorePacks |-> FALSE, firstFit |-> FALSE]

\* PHVTrigger::failure: the placement of round p with flags.
Trigger(p, pack, meta) ==
    [tables |-> p, fit |-> firstRoundFit, ignorePacks |-> pack, metaOff |-> meta]

\* throw PHVTrigger::failure(...): restart at mau_backtracker.
ThrowPHV(t) ==
    /\ mau' = Applied(Noted(mau, t))
    /\ pc' = "phv"

\* throw RerunTablePlacementTrigger::failure(ig): restart at TableAlloc.
ThrowRerun(ig) ==
    /\ ignoreCC' = ig
    /\ pc' = "place"
    /\ UNCHANGED mau

----------------------------------------------------------------------------
(* The timer: one object at two places of the pass list, which starts or    *)
(* stops whenever it is visited.  The times it has added up are named by    *)
(* the attempts they were taken in.                                        *)

NewTimer == [started |-> FALSE, from |-> 0, elapsed |-> {}, printed |-> {}]

VisitedAfresh(t, a) ==      \* mutant: a visit while it runs starts it anew
    IF t.started /\ t.from = a
    THEN [t EXCEPT !.started = FALSE, !.elapsed = @ \union {t.from},
                   !.printed = t.elapsed \union {t.from}]
    ELSE [t EXCEPT !.started = TRUE, !.from = a]
Visited(t, a) ==
    IF t.started
    THEN [t EXCEPT !.started = FALSE, !.elapsed = @ \union {t.from},
                   !.printed = t.elapsed \union {t.from}]
    ELSE [t EXCEPT !.started = TRUE, !.from = a]

----------------------------------------------------------------------------
Init ==
    /\ alt \in Modes
    /\ pc = "phv"
    /\ state = FirstState
    /\ prevState = FirstState
    /\ numInvoked = 0
    /\ fixed = 0
    /\ firstRoundFit = FALSE
    /\ placed = None
    /\ trivial = None
    /\ mau = NewMau
    /\ ignoreCC = FALSE
    /\ limitTmp = FALSE
    /\ spillARA = TRUE
    /\ longBranch \in {"allowed", "avoided", "disabled"}
    /\ result = [stages |-> 0, errs |-> "none"]
    /\ tempRuns = 0
    /\ attempt = 1
    /\ timer = Visited(NewTimer, 1)
    /\ again = FALSE
    /\ roundOne = [metaOff |-> FALSE, ara |-> TRUE]
    /\ since = 0

----------------------------------------------------------------------------
(* PHV analysis.                                                           *)

PhvSettings == [metaOff |-> mau.metaOff, ara |-> spillARA]

\* The configurations after the first may be ones without ARA; whichever is tried
\* last, fits or not, leaves its setting behind.
AraAfterwards == spillARA' \in {spillARA, FALSE}

PhvFits ==
    /\ pc = "phv"
    /\ pc' = "place"
    /\ AraAfterwards
    /\ roundOne' = IF state = "INITIAL"
                   THEN [metaOff |-> mau.metaOff, ara |-> spillARA'] ELSE roundOne
    /\ again' = FALSE
    /\ UNCHANGED <<summaryVars, mau, ignoreCC, limitTmp, longBranch, timer, attempt, result,
                   tempRuns, since>>

\* AllocatePHV falls back onto the first round, which did fit.
PhvFallsBack ==
    /\ pc = "phv"
    /\ ~alt /\ mau.firstFit
    /\ ThrowPHV([tables |-> None, fit |-> TRUE, ignorePacks |-> TRUE, metaOff |-> FALSE])
    /\ AraAfterwards
    /\ again' = ~again
    /\ UNCHANGED <<summaryVars, ignoreCC, limitTmp, longBranch, timer, attempt, result, tempRuns,
                   roundOne, since>>

ReplayGoesOn == "TABLE_FIXED"    \* mutant: the replay is tried again
ReplayStopped == "ALT_FINALIZE_TABLE"

\* stop_table_replay_fitting: the constraints added for the replay are impossible.
PhvStopsReplay ==
    /\ pc = "phv"
    /\ state = "TABLE_FIXED"
    /\ ThrowPHV(Trigger(trivial, FALSE, FALSE))
    /\ state' = ReplayStopped
    /\ placed' = None
    /\ again' = ~again
    /\ UNCHANGED <<prevState, numInvoked, fixed, firstRoundFit, trivial, ignoreCC, limitTmp,
                   spillARA, longBranch, timer, attempt, result, tempRuns, roundOne, since>>

\* No way out: an error is reported and the pass managers stop.
PhvFails ==
    /\ pc = "phv"
    /\ IF alt THEN state # "TABLE_FIXED" ELSE ~mau.firstFit
    /\ pc' = "stopped"
    /\ UNCHANGED <<summaryVars, mau, ignoreCC, limitTmp, spillARA, longBranch, clock, result,
                   tempRuns, roundOne, since>>

----------------------------------------------------------------------------
(* Table placement: any number of stages, with or without errors.          *)

Place ==
    /\ pc = "place"
    /\ pc' = "summary"
    /\ result' \in [stages : 1 .. MaxStages, errs : {"none", "warning", "critical"}]
    /\ UNCHANGED <<summaryVars, mau, ignoreCC, limitTmp, spillARA, longBranch, clock, tempRuns,
                   roundOne, since>>

----------------------------------------------------------------------------
(* TableSummary: init_apply and postorder(Pipe), one action per state.      *)

Invocation == IF numInvoked < MaxInvoked THEN numInvoked + 1 ELSE numInvoked

\* What every invocation does before the switch: this placement is recorded.
Summarise(S) ==
    /\ pc = "summary"
    /\ state \in S
    /\ numInvoked' = Invocation
    /\ prevState' = state
    /\ UNCHANGED <<limitTmp, longBranch, clock, result, tempRuns, roundOne, since>>

\* A PHVTrigger from here is offered to TablePlacement first.
RedoPHV(t) ==
    /\ ThrowPHV(t)
    /\ ignoreCC' = Refused

\* The ladder ends: print the errors and, unless that stops the backend, go on.
Verdict(v, stops) ==
    /\ state' = v
    /\ pc' = IF stops THEN "stopped" ELSE "temps"
    /\ UNCHANGED <<mau, ignoreCC>>

SummariseInitial ==
    /\ Summarise({"INITIAL"})
    /\ \/ /\ Fits(result) /\ result.stages <= GoodStages
          /\ Verdict("SUCCESS", FALSE)
          /\ UNCHANGED firstRoundFit
       \/ /\ ~(Fits(result) /\ result.stages <= GoodStages)
          /\ state' = "NOCC_TRY1"
          /\ firstRoundFit' = (firstRoundFit \/ Fits(result))
          /\ ThrowRerun(TRUE)
    /\ placed' = Invocation
    /\ UNCHANGED <<fixed, trivial, spillARA>>

RedoFirst(s) == "REDO_PHV1"         \* mutant: NOCC_TRY2 goes back to the first redo
RedoAfter(s) == IF s = "NOCC_TRY1" THEN "REDO_PHV1" ELSE "REDO_PHV2"

\* Metadata initialization is disabled if even this placement is too long, and
\* the second time already if it takes all stages.
DisablesMetaInit(s, r) == TooLong(r) \/ (s = "NOCC_TRY2" /\ r.stages = DeviceStages)

SummariseNocc ==
    /\ Summarise({"NOCC_TRY1", "NOCC_TRY2"})
    /\ state' = RedoAfter(state)
    /\ RedoPHV(Trigger(Invocation, FALSE, DisablesMetaInit(state, result)))
    /\ placed' = Invocation
    /\ UNCHANGED <<fixed, firstRoundFit, trivial, spillARA>>

SummariseRedo ==
    /\ Summarise({"REDO_PHV1"})
    /\ \/ /\ Fits(result)
          /\ Verdict("SUCCESS", FALSE)
          /\ UNCHANGED spillARA
       \/ /\ ~Fits(result)
          /\ state' = "NOCC_TRY2"
          /\ spillARA' = FALSE
          /\ ThrowRerun(TRUE)
    /\ placed' = Invocation
    /\ UNCHANGED <<fixed, firstRoundFit, trivial>>

\* Recorded errors are printed: critical ones stop the backend.
SummariseLast ==
    /\ Summarise({"REDO_PHV2", "FINAL_PLACEMENT"})
    /\ Verdict(IF Fits(result) THEN "SUCCESS" ELSE "FAILURE", Critical(result))
    /\ placed' = Invocation
    /\ UNCHANGED <<fixed, firstRoundFit, trivial, spillARA>>

CheckpointOnce ==           \* mutant: only the first trivial placement is saved
    IF trivial = None THEN Invocation ELSE trivial
Checkpoint == Invocation

\* The placement for the trivial PHV allocation is good: save it, and allocate.
AltReplay ==
    /\ state' = "SAME_ORDER"
    /\ trivial' = Checkpoint
    /\ placed' = Invocation
    /\ RedoPHV(Trigger(Invocation, FALSE, FALSE))

SummariseAltInitial ==
    /\ Summarise({"ALT_INITIAL"})
    /\ \/ Fits(result) /\ AltReplay
       \/ /\ ~Fits(result) /\ TooLong(result)
          /\ state' = "ALT_RETRY_ENHANCED_TP"
          /\ ThrowRerun(FALSE)
          /\ placed' = Invocation
          /\ UNCHANGED trivial
       \/ /\ ~Fits(result) /\ ~TooLong(result)
          /\ Verdict("FAILURE", Critical(result))
          /\ placed' = Invocation
          /\ UNCHANGED trivial
    /\ UNCHANGED <<fixed, firstRoundFit, spillARA>>

\* FIRST_ALT_RETRY_ENHANCED_TP_INVOCATION
FirstRetry(n) == n = 2

SummariseAltRetry ==
    /\ Summarise({"ALT_RETRY_ENHANCED_TP"})
    /\ \/ Fits(result) /\ AltReplay
       \/ /\ ~Fits(result)
          /\ IF FirstRetry(Invocation)
             THEN /\ state' = "ALT_INITIAL"
                  /\ RedoPHV(Trigger(Invocation, FALSE, FALSE))
             ELSE Verdict("FAILURE", TRUE)          \* fatal_error
          /\ placed' = Invocation
          /\ UNCHANGED trivial
    /\ UNCHANGED <<fixed, firstRoundFit, spillARA>>

\* ALT_PHV_ALLOC_TABLE_FIX_THRESHOLD; whether the replay failed in a way that
\* find_problematic_table can name a table is left open.
MayFix == fixed < 3
FixTable == /\ state' = "TABLE_FIXED"
            /\ fixed' = IF fixed < 3 THEN fixed + 1 ELSE fixed
            /\ placed' = trivial
            /\ RedoPHV(Trigger(trivial, FALSE, FALSE))

SummariseSameOrder ==
    /\ Summarise({"SAME_ORDER"})
    /\ \/ /\ Fits(result)
          /\ Verdict("SUCCESS", FALSE)
          /\ placed' = Invocation
          /\ UNCHANGED fixed
       \/ ~Fits(result) /\ MayFix /\ FixTable
       \/ /\ ~Fits(result)
          /\ state' = "ALT_FINALIZE_TABLE"
          /\ placed' = None
          /\ ThrowRerun(FALSE)
          /\ UNCHANGED fixed
    /\ UNCHANGED <<firstRoundFit, trivial, spillARA>>

SummariseTableFixed ==
    /\ Summarise({"TABLE_FIXED"})
    /\ \/ /\ Fits(result)
          /\ Verdict("SUCCESS", FALSE)
          /\ placed' = Invocation
          /\ UNCHANGED fixed
       \/ ~Fits(result) /\ MayFix /\ FixTable
       \/ /\ ~Fits(result)
          /\ state' = "ALT_FINALIZE_TABLE"
          /\ placed' = trivial
          /\ RedoPHV(Trigger(trivial, FALSE, FALSE))
          /\ UNCHANGED fixed
    /\ UNCHANGED <<firstRoundFit, trivial, spillARA>>

SummariseAltFinalize ==
    /\ Summarise({"ALT_FINALIZE_TABLE"})
    /\ Verdict(IF Fits(result) THEN "SUCCESS" ELSE "FAILURE", Critical(result))
    /\ placed' = Invocation
    /\ UNCHANGED <<fixed, firstRoundFit, trivial, spillARA>>

----------------------------------------------------------------------------
(* After TableSummary: temporaries that table placement has introduced.    *)

AllAllocated ==
    /\ pc = "temps"
    /\ pc' = "next"
    /\ UNCHANGED <<summaryVars, mau, ignoreCC, limitTmp, spillARA, longBranch, clock, result,
                   tempRuns, roundOne, since>>

\* TablePlacement::backtrack(FinalRerunTablePlacementTrigger(limit)).
ThrowFinalRerun(limit) ==
    /\ state' = IF limit THEN prevState ELSE FinalizePlacement
    /\ ignoreCC' = FALSE
    /\ pc' = "place"
    /\ UNCHANGED <<prevState, numInvoked, fixed, firstRoundFit, placed, trivial, mau>>

TempsLeft ==
    /\ pc = "temps"
    /\ tempRuns < MaxTempRuns
    /\ tempRuns' = tempRuns + 1
    /\ UNCHANGED <<spillARA, longBranch, clock, result, roundOne, since>>

\* Normal mode: the trigger carries the setting, which is never reset.
TempsFit ==
    /\ TempsLeft
    /\ ThrowFinalRerun(~alt /\ limitTmp)
    /\ UNCHANGED limitTmp

\* IncrementalPHVAllocation: the first failure limits temporaries, the second
\* is an error.
TempsLimited ==
    /\ TempsLeft
    /\ ~alt /\ ~limitTmp
    /\ limitTmp' = TRUE
    /\ ThrowFinalRerun(TRUE)

TempsFail ==
    /\ TempsLeft
    /\ alt \/ limitTmp
    /\ pc' = "stopped"
    /\ UNCHANGED <<summaryVars, mau, ignoreCC, limitTmp>>

----------------------------------------------------------------------------
(* Next tables, and the restart of everything.                             *)

StillAvoided == "avoided"       \* mutant: long branches are never disabled
LongBranchAfter == IF longBranch = "allowed" THEN "avoided" ELSE "disabled"

\* JbayNextTable throws LongBranchAllocFailed; the CatchBacktrack of the backend.
LongBranchFails ==
    /\ pc = "next"
    /\ longBranch # "disabled"
    /\ longBranch' = LongBranchAfter
    /\ mau' = Applied(Cleared(mau))
    /\ state' = FirstState
    /\ ignoreCC' = Refused
    /\ pc' = "phv"
    /\ since' = numInvoked
    /\ attempt' = attempt + 1
    /\ timer' = Visited(timer, attempt + 1)
    /\ UNCHANGED <<prevState, numInvoked, fixed, firstRoundFit, placed, trivial, limitTmp,
                   spillARA, result, tempRuns, again, roundOne>>

\* DefaultNext reports an error where JbayNextTable would use a long branch.
NextTableFails ==
    /\ pc = "next"
    /\ longBranch = "disabled"
    /\ pc' = "stopped"
    /\ UNCHANGED <<summaryVars, mau, ignoreCC, limitTmp, spillARA, longBranch, clock, result,
                   tempRuns, roundOne, since>>

Finish ==
    /\ pc = "next"
    /\ pc' = "done"
    /\ timer' = Visited(timer, attempt)
    /\ UNCHANGED <<summaryVars, mau, ignoreCC, limitTmp, spillARA, longBranch, attempt, again,
                   result, tempRuns, roundOne, since>>

----------------------------------------------------------------------------
Allocate == PhvFits \/ PhvFallsBack \/ PhvStopsReplay \/ PhvFails

SummariseNormal ==
    \/ SummariseInitial
    \/ SummariseNocc
    \/ SummariseRedo
    \/ SummariseLast

SummariseAlt ==
    \/ SummariseAltInitial
    \/ SummariseAltRetry
    \/ SummariseSameOrder
    \/ SummariseTableFixed
    \/ SummariseAltFinalize

Temps == AllAllocated \/ TempsFit \/ TempsLimited \/ TempsFail

NextTables == LongBranchFails \/ NextTableFails \/ Finish

Next ==
    /\ \/ Allocate
       \/ Place
       \/ SummariseNormal
       \/ SummariseAlt
       \/ Temps
       \/ NextTables
    /\ UNCHANGED alt

Spec == Init /\ [][Next]_vars

\* The compiler is one thread that does not stop between two passes.
FairSpec == Spec /\ WF_vars(Next)

----------------------------------------------------------------------------
(* Properties.                                                             *)

(***************************************************************************)
(* Types; and numInvoked stays below its bound, that is, the number of     *)
(* table placements is bounded once that of temporaries reruns is.         *)
(***************************************************************************)
TypeOK ==
    /\ alt \in BOOLEAN
    /\ pc \in Passes \union Ended
    /\ state \in States /\ prevState \in States
    /\ numInvoked \in 0 .. MaxInvoked - 1
    /\ fixed \in 0 .. 3
    /\ firstRoundFit \in BOOLEAN
    /\ placed \in Placement /\ trivial \in Placement
    /\ mau \in [tables : Placement, prev : Placement, internal : Placement,
                has : BOOLEAN, metaOff : BOOLEAN, ignorePacks : BOOLEAN,
                firstFit : BOOLEAN]
    /\ ignoreCC \in BOOLEAN /\ limitTmp \in BOOLEAN /\ spillARA \in BOOLEAN
    /\ longBranch \in {"allowed", "avoided", "disabled"}
    /\ result \in Placements
    /\ tempRuns \in 0 .. MaxTempRuns
    /\ attempt \in 1 .. 3
    /\ timer \in [started : BOOLEAN, from : 1 .. 3, elapsed : SUBSET (1 .. 3),
                  printed : SUBSET (1 .. 3)]
    /\ again \in BOOLEAN
    /\ roundOne \in Settings
    /\ since \in 0 .. MaxInvoked - 1

(***************************************************************************)
(* BUG("TableSummary state %s not handled") and the BUG of the other mode  *)
(* never fire: whatever restart came before, TableSummary is invoked in a  *)
(* state of its own mode that is not a verdict.                            *)
(***************************************************************************)
SummaryStateHandled ==
    pc \in {"phv", "place", "summary"} =>
        state \in IF alt THEN AltStates ELSE NormalStates

(***************************************************************************)
(* Table placement ignores container conflicts exactly in the two states   *)
(* that want the idealised placement, although the flag is TablePlacement's *)
(* and the state TableSummary's, and triggers caught elsewhere change only  *)
(* one of them.                                                            *)
(***************************************************************************)
ConflictsIgnoredOnlyInNocc ==
    pc \in {"place", "summary"} => (ignoreCC <=> state \in {"NOCC_TRY1", "NOCC_TRY2"})

(***************************************************************************)
(* A placement that TableSummary accepts, and that later passes build on,  *)
(* fits the device, has no error that must be fixed, and respects the      *)
(* container conflicts of the current PHV allocation.                      *)
(***************************************************************************)
SuccessFits ==
    pc \in {"temps", "next", "done"} /\ state = "SUCCESS" =>
        /\ result.stages <= DeviceStages
        /\ result.errs \in IF alt THEN {"none", "warning"} ELSE {"none"}
        /\ ~ignoreCC

(***************************************************************************)
(* PHV allocation is redone with the conflict-free placements it is redone *)
(* for: the one of the round just made and, the second time, also the one  *)
(* of the first try.  (Not once the first round fitted: then MauBacktracker *)
(* drops them, or is told to ignore them.)                                 *)
(***************************************************************************)
RedoUsesNoccPlacements ==
    pc = "phv" /\ state \in {"REDO_PHV1", "REDO_PHV2"} /\ ~mau.firstFit =>
        /\ mau.tables = numInvoked /\ mau.internal = numInvoked
        /\ state = "REDO_PHV2" => mau.prev \in since + 1 .. numInvoked - 2
        /\ state = "REDO_PHV1" => mau.prev = None

\* How far the ladder of attempts has been climbed.
Rank(s) ==
    CASE s \in {"INITIAL", "ALT_INITIAL"} -> 0
      [] s \in {"NOCC_TRY1", "ALT_RETRY_ENHANCED_TP"} -> 1
      [] s \in {"REDO_PHV1", "SAME_ORDER"} -> 2
      [] s \in {"NOCC_TRY2", "TABLE_FIXED"} -> 3
      [] s = "REDO_PHV2" -> 4
      [] s \in {"FINAL_PLACEMENT", "ALT_FINALIZE_TABLE"} -> 5
      [] OTHER -> 6

(***************************************************************************)
(* An attempt is never gone back to, except: everything is reset for long  *)
(* branches; a verdict is taken back because temporaries were left; and,   *)
(* once in a compilation, the trivial allocation is redone with physical   *)
(* stages.                                                                 *)
(***************************************************************************)
LadderClimbs ==
    [][ Rank(state') < Rank(state) =>
            \/ longBranch' # longBranch
            \/ pc = "temps"
            \/ state = "ALT_RETRY_ENHANCED_TP" /\ numInvoked = 1 ]_vars

(***************************************************************************)
(* What is replayed, and what the real PHV allocation is made for, is the  *)
(* placement saved for the trivial allocation of this attempt, never one   *)
(* from before a restart.                                                  *)
(***************************************************************************)
ReplaysTrivial ==
    state \in {"SAME_ORDER", "TABLE_FIXED"} /\ pc \in {"phv", "place", "summary"} =>
        /\ trivial > since
        /\ placed = trivial /\ mau.internal = trivial /\ mau.tables = trivial

(***************************************************************************)
(* What the timer has printed when the back end is done is the time of the *)
(* attempts with an odd number: of all of them only if none was given up   *)
(* for long branches.  After exactly one such restart the attempt whose    *)
(* result is kept is not measured, and the timer is left running.          *)
(***************************************************************************)
TimePrinted ==
    pc = "done" =>
        /\ timer.printed = { a \in 1 .. attempt : a % 2 = 1 }
        /\ timer.started <=> attempt % 2 = 0

(***************************************************************************)
(* Temporaries and long branches included, the compilation ends; the one   *)
(* loop without an end is the fallback of AllocatePHV onto a first round   *)
(* that does not fit any more.                                             *)
(***************************************************************************)
EndsOrFallsBackForever ==
    <>(pc \in Ended) \/ <>[](pc = "phv" /\ mau.firstFit /\ mau.ignorePacks)

\* In the alternative mode there is no such fallback.
RetriesEnd == alt => <>(pc \in Ended)

(***************************************************************************)
(* allocate_phv.cpp:4257 "Therefore, falling back onto the first round of  *)
(* PHV allocation": the allocation that ignores pack conflicts starts from *)
(* the settings with which the first round fitted.                         *)
(***************************************************************************)
FallbackRepeatsFirstRound ==
    pc = "phv" /\ mau.ignorePacks => PhvSettings = roundOne

(***************************************************************************)
(* mau_backtracker.h:56 "true if a valid table placement is stored in      *)
(* tables".                                                                *)
(***************************************************************************)
PlacementIsStored == mau.has => mau.tables # None

(***************************************************************************)
(* table_summary.cpp:551 "The resource based allocation physical placement *)
(* will be the one used to decide if two fields can be pack on the same    *)
(* container or not": the trivial allocation with physical stages has a     *)
(* placement of this attempt.                                              *)
(***************************************************************************)
PhysicalStagesAreCurrent ==
    pc = "phv" /\ state = "ALT_INITIAL" /\ numInvoked # 0 =>
        mau.tables > since
=============================================================================
