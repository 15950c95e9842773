------------------------ MODULE BackendRetry_proofs ------------------------
(* Theorems about the backend's retries, for every device, every bound and  *)
(* both modes.                                                             *)
EXTENDS BackendRetry, TLAPS

ModeStates == IF alt THEN AltStates ELSE NormalStates
Nocc == {"NOCC_TRY1", "NOCC_TRY2"}

(***************************************************************************)
(* The strengthening.  Before TableSummary runs the state is one it        *)
(* handles, after it a verdict reached from a state that does not ignore   *)
(* conflicts; TablePlacement's flag has been reset whenever PHV allocation *)
(* is about to run.                                                        *)
(***************************************************************************)
StateInv ==
    /\ pc \in Passes \union Ended
    /\ state \in ModeStates \union Verdicts
    /\ prevState \in ModeStates
    /\ numInvoked \in 0 .. MaxInvoked
    /\ result \in Placements
    /\ pc \in {"phv", "place", "summary"} => state \in ModeStates
    /\ pc \in {"temps", "next", "done"} => state \in Verdicts

FlagInv ==
    /\ ignoreCC \in BOOLEAN
    /\ pc \in {"place", "summary"} => (ignoreCC <=> state \in Nocc)
    /\ pc = "phv" => ~ignoreCC /\ state \notin Nocc
    /\ pc \in {"temps", "next", "done"} => ~ignoreCC /\ prevState \notin Nocc

IInv == StateInv /\ FlagInv /\ SuccessFits

\* The mode of a compilation does not change.
SameMode == alt' = alt

\* Before anything has run, the invariant holds.
LEMMA InitInv == Init => IInv
<1>. SUFFICES ASSUME Init PROVE IInv
  OBVIOUS
<1>1. StateInv
  BY BoundAssumption DEF Init, StateInv, FirstState, ModeStates, NormalStates, AltStates, Passes,
                         Placements
<1>2. FlagInv
  BY DEF Init, FlagInv, FirstState, Nocc
<1>3. SuccessFits
  BY DEF Init, SuccessFits
<1>. QED
  BY <1>1, <1>2, <1>3 DEF IInv

USE DEF StateInv, FlagInv, SuccessFits, ModeStates, NormalStates, AltStates, Verdicts,
        Nocc, Passes, Ended, summaryVars, SameMode, ReplayStopped

\* The number of invocations stays within its bound.
LEMMA InvocationType ==
    ASSUME StateInv
    PROVE  Invocation \in 0 .. MaxInvoked /\ (Invocation = 2 => numInvoked = 1)
BY BoundAssumption DEF Invocation

\* PHV analysis keeps the invariant: it throws only with the flag reset.
LEMMA AllocateInv == IInv /\ Allocate /\ SameMode => IInv'
<1>. SUFFICES ASSUME IInv, Allocate, SameMode PROVE IInv'
  OBVIOUS
<1>. USE DEF IInv
<1>1. CASE PhvFits
  BY <1>1 DEF PhvFits
<1>2. CASE PhvFallsBack
  BY <1>2 DEF PhvFallsBack, ThrowPHV
<1>3. CASE PhvStopsReplay
  BY <1>3 DEF PhvStopsReplay, ThrowPHV
<1>4. CASE PhvFails
  BY <1>4 DEF PhvFails
<1>. QED
  BY <1>1, <1>2, <1>3, <1>4 DEF Allocate

\* So does table placement, whatever it produces.
LEMMA PlaceInv == IInv /\ Place /\ SameMode => IInv'
BY DEF IInv, Place, Placements

\* What TableSummary accepts fits the device and has no error to fix.
LEMMA FitsMeans ==
    ASSUME StateInv, Fits(result)
    PROVE  /\ result.stages <= DeviceStages
           /\ result.errs \in IF alt THEN {"none", "warning"} ELSE {"none"}
BY BoundAssumption DEF Fits, Failed, Critical, Placements

\* TableSummary ends in one of three ways.  A verdict: right if a success fits.
LEMMA VerdictInv ==
    ASSUME IInv, NEW S, Summarise(S), SameMode, NEW v \in Verdicts, NEW stops \in BOOLEAN,
           Verdict(v, stops), state \notin Nocc, v = "SUCCESS" => Fits(result)
    PROVE  IInv'
<1>. USE DEF IInv, Summarise, Verdict
<1>1. StateInv'
  BY InvocationType
<1>2. FlagInv'
  OBVIOUS
<1>3. SuccessFits'
  BY FitsMeans
<1>. QED
  BY <1>1, <1>2, <1>3

\* Another table placement: right if the flag it sets is the new state's.
LEMMA RerunInv ==
    ASSUME IInv, NEW S, Summarise(S), SameMode, NEW ig \in BOOLEAN, ThrowRerun(ig),
           state' \in ModeStates, ig <=> state' \in Nocc
    PROVE  IInv'
BY InvocationType DEF IInv, Summarise, ThrowRerun

\* Another PHV allocation: right if the new state respects conflicts.
LEMMA RedoInv ==
    ASSUME IInv, NEW S, Summarise(S), SameMode, NEW t, RedoPHV(t), state' \in ModeStates \ Nocc
    PROVE  IInv'
BY InvocationType DEF IInv, Summarise, RedoPHV, ThrowPHV, Refused

\* The mode of the state TableSummary is invoked in.
LEMMA ModeOfState ==
    ASSUME IInv, NEW S, Summarise(S)
    PROVE  /\ S \subseteq NormalStates => ModeStates = NormalStates
           /\ S \subseteq AltStates => ModeStates = AltStates
BY DEF IInv, Summarise

\* The states of the normal mode.
LEMMA NormalInv == IInv /\ SummariseNormal /\ SameMode => IInv'
<1>. SUFFICES ASSUME IInv, SummariseNormal, SameMode PROVE IInv'
  OBVIOUS
<1>1. CASE SummariseInitial
  <2>1. Summarise({"INITIAL"}) /\ state = "INITIAL" /\ ModeStates = NormalStates
    BY <1>1, ModeOfState DEF SummariseInitial, Summarise
  <2>2. CASE Fits(result) /\ Verdict("SUCCESS", FALSE)
    BY <2>1, <2>2, VerdictInv
  <2>3. CASE state' = "NOCC_TRY1" /\ ThrowRerun(TRUE)
    BY <2>1, <2>3, RerunInv
  <2>. QED
    BY <1>1, <2>2, <2>3 DEF SummariseInitial
<1>2. CASE SummariseNocc
  BY <1>2, ModeOfState, RedoInv DEF SummariseNocc, RedoAfter
<1>3. CASE SummariseRedo
  <2>1. Summarise({"REDO_PHV1"}) /\ state = "REDO_PHV1" /\ ModeStates = NormalStates
    BY <1>3, ModeOfState DEF SummariseRedo, Summarise
  <2>2. CASE Fits(result) /\ Verdict("SUCCESS", FALSE)
    BY <2>1, <2>2, VerdictInv
  <2>3. CASE state' = "NOCC_TRY2" /\ ThrowRerun(TRUE)
    BY <2>1, <2>3, RerunInv
  <2>. QED
    BY <1>3, <2>2, <2>3 DEF SummariseRedo
<1>4. CASE SummariseLast
  <2>1. Summarise({"REDO_PHV2", "FINAL_PLACEMENT"}) /\ state \notin Nocc
    BY <1>4 DEF SummariseLast, Summarise
  <2>2. Critical(result) \in BOOLEAN
    BY DEF Critical
  <2>. QED
    BY <1>4, <2>1, <2>2, VerdictInv DEF SummariseLast
<1>. QED
  BY <1>1, <1>2, <1>3, <1>4 DEF SummariseNormal

\* The states of the alternative mode.
LEMMA AltInv == IInv /\ SummariseAlt /\ SameMode => IInv'
<1>. SUFFICES ASSUME IInv, SummariseAlt, SameMode PROVE IInv'
  OBVIOUS
<1>. USE DEF AltReplay, FixTable
<1>a. Critical(result) \in BOOLEAN
  BY DEF Critical
<1>1. CASE SummariseAltInitial
  <2>1. Summarise({"ALT_INITIAL"}) /\ state = "ALT_INITIAL" /\ ModeStates = AltStates
    BY <1>1, ModeOfState DEF SummariseAltInitial, Summarise
  <2>2. CASE AltReplay
    BY <2>1, <2>2, RedoInv
  <2>3. CASE state' = "ALT_RETRY_ENHANCED_TP" /\ ThrowRerun(FALSE)
    BY <2>1, <2>3, RerunInv
  <2>4. CASE Verdict("FAILURE", Critical(result))
    BY <1>a, <2>1, <2>4, VerdictInv
  <2>. QED
    BY <1>1, <2>2, <2>3, <2>4 DEF SummariseAltInitial
<1>2. CASE SummariseAltRetry
  <2>1. /\ Summarise({"ALT_RETRY_ENHANCED_TP"}) /\ state = "ALT_RETRY_ENHANCED_TP"
        /\ ModeStates = AltStates
    BY <1>2, ModeOfState DEF SummariseAltRetry, Summarise
  <2>2. CASE AltReplay
    BY <2>1, <2>2, RedoInv
  <2>3. CASE state' = "ALT_INITIAL" /\ RedoPHV(Trigger(Invocation, FALSE, FALSE))
    BY <2>1, <2>3, RedoInv
  <2>4. CASE Verdict("FAILURE", TRUE)
    BY <2>1, <2>4, VerdictInv
  <2>. QED
    BY <1>2, <2>2, <2>3, <2>4 DEF SummariseAltRetry
<1>3. CASE SummariseSameOrder
  <2>1. Summarise({"SAME_ORDER"}) /\ state = "SAME_ORDER" /\ ModeStates = AltStates
    BY <1>3, ModeOfState DEF SummariseSameOrder, Summarise
  <2>2. CASE Fits(result) /\ Verdict("SUCCESS", FALSE)
    BY <2>1, <2>2, VerdictInv
  <2>3. CASE FixTable
    BY <2>1, <2>3, RedoInv
  <2>4. CASE state' = "ALT_FINALIZE_TABLE" /\ ThrowRerun(FALSE)
    BY <2>1, <2>4, RerunInv
  <2>. QED
    BY <1>3, <2>2, <2>3, <2>4 DEF SummariseSameOrder
<1>4. CASE SummariseTableFixed
  <2>1. Summarise({"TABLE_FIXED"}) /\ state = "TABLE_FIXED" /\ ModeStates = AltStates
    BY <1>4, ModeOfState DEF SummariseTableFixed, Summarise
  <2>2. CASE Fits(result) /\ Verdict("SUCCESS", FALSE)
    BY <2>1, <2>2, VerdictInv
  <2>3. CASE FixTable
    BY <2>1, <2>3, RedoInv
  <2>4. CASE state' = "ALT_FINALIZE_TABLE" /\ RedoPHV(Trigger(trivial, FALSE, FALSE))
    BY <2>1, <2>4, RedoInv
  <2>. QED
    BY <1>4, <2>2, <2>3, <2>4 DEF SummariseTableFixed
<1>5. CASE SummariseAltFinalize
  <2>1. Summarise({"ALT_FINALIZE_TABLE"}) /\ state \notin Nocc
    BY <1>5 DEF SummariseAltFinalize, Summarise
  <2>. QED
    BY <1>a, <1>5, <2>1, VerdictInv DEF SummariseAltFinalize
<1>. QED
  BY <1>1, <1>2, <1>3, <1>4, <1>5 DEF SummariseAlt

\* Temporaries: a verdict is taken back for a state that respects conflicts.
LEMMA TempsInv == IInv /\ Temps /\ SameMode => IInv'
<1>. SUFFICES ASSUME IInv, Temps, SameMode PROVE IInv'
  OBVIOUS
<1>. USE BoundAssumption DEF IInv, TempsLeft, ThrowFinalRerun, FinalizePlacement
<1>1. CASE AllAllocated
  BY <1>1 DEF AllAllocated
<1>2. CASE TempsFit
  BY <1>2 DEF TempsFit
<1>3. CASE TempsLimited
  BY <1>3 DEF TempsLimited
<1>4. CASE TempsFail
  BY <1>4 DEF TempsFail
<1>. QED
  BY <1>1, <1>2, <1>3, <1>4 DEF Temps

\* Next tables: everything starts again in the first state.
LEMMA NextTablesInv == IInv /\ NextTables /\ SameMode => IInv'
<1>. SUFFICES ASSUME IInv, NextTables, SameMode PROVE IInv'
  OBVIOUS
<1>. USE BoundAssumption DEF IInv
<1>1. CASE LongBranchFails
  BY <1>1 DEF LongBranchFails, FirstState, Refused
<1>2. CASE NextTableFails
  BY <1>2 DEF NextTableFails
<1>3. CASE Finish
  BY <1>3 DEF Finish
<1>. QED
  BY <1>1, <1>2, <1>3 DEF NextTables

\* The invariant is inductive.
LEMMA StepInv == IInv /\ [Next]_vars => IInv'
<1>1. IInv /\ UNCHANGED vars => IInv'
  BY DEF IInv, vars
<1>. QED
  BY <1>1, AllocateInv, PlaceInv, NormalInv, AltInv, TempsInv, NextTablesInv DEF Next

\* The strengthening is an invariant of the retries.
THEOREM Invariance == Spec => []IInv
<1>. QED
  BY InitInv, StepInv, PTL DEF Spec

(***************************************************************************)
(* TableSummary is never invoked in a verdict or in a state of the other   *)
(* mode: the two BUGs of its switch cannot fire, on any device.            *)
(***************************************************************************)
THEOREM HandledTheorem == Spec => []SummaryStateHandled
<1>1. IInv => SummaryStateHandled
  BY DEF IInv, SummaryStateHandled
<1>. QED
  BY <1>1, Invariance, PTL

(***************************************************************************)
(* TablePlacement's flag and TableSummary's state agree whenever tables    *)
(* are placed, whichever handler took the trigger before.                  *)
(***************************************************************************)
THEOREM ConflictsTheorem == Spec => []ConflictsIgnoredOnlyInNocc
<1>1. IInv => ConflictsIgnoredOnlyInNocc
  BY DEF IInv, ConflictsIgnoredOnlyInNocc
<1>. QED
  BY <1>1, Invariance, PTL

(***************************************************************************)
(* An accepted placement fits the device and respects the container        *)
(* conflicts of the PHV allocation it was made for.                        *)
(***************************************************************************)
THEOREM SuccessTheorem == Spec => []SuccessFits
<1>1. IInv => SuccessFits
  BY DEF IInv
<1>. QED
  BY <1>1, Invariance, PTL

\* What LadderClimbs says of one step.
Descends == Rank(state') < Rank(state)
Excused ==
    \/ longBranch' # longBranch
    \/ pc = "temps"
    \/ state = "ALT_RETRY_ENHANCED_TP" /\ numInvoked = 1

\* Ranks are small numbers.
LEMMA RankType == \A s : Rank(s) \in 0 .. 6
BY DEF Rank

\* Who does not change the state does not descend.
LEMMA SameRank == state' = state => ~Descends
BY RankType DEF Descends

\* Verdicts rank highest.
LEMMA VerdictRank == \A v \in Verdicts : Rank(v) = 6
BY DEF Rank

\* The ranks of the attempts that have a next one.
LEMMA Ranks ==
    /\ Rank("INITIAL") = 0 /\ Rank("ALT_INITIAL") = 0
    /\ Rank("NOCC_TRY1") = 1 /\ Rank("ALT_RETRY_ENHANCED_TP") = 1
    /\ Rank("REDO_PHV1") = 2 /\ Rank("SAME_ORDER") = 2
    /\ Rank("NOCC_TRY2") = 3 /\ Rank("TABLE_FIXED") = 3
    /\ Rank("REDO_PHV2") = 4 /\ Rank("ALT_FINALIZE_TABLE") = 5
BY DEF Rank

\* TableSummary climbs, but for the one retry with physical stages.
LEMMA SummaryClimbs ==
    ASSUME IInv, SummariseNormal \/ SummariseAlt
    PROVE  ~Descends \/ Excused
<1>1. CASE state' \in Verdicts
  BY <1>1, VerdictRank, RankType DEF Descends
<1>2. CASE SummariseInitial
  <2>1. state = "INITIAL" /\ (state' = "NOCC_TRY1" \/ state' \in Verdicts)
    BY <1>2 DEF SummariseInitial, Summarise, Verdict
  <2>. QED
    BY <1>1, <2>1, Ranks DEF Descends
<1>3. CASE SummariseNocc
  <2>1. \/ state = "NOCC_TRY1" /\ state' = "REDO_PHV1"
        \/ state = "NOCC_TRY2" /\ state' = "REDO_PHV2"
    BY <1>3 DEF SummariseNocc, Summarise, RedoAfter
  <2>. QED
    BY <2>1, Ranks DEF Descends
<1>4. CASE SummariseRedo
  <2>1. state = "REDO_PHV1" /\ (state' = "NOCC_TRY2" \/ state' \in Verdicts)
    BY <1>4 DEF SummariseRedo, Summarise, Verdict
  <2>. QED
    BY <1>1, <2>1, Ranks DEF Descends
<1>5. CASE SummariseLast \/ SummariseAltFinalize
  <2>1. state' \in Verdicts
    BY <1>5 DEF SummariseLast, SummariseAltFinalize, Verdict
  <2>. QED
    BY <1>1, <2>1
<1>6. CASE SummariseAltInitial
  <2>1. /\ state = "ALT_INITIAL"
        /\ state' \in {"SAME_ORDER", "ALT_RETRY_ENHANCED_TP"} \/ state' \in Verdicts
    BY <1>6 DEF SummariseAltInitial, AltReplay, Summarise, Verdict
  <2>. QED
    BY <1>1, <2>1, Ranks DEF Descends
<1>7. CASE SummariseAltRetry
  <2>1. /\ state = "ALT_RETRY_ENHANCED_TP"
        /\ \/ state' = "SAME_ORDER" \/ state' \in Verdicts
           \/ state' = "ALT_INITIAL" /\ FirstRetry(Invocation)
    BY <1>7 DEF SummariseAltRetry, AltReplay, Summarise, Verdict
  <2>2. FirstRetry(Invocation) => numInvoked = 1
    BY InvocationType DEF FirstRetry, IInv
  <2>. QED
    BY <1>1, <2>1, <2>2, Ranks DEF Descends, Excused
<1>8. CASE SummariseSameOrder
  <2>1. /\ state = "SAME_ORDER"
        /\ state' \in {"TABLE_FIXED", "ALT_FINALIZE_TABLE"} \/ state' \in Verdicts
    BY <1>8 DEF SummariseSameOrder, FixTable, Summarise, Verdict
  <2>. QED
    BY <1>1, <2>1, Ranks DEF Descends
<1>9. CASE SummariseTableFixed
  <2>1. /\ state = "TABLE_FIXED"
        /\ state' \in {"TABLE_FIXED", "ALT_FINALIZE_TABLE"} \/ state' \in Verdicts
    BY <1>9 DEF SummariseTableFixed, FixTable, Summarise, Verdict
  <2>. QED
    BY <1>1, <2>1, Ranks DEF Descends
<1>. QED
  BY <1>2, <1>3, <1>4, <1>5, <1>6, <1>7, <1>8, <1>9 DEF SummariseNormal, SummariseAlt

\* So does every other step, or a restart of everything or temporaries excuse it.
LEMMA StepClimbs ==
    ASSUME IInv, [Next]_vars
    PROVE  ~Descends \/ Excused
<1>1. CASE PhvStopsReplay
  BY <1>1, Ranks DEF PhvStopsReplay, Descends
<1>2. CASE PhvFits \/ PhvFallsBack \/ PhvFails \/ Place \/ NextTableFails \/ Finish
  BY <1>2, SameRank DEF PhvFits, PhvFallsBack, PhvFails, Place, NextTableFails, Finish
<1>3. CASE Temps
  BY <1>3 DEF Temps, AllAllocated, TempsFit, TempsLimited, TempsFail, TempsLeft, Excused
<1>4. CASE LongBranchFails
  BY <1>4 DEF LongBranchFails, LongBranchAfter, Excused
<1>5. CASE UNCHANGED vars
  BY <1>5, SameRank DEF vars
<1>. QED
  BY <1>1, <1>2, <1>3, <1>4, <1>5, SummaryClimbs DEF Next, Allocate, NextTables

(***************************************************************************)
(* The ladder of attempts is climbed: no attempt is gone back to but after  *)
(* a restart for long branches, for temporaries, or once with physical     *)
(* stages.                                                                 *)
(***************************************************************************)
THEOREM LadderTheorem == Spec => LadderClimbs
<1>1. IInv /\ [Next]_vars => [Descends => Excused]_vars
  BY StepClimbs
<1>2. [][Descends => Excused]_vars <=> LadderClimbs
  BY DEF Descends, Excused, LadderClimbs
<1>. QED
  BY <1>1, <1>2, Invariance, PTL DEF Spec

-----------------------------------------------------------------------------
(* The timer.                                                              *)

\* What the timer has added up, by the number of the attempt: an even attempt
\* is begun by a visit that stops it.
TimerInv ==
    /\ longBranch \in {"allowed", "avoided", "disabled"}
    /\ \/ attempt = 1
       \/ attempt = 2 /\ longBranch # "allowed"
       \/ attempt = 3 /\ longBranch = "disabled"
    /\ timer = [started |-> timer.started, from |-> timer.from,
                elapsed |-> timer.elapsed, printed |-> timer.printed]
    /\ pc \in Passes =>
          \/ attempt = 1 /\ timer.started /\ timer.from = 1 /\ timer.elapsed = {}
          \/ /\ attempt = 2 /\ ~timer.started
             /\ timer.elapsed = {1} /\ timer.printed = {1}
          \/ attempt = 3 /\ timer.started /\ timer.from = 3 /\ timer.elapsed = {1}
    /\ pc = "done" =>
          \/ attempt = 1 /\ ~timer.started /\ timer.printed = {1}
          \/ attempt = 2 /\ timer.started /\ timer.printed = {1}
          \/ attempt = 3 /\ ~timer.started /\ timer.printed = {1, 3}

\* What one visit does to a timer that runs, and to one that does not.
LEMMA VisitedFields ==
    ASSUME NEW t, NEW a,
           t = [started |-> t.started, from |-> t.from, elapsed |-> t.elapsed, printed |-> t.printed]
    PROVE  /\ t.started =>
                 /\ ~Visited(t, a).started
                 /\ Visited(t, a).elapsed = t.elapsed \union {t.from}
                 /\ Visited(t, a).printed = t.elapsed \union {t.from}
           /\ ~t.started =>
                 /\ Visited(t, a).started /\ Visited(t, a).from = a
                 /\ Visited(t, a).elapsed = t.elapsed /\ Visited(t, a).printed = t.printed
           /\ Visited(t, a) = [started |-> Visited(t, a).started, from |-> Visited(t, a).from,
                               elapsed |-> Visited(t, a).elapsed, printed |-> Visited(t, a).printed]
<1>1. CASE t.started
  BY <1>1 DEF Visited
<1>2. CASE ~t.started
  BY <1>2 DEF Visited
<1>. QED
  BY <1>1, <1>2

\* The first visit starts it.
LEMMA TimerInit == Init => TimerInv
<1>. SUFFICES ASSUME Init PROVE TimerInv
  OBVIOUS
<1>1. timer = [started |-> TRUE, from |-> 1, elapsed |-> {}, printed |-> {}]
  BY DEF Init, NewTimer, Visited
<1>. QED
  BY <1>1 DEF Init, TimerInv

\* Two actions visit it, and what lies between them takes its time.
LEMMA TimerStep == TimerInv /\ [Next]_vars => TimerInv'
<1>. SUFFICES ASSUME TimerInv, [Next]_vars PROVE TimerInv'
  OBVIOUS
<1>1. CASE LongBranchFails
  <2>1. /\ pc = "next" /\ pc' = "phv" /\ longBranch # "disabled" /\ longBranch' = LongBranchAfter
        /\ attempt' = attempt + 1 /\ timer' = Visited(timer, attempt + 1)
    BY <1>1 DEF LongBranchFails
  <2>2. attempt \in {1, 2}
    BY <2>1 DEF TimerInv
  <2>3. CASE attempt = 1
    <3>1. /\ ~timer'.started /\ timer'.elapsed = {1} /\ timer'.printed = {1}
          /\ timer' = [started |-> timer'.started, from |-> timer'.from,
                       elapsed |-> timer'.elapsed, printed |-> timer'.printed]
      BY <2>1, <2>3, VisitedFields DEF TimerInv
    <3>2. attempt' = 2 /\ longBranch' \in {"avoided", "disabled"}
      BY <2>1, <2>3 DEF LongBranchAfter
    <3>. QED
      BY <2>1, <3>1, <3>2 DEF TimerInv
  <2>4. CASE attempt = 2
    <3>1. /\ timer'.started /\ timer'.from = 3 /\ timer'.elapsed = {1}
          /\ timer' = [started |-> timer'.started, from |-> timer'.from,
                       elapsed |-> timer'.elapsed, printed |-> timer'.printed]
      BY <2>1, <2>4, VisitedFields DEF TimerInv
    <3>2. attempt' = 3 /\ longBranch' = "disabled"
      BY <2>1, <2>4 DEF LongBranchAfter, TimerInv
    <3>. QED
      BY <2>1, <3>1, <3>2 DEF TimerInv
  <2>. QED
    BY <2>2, <2>3, <2>4
<1>2. CASE Finish
  <2>1. /\ pc = "next" /\ pc' = "done" /\ UNCHANGED <<attempt, longBranch>>
        /\ timer' = Visited(timer, attempt)
    BY <1>2 DEF Finish
  <2>2. /\ timer' = [started |-> timer'.started, from |-> timer'.from,
                     elapsed |-> timer'.elapsed, printed |-> timer'.printed]
        /\ timer.started => ~timer'.started /\ timer'.printed = timer.elapsed \union {timer.from}
        /\ ~timer.started => timer'.started /\ timer'.printed = timer.printed
    BY <2>1, VisitedFields DEF TimerInv
  <2>3. {} \union {1} = {1} /\ {1} \union {3} = {1, 3}
    OBVIOUS
  <2>. QED
    BY <2>1, <2>2, <2>3 DEF TimerInv
<1>3. ASSUME UNCHANGED <<timer, attempt, longBranch>>, pc' \in Passes \union {"stopped"} => pc \in Passes,
             pc' # "done" \/ pc = "done"
      PROVE  TimerInv'
  BY <1>3 DEF TimerInv
<1>4. CASE Allocate
  BY <1>3, <1>4 DEF Allocate, PhvFits, PhvFallsBack, PhvStopsReplay, PhvFails, ThrowPHV, clock
<1>5. CASE Place
  BY <1>3, <1>5 DEF Place, clock
<1>6. CASE SummariseNormal
  BY <1>3, <1>6 DEF SummariseNormal, SummariseInitial, SummariseNocc, SummariseRedo, SummariseLast,
     Summarise, Verdict, RedoPHV, ThrowPHV, ThrowRerun, clock
<1>7. CASE SummariseAlt
  BY <1>3, <1>7 DEF SummariseAlt, SummariseAltInitial, SummariseAltRetry, SummariseSameOrder,
     SummariseTableFixed, SummariseAltFinalize, AltReplay, FixTable, Summarise, Verdict, RedoPHV,
     ThrowPHV, ThrowRerun, clock
<1>8. CASE Temps
  BY <1>3, <1>8 DEF Temps, AllAllocated, TempsFit, TempsLimited, TempsFail, TempsLeft,
     ThrowFinalRerun, clock
<1>9. CASE NextTableFails
  BY <1>3, <1>9 DEF NextTableFails, clock
<1>10. CASE UNCHANGED vars
  BY <1>10 DEF vars, clock, TimerInv
<1>. QED
  BY <1>1, <1>2, <1>4, <1>5, <1>6, <1>7, <1>8, <1>9, <1>10 DEF Next, NextTables

(***************************************************************************)
(* What the timer prints is the time of the attempts with an odd number:   *)
(* the one attempt that is kept after a single restart for long branches   *)
(* is missing.                                                             *)
(***************************************************************************)
THEOREM TimeTheorem == Spec => []TimePrinted
<1>1. TimerInv => TimePrinted
  <2>. SUFFICES ASSUME TimerInv, pc = "done"
                PROVE  /\ timer.printed = { a \in 1 .. attempt : a % 2 = 1 }
                       /\ timer.started <=> attempt % 2 = 0
    BY DEF TimePrinted
  <2>1. CASE attempt = 1
    <3>1. { a \in 1 .. 1 : a % 2 = 1 } = {1}
      OBVIOUS
    <3>. QED
      BY <2>1, <3>1 DEF TimerInv
  <2>2. CASE attempt = 2
    <3>1. { a \in 1 .. 2 : a % 2 = 1 } = {1}
      OBVIOUS
    <3>. QED
      BY <2>2, <3>1 DEF TimerInv
  <2>3. CASE attempt = 3
    <3>1. { a \in 1 .. 3 : a % 2 = 1 } = {1, 3}
      OBVIOUS
    <3>. QED
      BY <2>3, <3>1 DEF TimerInv
  <2>. QED
    BY <2>1, <2>2, <2>3 DEF TimerInv
<1>. QED
  BY <1>1, TimerInit, TimerStep, PTL DEF Spec

-----------------------------------------------------------------------------
(* How often tables are placed, and the types, which depend on it.         *)

\* The placements that may follow from a state, but for restarts and temporaries.
\* The alternative mode may go back once, while there are fewer than two.
Back(n) == IF n < 2 THEN 2 ELSE 0
Left(s, f, n) ==
    CASE s = "INITIAL" -> 5
      [] s = "NOCC_TRY1" -> 4
      [] s = "REDO_PHV1" -> 3
      [] s = "NOCC_TRY2" -> 2
      [] s \in {"REDO_PHV2", "FINAL_PLACEMENT", "ALT_FINALIZE_TABLE"} -> 1
      [] s = "ALT_INITIAL" -> 7 - f + Back(n)
      [] s = "ALT_RETRY_ENHANCED_TP" -> 6 - f + Back(n)
      [] s \in {"SAME_ORDER", "TABLE_FIXED"} -> 5 - f
      [] OTHER -> 0

Restarts ==
    CASE longBranch = "allowed" -> 2 [] longBranch = "avoided" -> 1 [] OTHER -> 0

MostPlacements == 27 + 5 * MaxTempRuns

CountTypes ==
    /\ fixed \in 0 .. 3
    /\ tempRuns \in 0 .. MaxTempRuns
    /\ longBranch \in {"allowed", "avoided", "disabled"}

CountInv ==
    /\ CountTypes
    /\ numInvoked + Left(state, fixed, numInvoked) + 9 * Restarts + 5 * (MaxTempRuns - tempRuns)
          <= MostPlacements

\* What Left says of each state.
LEMMA LeftValues ==
    ASSUME NEW f \in 0 .. 3, NEW n \in Nat
    PROVE  /\ Back(n) \in {0, 2}
           /\ Left("INITIAL", f, n) = 5 /\ Left("NOCC_TRY1", f, n) = 4
           /\ Left("REDO_PHV1", f, n) = 3 /\ Left("NOCC_TRY2", f, n) = 2
           /\ Left("REDO_PHV2", f, n) = 1 /\ Left("FINAL_PLACEMENT", f, n) = 1
           /\ Left("ALT_FINALIZE_TABLE", f, n) = 1
           /\ Left("ALT_INITIAL", f, n) = 7 - f + Back(n)
           /\ Left("ALT_RETRY_ENHANCED_TP", f, n) = 6 - f + Back(n)
           /\ Left("SAME_ORDER", f, n) = 5 - f /\ Left("TABLE_FIXED", f, n) = 5 - f
           /\ Left("SUCCESS", f, n) = 0 /\ Left("FAILURE", f, n) = 0
BY DEF Left, Back

\* It is a small number.
LEMMA LeftType ==
    ASSUME NEW f \in 0 .. 3, NEW n \in Nat, NEW s \in NormalStates \union AltStates \union Verdicts
    PROVE  /\ Left(s, f, n) \in 0 .. 9
           /\ s \in NormalStates => Left(s, f, n) <= 5
BY LeftValues

\* Initially.
LEMMA CountInit == Init => CountInv
<1>. SUFFICES ASSUME Init PROVE CountInv
  OBVIOUS
<1>1. CountTypes
  BY BoundAssumption DEF Init, CountTypes
<1>2. numInvoked = 0 /\ fixed = 0 /\ tempRuns = 0 /\ state \in {"INITIAL", "ALT_INITIAL"}
  BY DEF Init, FirstState
<1>3. Left(state, fixed, numInvoked) \in 0 .. 9
  BY <1>2, LeftType
<1>4. Restarts \in 0 .. 2
  BY DEF Restarts
<1>. QED
  BY <1>1, <1>2, <1>3, <1>4, BoundAssumption DEF CountInv, MostPlacements

\* A step of TableSummary uses up one placement.
LEMMA CountSummary ==
    ASSUME IInv, CountInv, SummariseNormal \/ SummariseAlt
    PROVE  /\ numInvoked' \in Nat /\ numInvoked' <= numInvoked + 1 /\ fixed' \in 0 .. 3
           /\ Left(state', fixed', numInvoked') + 1 <= Left(state, fixed, numInvoked)
           /\ UNCHANGED <<tempRuns, longBranch>>
<1>1. numInvoked \in Nat /\ fixed \in 0 .. 3
  BY DEF IInv, CountInv, CountTypes
<1>2. /\ numInvoked' = Invocation /\ UNCHANGED <<tempRuns, longBranch>>
      /\ numInvoked' \in Nat /\ numInvoked' <= numInvoked + 1
      /\ numInvoked' = 2 => numInvoked = 1
  <2>1. numInvoked' = Invocation /\ UNCHANGED <<tempRuns, longBranch>>
    BY DEF SummariseNormal, SummariseInitial, SummariseNocc, SummariseRedo, SummariseLast,
       SummariseAlt, SummariseAltInitial, SummariseAltRetry, SummariseSameOrder,
       SummariseTableFixed, SummariseAltFinalize, Summarise
  <2>2. Invocation \in Nat /\ Invocation <= numInvoked + 1 /\ (Invocation = 2 => numInvoked = 1)
    BY <1>1, InvocationType, BoundAssumption DEF Invocation, IInv
  <2>. QED
    BY <2>1, <2>2
<1>2a. Back(numInvoked') <= Back(numInvoked)
  BY <1>1, BoundAssumption, <1>2 DEF Back, Invocation
<1>3. fixed' \in 0 .. 3
  <2>1. fixed' = fixed \/ FixTable
    BY DEF SummariseNormal, SummariseInitial, SummariseNocc, SummariseRedo, SummariseLast,
       SummariseAlt, SummariseAltInitial, SummariseAltRetry, SummariseSameOrder,
       SummariseTableFixed, SummariseAltFinalize
  <2>2. FixTable => fixed' = IF fixed < 3 THEN fixed + 1 ELSE fixed
    BY DEF FixTable
  <2>. QED
    BY <1>1, <2>1, <2>2
<1> DEFINE L == Left(state, fixed, numInvoked)
           M == Left(state', fixed', numInvoked')
<1>4. \A v \in Verdicts : Left(v, fixed', numInvoked') = 0
  BY <1>2, <1>3, LeftValues
<1>5. CASE SummariseInitial
  <2>1. state = "INITIAL" /\ (state' = "NOCC_TRY1" \/ state' \in Verdicts)
    BY <1>5 DEF SummariseInitial, Summarise, Verdict
  <2>2. L = 5 /\ Left("NOCC_TRY1", fixed', numInvoked') = 4
    BY <1>1, <1>2, <1>3, <2>1, LeftValues
  <2>. QED
    BY <1>2, <1>3, <1>4, <2>1, <2>2
<1>6. CASE SummariseNocc
  <2>1. \/ state = "NOCC_TRY1" /\ state' = "REDO_PHV1"
        \/ state = "NOCC_TRY2" /\ state' = "REDO_PHV2"
    BY <1>6 DEF SummariseNocc, Summarise, RedoAfter
  <2>2. /\ Left("REDO_PHV1", fixed', numInvoked') = 3 /\ Left("REDO_PHV2", fixed', numInvoked') = 1
        /\ Left("NOCC_TRY1", fixed, numInvoked) = 4 /\ Left("NOCC_TRY2", fixed, numInvoked) = 2
    BY <1>1, <1>2, <1>3, LeftValues
  <2>. QED
    BY <1>2, <1>3, <2>1, <2>2
<1>7. CASE SummariseRedo
  <2>1. state = "REDO_PHV1" /\ (state' = "NOCC_TRY2" \/ state' \in Verdicts)
    BY <1>7 DEF SummariseRedo, Summarise, Verdict
  <2>2. L = 3 /\ Left("NOCC_TRY2", fixed', numInvoked') = 2
    BY <1>1, <1>2, <1>3, <2>1, LeftValues
  <2>. QED
    BY <1>2, <1>3, <1>4, <2>1, <2>2
<1>8. CASE SummariseLast \/ SummariseAltFinalize
  <2>1. /\ state' \in Verdicts
        /\ state \in {"REDO_PHV2", "FINAL_PLACEMENT", "ALT_FINALIZE_TABLE"}
    BY <1>8 DEF SummariseLast, SummariseAltFinalize, Summarise, Verdict
  <2>2. L = 1
    BY <1>1, <2>1, LeftValues
  <2>. QED
    BY <1>2, <1>3, <1>4, <2>1, <2>2
<1>9. CASE SummariseAltInitial
  <2>1. /\ state = "ALT_INITIAL" /\ fixed' = fixed
        /\ state' \in {"SAME_ORDER", "ALT_RETRY_ENHANCED_TP"} \/ state' \in Verdicts
    BY <1>9 DEF SummariseAltInitial, AltReplay, Summarise, Verdict
  <2>2. /\ L = 7 - fixed + Back(numInvoked) /\ Left("SAME_ORDER", fixed, numInvoked') = 5 - fixed
        /\ Left("ALT_RETRY_ENHANCED_TP", fixed, numInvoked') = 6 - fixed + Back(numInvoked')
        /\ Back(numInvoked) \in {0, 2} /\ Back(numInvoked') \in {0, 2}
    BY <1>1, <1>2, <2>1, LeftValues
  <2>. QED
    BY <1>1, <1>2, <1>2a, <1>3, <1>4, <2>1, <2>2
<1>10. CASE SummariseAltRetry
  <2>1. /\ state = "ALT_RETRY_ENHANCED_TP" /\ fixed' = fixed
        /\ \/ state' = "SAME_ORDER" \/ state' \in Verdicts
           \/ state' = "ALT_INITIAL" /\ numInvoked' = 2
    BY <1>2, <1>10 DEF SummariseAltRetry, AltReplay, Summarise, Verdict, FirstRetry
  <2>2. /\ L = 6 - fixed + Back(numInvoked) /\ Left("SAME_ORDER", fixed, numInvoked') = 5 - fixed
        /\ Left("ALT_INITIAL", fixed, numInvoked') = 7 - fixed + Back(numInvoked')
        /\ Back(numInvoked) \in {0, 2}
    BY <1>1, <1>2, <2>1, LeftValues
  <2>3. Back(2) = 0 /\ Back(1) = 2
    BY DEF Back
  <2>. QED
    BY <1>1, <1>2, <1>3, <1>4, <2>1, <2>2, <2>3
<1>11. CASE SummariseSameOrder \/ SummariseTableFixed
  <2>1. /\ state \in {"SAME_ORDER", "TABLE_FIXED"}
        /\ \/ state' \in Verdicts /\ fixed' = fixed
           \/ state' = "ALT_FINALIZE_TABLE" /\ fixed' = fixed
           \/ state' = "TABLE_FIXED" /\ fixed < 3 /\ fixed' = fixed + 1
    BY <1>11 DEF SummariseSameOrder, SummariseTableFixed, FixTable, MayFix, Summarise, Verdict
  <2>2. L = 5 - fixed
    BY <1>1, <2>1, LeftValues
  <2>3. /\ Left("ALT_FINALIZE_TABLE", fixed', numInvoked') = 1
        /\ Left("TABLE_FIXED", fixed', numInvoked') = 5 - fixed'
    BY <1>2, <1>3, LeftValues
  <2>. QED
    BY <1>1, <1>2, <1>3, <1>4, <2>1, <2>2, <2>3
<1>. QED
  BY <1>5, <1>6, <1>7, <1>8, <1>9, <1>10, <1>11 DEF SummariseNormal, SummariseAlt

\* The sum that bounds them, when one placement is used up.
LEMMA SumPlaced ==
    ASSUME NEW n \in Nat, NEW n1 \in Nat, NEW l \in 0 .. 9, NEW k \in 0 .. 9, NEW r \in 0 .. 2,
           NEW m \in Nat, NEW t \in 0 .. m, NEW c \in Nat,
           n + l + 9 * r + 5 * (m - t) <= c, n1 <= n + 1, k + 1 <= l
    PROVE  n1 + k + 9 * r + 5 * (m - t) <= c
OBVIOUS

\* And when one restart is.
LEMMA SumRestarted ==
    ASSUME NEW n \in Nat, NEW k \in 0 .. 9, NEW r \in 0 .. 2, NEW q \in 0 .. 2,
           NEW m \in Nat, NEW t \in 0 .. m, NEW c \in Nat,
           n + 0 + 9 * r + 5 * (m - t) <= c, q + 1 <= r
    PROVE  n + k + 9 * q + 5 * (m - t) <= c
OBVIOUS

\* No step adds to the placements that are still possible.
LEMMA CountStep == IInv /\ CountInv /\ [Next]_vars => CountInv'
<1>. SUFFICES ASSUME IInv, CountInv, [Next]_vars PROVE CountInv'
  OBVIOUS
<1>1. numInvoked \in Nat /\ fixed \in 0 .. 3 /\ tempRuns \in 0 .. MaxTempRuns /\ MaxTempRuns \in Nat
  BY BoundAssumption DEF IInv, CountInv, CountTypes
<1> DEFINE L == Left(state, fixed, numInvoked)
<1>2. L \in 0 .. 9 /\ Restarts \in 0 .. 2
  BY <1>1, LeftType DEF IInv, Restarts
<1>3. numInvoked + L + 9 * Restarts + 5 * (MaxTempRuns - tempRuns) <= MostPlacements
  BY DEF CountInv
<1>4. MostPlacements' = MostPlacements /\ MostPlacements \in Nat
  BY <1>1 DEF MostPlacements
<1>5. CASE SummariseNormal \/ SummariseAlt
  <2>1. /\ numInvoked' \in Nat /\ numInvoked' <= numInvoked + 1 /\ fixed' \in 0 .. 3
        /\ Left(state', fixed', numInvoked') + 1 <= L
        /\ UNCHANGED <<tempRuns, longBranch>>
    BY <1>5, CountSummary
  <2>2. state' \in NormalStates \union AltStates \union Verdicts
    BY <1>5, StepInv, AltInv, NormalInv DEF Next, IInv
  <2>3. Left(state', fixed', numInvoked') \in 0 .. 9
    BY <2>1, <2>2, LeftType
  <2>4. Restarts' = Restarts /\ CountTypes'
    BY <2>1 DEF Restarts, CountInv, CountTypes
  <2> DEFINE K == Left(state', fixed', numInvoked')
  <2>5. /\ numInvoked' \in Nat /\ K \in 0 .. 9 /\ numInvoked' <= numInvoked + 1 /\ K + 1 <= L
        /\ tempRuns' = tempRuns
    BY <2>1, <2>3
  <2> HIDE DEF K, L
  <2>6. numInvoked' + K + 9 * Restarts + 5 * (MaxTempRuns - tempRuns) <= MostPlacements
    BY <1>1, <1>2, <1>3, <1>4, <2>5, SumPlaced
  <2>. QED
    BY <1>4, <2>1, <2>4, <2>6 DEF CountInv, K
<1>6. CASE LongBranchFails
  <2>1. /\ state \in Verdicts /\ longBranch # "disabled" /\ longBranch' = LongBranchAfter
        /\ state' \in {"INITIAL", "ALT_INITIAL"} /\ UNCHANGED <<numInvoked, fixed, tempRuns>>
    BY <1>6 DEF LongBranchFails, FirstState, IInv
  <2>2. L = 0 /\ Left(state', fixed, numInvoked) \in 0 .. 9
    BY <1>1, <2>1, LeftValues, LeftType
  <2>3. Restarts' + 1 <= Restarts /\ Restarts' \in 0 .. 2 /\ CountTypes'
    BY <2>1 DEF Restarts, LongBranchAfter, CountInv, CountTypes
  <2> DEFINE K == Left(state', fixed, numInvoked)
  <2> HIDE DEF K, L
  <2>4. numInvoked + K + 9 * Restarts' + 5 * (MaxTempRuns - tempRuns) <= MostPlacements
    <3>1. K \in 0 .. 9 /\ L = 0
      BY <2>2 DEF K, L
    <3>. QED
      BY <1>1, <1>2, <1>3, <1>4, <2>3, <3>1, SumRestarted
  <2>. QED
    BY <1>4, <2>1, <2>3, <2>4 DEF CountInv, K
<1>7. CASE TempsFit \/ TempsLimited \/ TempsFail
  <2>1. /\ state \in Verdicts /\ tempRuns < MaxTempRuns /\ tempRuns' = tempRuns + 1
        /\ UNCHANGED <<numInvoked, fixed, longBranch>>
        /\ \/ state' = state
           \/ state' \in {"FINAL_PLACEMENT", "ALT_FINALIZE_TABLE"}
           \/ ~alt /\ state' = prevState
    BY <1>7 DEF TempsFit, TempsLimited, TempsFail, TempsLeft, ThrowFinalRerun, FinalizePlacement,
       IInv
  <2>2. L = 0
    BY <1>1, <2>1, LeftValues
  <2>3. Left(state', fixed, numInvoked) \in 0 .. 5
    <3>1. CASE state' \in Verdicts \union {"FINAL_PLACEMENT", "ALT_FINALIZE_TABLE"}
      BY <1>1, <3>1, LeftValues
    <3>2. CASE state' \in NormalStates
      BY <1>1, <3>2, LeftType
    <3>. QED
      BY <2>1, <3>1, <3>2 DEF IInv
  <2>4. Restarts' = Restarts /\ CountTypes'
    BY <1>1, <2>1 DEF Restarts, CountInv, CountTypes
  <2> DEFINE K == Left(state', fixed, numInvoked)
  <2>5. K \in 0 .. 5
    BY <2>3
  <2> HIDE DEF K, L
  <2>6. numInvoked + K + 9 * Restarts + 5 * (MaxTempRuns - (tempRuns + 1)) <= MostPlacements
    BY <1>1, <1>2, <1>3, <1>4, <2>1, <2>2, <2>5
  <2>. QED
    BY <1>4, <2>1, <2>4, <2>6 DEF CountInv, K
<1>8. CASE PhvStopsReplay
  <2>1. /\ state = "TABLE_FIXED" /\ state' = "ALT_FINALIZE_TABLE"
        /\ UNCHANGED <<numInvoked, fixed, longBranch, tempRuns>>
    BY <1>8 DEF PhvStopsReplay
  <2>2. L = 5 - fixed /\ Left(state', fixed, numInvoked) = 1
    BY <1>1, <2>1, LeftValues
  <2>3. Restarts' = Restarts /\ CountTypes'
    BY <2>1 DEF Restarts, CountInv, CountTypes
  <2> DEFINE K == Left(state', fixed, numInvoked)
  <2>4. K = 1 /\ L >= 2
    BY <1>1, <2>2
  <2> HIDE DEF K, L
  <2>5. numInvoked + K + 9 * Restarts + 5 * (MaxTempRuns - tempRuns) <= MostPlacements
    BY <1>1, <1>2, <1>3, <1>4, <2>4
  <2>. QED
    BY <1>4, <2>1, <2>3, <2>5 DEF CountInv, K
<1>9. ASSUME UNCHANGED <<state, fixed, numInvoked, longBranch, tempRuns>> PROVE CountInv'
  BY <1>9 DEF CountInv, CountTypes, Restarts, MostPlacements
<1>10. CASE PhvFits \/ PhvFallsBack \/ PhvFails \/ Place \/ AllAllocated \/ NextTableFails \/ Finish
  BY <1>9, <1>10 DEF PhvFits, PhvFallsBack, PhvFails, Place, AllAllocated, NextTableFails, Finish
<1>11. CASE UNCHANGED vars
  BY <1>9, <1>11 DEF vars
<1>. QED
  BY <1>5, <1>6, <1>7, <1>8, <1>10, <1>11 DEF Next, Allocate, Temps, NextTables

(***************************************************************************)
(* The back end places tables a bounded number of times, whatever device   *)
(* and program: at most 27 times and 5 more for each run that is repeated  *)
(* for temporaries, all restarts for long branches included.               *)
(***************************************************************************)
THEOREM CountTheorem == Spec => [](numInvoked <= 27 + 5 * MaxTempRuns)
<1>1. IInv /\ CountInv => numInvoked <= 27 + 5 * MaxTempRuns
  <2>. SUFFICES ASSUME IInv, CountInv PROVE numInvoked <= 27 + 5 * MaxTempRuns
    OBVIOUS
  <2>1. /\ numInvoked \in Nat /\ fixed \in 0 .. 3 /\ tempRuns \in 0 .. MaxTempRuns
        /\ MaxTempRuns \in Nat
    BY BoundAssumption DEF IInv, CountInv, CountTypes
  <2>2. Left(state, fixed, numInvoked) \in 0 .. 9 /\ Restarts \in 0 .. 2
    BY <2>1, LeftType DEF IInv, Restarts
  <2> DEFINE L == Left(state, fixed, numInvoked)
  <2>3. /\ numInvoked + L + 9 * Restarts + 5 * (MaxTempRuns - tempRuns) <= 27 + 5 * MaxTempRuns
        /\ L \in 0 .. 9
    BY <2>2 DEF CountInv, MostPlacements
  <2> HIDE DEF L
  <2>. QED
    BY <2>1, <2>2, <2>3
<1>. QED
  BY <1>1, InitInv, StepInv, CountInit, CountStep, PTL DEF Spec

-----------------------------------------------------------------------------
(* The placements that PHV allocation is redone for.  The bound of the      *)
(* model's counter, numInvoked, must be one that is never reached.         *)

Unsaturated == numInvoked < MaxInvoked

Mau == [tables : Placement, prev : Placement, internal : Placement, has : BOOLEAN,
        metaOff : BOOLEAN, ignorePacks : BOOLEAN, firstFit : BOOLEAN]

FieldTypes ==
    /\ alt \in BOOLEAN
    /\ firstRoundFit \in BOOLEAN
    /\ placed \in Placement /\ trivial \in Placement
    /\ mau \in Mau
    /\ since \in 0 .. numInvoked
    /\ limitTmp \in BOOLEAN /\ spillARA \in BOOLEAN
    /\ roundOne \in Settings

\* The attempts that may still lead to S: the current one, and the one that a
\* rerun for temporaries goes back to.
Heading(S) == state \in S \/ (pc \in {"temps", "next"} /\ prevState \in S)

\* In the alternative mode nothing makes MauBacktracker drop a placement.  In
\* the normal mode it stores none before the first conflict-free one, and then
\* each of them until the next, unless the first round fitted.
ReplayInv ==
    /\ alt => ~firstRoundFit /\ ~mau.firstFit /\ ~mau.ignorePacks
    /\ ReplaysTrivial
RedoInvariant ==
    ~mau.firstFit =>
        /\ ~mau.ignorePacks
        /\ Heading({"INITIAL", "NOCC_TRY1"}) => mau.tables = None /\ mau.prev = None
        /\ Heading({"REDO_PHV1"}) => mau.tables \in since + 1 .. numInvoked
        /\ state = "NOCC_TRY2" => mau.tables \in since + 1 .. numInvoked - 1

FieldInv == FieldTypes /\ ReplayInv /\ RedoInvariant /\ RedoUsesNoccPlacements

Carried == [tables : Placement, fit : BOOLEAN, ignorePacks : BOOLEAN, metaOff : BOOLEAN]

\* What MauBacktracker holds after it has accepted a trigger and is restarted.
LEMMA AppliedFields ==
    ASSUME NEW m \in Mau, NEW t \in Carried
    PROVE  LET n == Applied(Noted(m, t)) IN
           /\ n \in Mau
           /\ n.firstFit <=> (m.firstFit \/ t.fit)
           /\ n.ignorePacks <=> (m.ignorePacks \/ t.ignorePacks)
           /\ ~n.firstFit /\ ~n.ignorePacks =>
                 /\ n.tables = t.tables /\ n.internal = t.tables
                 /\ m.tables = None => n.prev = m.prev
                 /\ m.tables # None => n.prev = m.tables
<1>1. None \in Placement
  BY BoundAssumption DEF None, Placement
<1> DEFINE k == Noted(m, t)
<1>2. /\ k \in Mau
      /\ k.firstFit <=> (m.firstFit \/ t.fit)
      /\ k.ignorePacks <=> (m.ignorePacks \/ t.ignorePacks)
      /\ ~k.ignorePacks =>
            /\ k.tables = t.tables /\ k.internal = t.tables
            /\ m.tables = None => k.prev = m.prev
            /\ m.tables # None => k.prev = m.tables
  <2>1. PICK pack \in BOOLEAN : pack <=> (m.ignorePacks \/ t.ignorePacks)
    BY DEF Mau, Carried
  <2>2. k = [m EXCEPT !.metaOff = @ \/ t.metaOff, !.ignorePacks = pack,
                      !.firstFit = @ \/ t.fit, !.has = TRUE,
                      !.prev = IF pack \/ m.tables = None THEN @ ELSE m.tables,
                      !.tables = IF pack THEN @ ELSE t.tables,
                      !.internal = IF pack THEN @ ELSE t.tables]
    BY <2>1 DEF Noted, Mau, Carried
  <2>3. k \in Mau
    BY <2>1, <2>2 DEF Mau, Carried
  <2>4. /\ k.firstFit <=> (m.firstFit \/ t.fit)
        /\ k.ignorePacks <=> (m.ignorePacks \/ t.ignorePacks)
    BY <2>1, <2>2 DEF Mau, Carried
  <2>5. ASSUME ~k.ignorePacks
        PROVE  /\ k.tables = t.tables /\ k.internal = t.tables
               /\ m.tables = None => k.prev = m.prev
               /\ m.tables # None => k.prev = m.tables
    BY <2>1, <2>2, <2>4, <2>5 DEF Mau
  <2>. QED
    BY <2>3, <2>4, <2>5
<1> HIDE DEF k
<1>3. CASE k.firstFit
  <2>1. Applied(k) = [k EXCEPT !.tables = None, !.prev = None]
    BY <1>3 DEF Applied
  <2>2. /\ Applied(k) \in Mau /\ Applied(k).firstFit = k.firstFit
        /\ Applied(k).ignorePacks = k.ignorePacks
    BY <1>1, <1>2, <2>1 DEF Mau
  <2>. QED
    BY <1>2, <1>3, <2>2 DEF k
<1>4. CASE ~k.firstFit
  BY <1>2, <1>4 DEF Applied, k
<1>. QED
  BY <1>3, <1>4

\* And after it has been cleared.
LEMMA ClearedFields ==
    ASSUME NEW m \in Mau
    PROVE  /\ Applied(Cleared(m)) \in Mau
           /\ ~Applied(Cleared(m)).firstFit /\ ~Applied(Cleared(m)).ignorePacks
           /\ Applied(Cleared(m)).tables = None /\ Applied(Cleared(m)).prev = None
<1> DEFINE k == Cleared(m)
<1>1. None \in Placement
  BY BoundAssumption DEF None, Placement
<1>2. /\ k \in Mau /\ ~k.firstFit /\ ~k.ignorePacks
      /\ k.tables = None /\ k.prev = None
  BY <1>1 DEF Cleared, Mau
<1> HIDE DEF k
<1>3. Applied(k) = k
  BY <1>2 DEF Applied
<1>. QED
  BY <1>2, <1>3 DEF k

\* Initially.
LEMMA FieldInit == Init => FieldInv
<1>. SUFFICES ASSUME Init PROVE FieldInv
  OBVIOUS
<1>1. mau \in Mau /\ mau.tables = None /\ mau.prev = None /\ ~mau.ignorePacks /\ ~mau.firstFit
  BY BoundAssumption DEF Init, NewMau, Mau, None, Placement
<1>2. FieldTypes
  <2>1. None \in Placement
    BY BoundAssumption DEF None, Placement
  <2>2. roundOne \in Settings
    BY DEF Init, Settings
  <2>3. alt \in BOOLEAN /\ since \in 0 .. numInvoked
    BY BoundAssumption DEF Init
  <2>4. firstRoundFit \in BOOLEAN /\ limitTmp \in BOOLEAN /\ spillARA \in BOOLEAN
    BY DEF Init
  <2>5. placed = None /\ trivial = None
    BY DEF Init
  <2>. QED
    BY <1>1, <2>1, <2>2, <2>3, <2>4, <2>5 DEF FieldTypes
<1>3. ReplayInv
  BY <1>1 DEF Init, ReplayInv, ReplaysTrivial, FirstState
<1>4. RedoInvariant
  BY <1>1 DEF Init, RedoInvariant, Heading, FirstState
<1>5. RedoUsesNoccPlacements
  BY DEF Init, RedoUsesNoccPlacements, FirstState
<1>. QED
  BY <1>2, <1>3, <1>4, <1>5 DEF FieldInv

\* PHV allocation.
LEMMA FieldAllocate ==
    ASSUME IInv, FieldInv, Allocate, alt' = alt PROVE FieldInv'
<1> USE DEF FieldInv
<1>1. CASE PhvFits \/ PhvFails
  <2>1. /\ UNCHANGED <<summaryVars, mau, limitTmp, since>> /\ pc = "phv" /\ pc' \in {"place", "stopped"}
        /\ spillARA' \in BOOLEAN /\ roundOne' \in Settings
    <3>1. mau.metaOff \in BOOLEAN /\ roundOne \in Settings /\ spillARA \in BOOLEAN
      BY DEF FieldTypes, Mau
    <3>2. /\ UNCHANGED <<summaryVars, mau, limitTmp, since>> /\ pc = "phv"
          /\ pc' \in {"place", "stopped"}
          /\ roundOne' \in {roundOne, [metaOff |-> mau.metaOff, ara |-> spillARA']}
      BY <1>1 DEF PhvFits, PhvFails
    <3>3. spillARA' \in {spillARA, FALSE}
      BY <1>1 DEF PhvFits, PhvFails, AraAfterwards
    <3>4. spillARA' \in BOOLEAN
      BY <3>1, <3>3, Zenon
    <3>5. [metaOff |-> mau.metaOff, ara |-> spillARA'] \in Settings
      BY <3>1, <3>4 DEF Settings
    <3>. QED
      BY <3>1, <3>2, <3>4, <3>5
  <2>2. FieldTypes'
    BY <2>1 DEF FieldTypes, Placement
  <2>3. ReplayInv'
    BY <2>1 DEF ReplayInv, ReplaysTrivial
  <2>4. RedoInvariant' /\ RedoUsesNoccPlacements'
    BY <2>1 DEF RedoInvariant, Heading, RedoUsesNoccPlacements
  <2>. QED
    BY <2>2, <2>3, <2>4
<1>2. CASE PhvFallsBack
  <2>1. /\ UNCHANGED <<summaryVars, limitTmp, since, roundOne>> /\ pc' = "phv" /\ ~alt
        /\ spillARA' \in BOOLEAN
        /\ mau' = Applied(Noted(mau, [tables |-> None, fit |-> TRUE, ignorePacks |-> TRUE,
                                      metaOff |-> FALSE]))
    BY <1>2 DEF PhvFallsBack, ThrowPHV, AraAfterwards, FieldTypes
  <2> DEFINE t == [tables |-> None, fit |-> TRUE, ignorePacks |-> TRUE, metaOff |-> FALSE]
  <2>2. t \in Carried /\ t.fit /\ mau \in Mau /\ mau' = Applied(Noted(mau, t))
    BY <2>1, BoundAssumption DEF None, Placement, FieldTypes, Carried
  <2> HIDE DEF t
  <2>3. mau' \in Mau /\ mau'.firstFit
    BY <2>2, AppliedFields
  <2>4. FieldTypes'
    BY <2>1, <2>3 DEF FieldTypes, Placement, Mau
  <2>5. ReplayInv'
    BY <2>1 DEF ReplayInv, ReplaysTrivial, IInv
  <2>6. RedoInvariant' /\ RedoUsesNoccPlacements'
    BY <2>3 DEF RedoInvariant, RedoUsesNoccPlacements
  <2>. QED
    BY <2>4, <2>5, <2>6
<1>3. CASE PhvStopsReplay
  <2>1. /\ state = "TABLE_FIXED" /\ state' = "ALT_FINALIZE_TABLE" /\ pc' = "phv" /\ placed' = None
        /\ UNCHANGED <<prevState, numInvoked, firstRoundFit, trivial, limitTmp, spillARA, since,
                       roundOne>>
        /\ mau' = Applied(Noted(mau, [tables |-> trivial, fit |-> firstRoundFit,
                                      ignorePacks |-> FALSE, metaOff |-> FALSE]))
    BY <1>3 DEF PhvStopsReplay, ThrowPHV, Trigger
  <2> DEFINE t == [tables |-> trivial, fit |-> firstRoundFit, ignorePacks |-> FALSE,
                   metaOff |-> FALSE]
  <2>2. None \in Placement /\ mau \in Mau /\ trivial \in Placement /\ firstRoundFit \in BOOLEAN
    BY BoundAssumption DEF None, Placement, FieldTypes
  <2>2a. /\ t \in Carried /\ (t.fit <=> firstRoundFit) /\ ~t.ignorePacks
         /\ mau' = Applied(Noted(mau, t))
    BY <2>1, <2>2 DEF Carried
  <2> HIDE DEF t
  <2>3. /\ mau' \in Mau /\ (mau'.firstFit <=> (mau.firstFit \/ firstRoundFit))
        /\ (mau'.ignorePacks <=> mau.ignorePacks)
    BY <2>2, <2>2a, AppliedFields
  <2>4. alt
    BY <2>1 DEF IInv
  <2>5. FieldTypes'
    BY <2>1, <2>2, <2>3 DEF FieldTypes, Placement, Mau
  <2>6. ReplayInv'
    BY <2>1, <2>3 DEF ReplayInv, ReplaysTrivial
  <2>7. RedoInvariant' /\ RedoUsesNoccPlacements'
    BY <2>1, <2>3, <2>4 DEF RedoInvariant, RedoUsesNoccPlacements, Heading, ReplayInv
  <2>. QED
    BY <2>5, <2>6, <2>7
<1>. QED
  BY <1>1, <1>2, <1>3 DEF Allocate

\* What does not touch the state, the records or MauBacktracker.
LEMMA FieldSame ==
    ASSUME FieldInv, UNCHANGED <<alt, summaryVars, mau, limitTmp, spillARA, since, roundOne>>,
           pc' = "phv" => pc = "phv",
           pc' \in {"place", "summary"} => pc \in {"phv", "place", "summary"},
           pc' \in {"temps", "next"} => pc \in {"temps", "next"}
    PROVE  FieldInv'
<1> USE DEF FieldInv
<1>1. FieldTypes'
  BY DEF FieldTypes, Placement, Mau
<1>2. ReplayInv'
  BY DEF ReplayInv, ReplaysTrivial
<1>3. RedoInvariant' /\ RedoUsesNoccPlacements'
  BY DEF RedoInvariant, Heading, RedoUsesNoccPlacements
<1>. QED
  BY <1>1, <1>2, <1>3

\* Temporaries: back to the attempt before the verdict, or the final placement.
LEMMA FieldTemps ==
    ASSUME IInv, FieldInv, Temps, alt' = alt PROVE FieldInv'
<1>1. CASE AllAllocated \/ TempsFail
  BY <1>1, FieldSame DEF AllAllocated, TempsFail, TempsLeft
<1>2. CASE TempsFit \/ TempsLimited
  <2>1. /\ pc = "temps" /\ pc' = "place" /\ limitTmp' \in BOOLEAN
        /\ UNCHANGED <<prevState, numInvoked, firstRoundFit, placed, trivial, mau, spillARA, since,
                       roundOne>>
        /\ \/ state' \in {"FINAL_PLACEMENT", "ALT_FINALIZE_TABLE"}
           \/ ~alt /\ state' = prevState
    BY <1>2 DEF TempsFit, TempsLimited, TempsLeft, ThrowFinalRerun, FinalizePlacement, FieldInv,
       FieldTypes
  <2>2. FieldTypes'
    BY <2>1 DEF FieldInv, FieldTypes, Placement, Mau
  <2>3. ReplayInv'
    BY <2>1 DEF FieldInv, ReplayInv, ReplaysTrivial, IInv
  <2>4. RedoInvariant' /\ RedoUsesNoccPlacements'
    BY <2>1 DEF FieldInv, RedoInvariant, Heading, RedoUsesNoccPlacements, IInv
  <2>. QED
    BY <2>2, <2>3, <2>4 DEF FieldInv
<1>. QED
  BY <1>1, <1>2 DEF Temps

\* Next tables; everything is cleared for a restart.
LEMMA FieldNextTables ==
    ASSUME IInv, FieldInv, NextTables, alt' = alt PROVE FieldInv'
<1>1. CASE NextTableFails \/ Finish
  BY <1>1, FieldSame DEF NextTableFails, Finish
<1>2. CASE LongBranchFails
  <2>1. /\ mau' = Applied(Cleared(mau)) /\ state' \in {"INITIAL", "ALT_INITIAL"} /\ pc' = "phv"
        /\ since' = numInvoked /\ mau \in Mau
        /\ UNCHANGED <<prevState, numInvoked, firstRoundFit, placed, trivial, limitTmp, spillARA,
                       roundOne>>
    BY <1>2 DEF LongBranchFails, FirstState, FieldInv, FieldTypes
  <2>2. /\ mau' \in Mau /\ ~mau'.firstFit /\ ~mau'.ignorePacks
        /\ mau'.tables = None /\ mau'.prev = None
    BY <2>1, ClearedFields
  <2>3. FieldTypes'
    BY <2>1, <2>2 DEF FieldInv, FieldTypes, Placement, Mau, IInv
  <2>4. ReplayInv'
    BY <2>1, <2>2 DEF FieldInv, ReplayInv, ReplaysTrivial
  <2>5. RedoInvariant' /\ RedoUsesNoccPlacements'
    BY <2>1, <2>2 DEF RedoInvariant, Heading, RedoUsesNoccPlacements
  <2>. QED
    BY <2>3, <2>4, <2>5 DEF FieldInv
<1>. QED
  BY <1>1, <1>2 DEF NextTables

\* TableSummary leaves MauBacktracker alone: a verdict, or another placement.
LEMMA FieldSummaryKeeps ==
    ASSUME IInv, FieldInv, Unsaturated, alt' = alt, NEW S, Summarise(S), mau' = mau,
           pc' \in {"place", "temps", "stopped"},
           placed' \in Placement, trivial' \in Placement, spillARA' \in BOOLEAN,
           firstRoundFit' \in BOOLEAN, firstRoundFit' => firstRoundFit \/ ~alt,
           \/ state' \in Verdicts \union {"ALT_RETRY_ENHANCED_TP", "ALT_FINALIZE_TABLE"}
           \/ /\ state = "INITIAL"
              /\ state' = "NOCC_TRY1"
           \/ /\ state = "REDO_PHV1"
              /\ state' = "NOCC_TRY2"
    PROVE  FieldInv'
<1>1. /\ numInvoked' = numInvoked + 1 /\ numInvoked \in Nat /\ since \in 0 .. numInvoked
      /\ prevState' = state /\ UNCHANGED <<limitTmp, since, roundOne>> /\ pc = "summary"
  BY DEF Summarise, Invocation, Unsaturated, IInv, FieldInv, FieldTypes
<1>2. FieldTypes'
  BY <1>1 DEF FieldInv, FieldTypes, Placement, Mau
<1>3. ReplayInv'
  BY <1>1 DEF FieldInv, ReplayInv, ReplaysTrivial, IInv
<1>4. RedoInvariant'
  <2>. SUFFICES ASSUME ~mau.firstFit
                PROVE  /\ ~mau.ignorePacks
                       /\ Heading({"INITIAL", "NOCC_TRY1"})' => mau.tables = None /\ mau.prev = None
                       /\ Heading({"REDO_PHV1"})' => mau.tables \in since + 1 .. numInvoked + 1
                       /\ state' = "NOCC_TRY2" => mau.tables \in since + 1 .. numInvoked
    BY <1>1 DEF RedoInvariant
  <2>1. /\ ~mau.ignorePacks
        /\ state \in {"INITIAL", "NOCC_TRY1"} => mau.tables = None /\ mau.prev = None
        /\ state = "REDO_PHV1" => mau.tables \in since + 1 .. numInvoked
    BY DEF FieldInv, RedoInvariant, Heading
  <2>2. Heading({"INITIAL", "NOCC_TRY1"})' => state \in {"INITIAL", "NOCC_TRY1"}
    BY <1>1 DEF Heading
  <2>3. Heading({"REDO_PHV1"})' => state = "REDO_PHV1"
    BY <1>1 DEF Heading
  <2>. QED
    BY <1>1, <2>1, <2>2, <2>3
<1>5. RedoUsesNoccPlacements'
  BY DEF RedoUsesNoccPlacements
<1>. QED
  BY <1>2, <1>3, <1>4, <1>5 DEF FieldInv

\* A PHV trigger that carries the placement p.
LEMMA FieldSummaryRedo ==
    ASSUME IInv, FieldInv, Unsaturated, alt' = alt, NEW S, Summarise(S),
           NEW p \in Placement, NEW meta \in BOOLEAN, RedoPHV(Trigger(p, FALSE, meta)),
           placed' \in Placement, trivial' \in Placement, spillARA' = spillARA,
           firstRoundFit' = firstRoundFit,
           \/ state' \in {"ALT_INITIAL", "ALT_FINALIZE_TABLE"}
           \/ /\ state' \in {"SAME_ORDER", "TABLE_FIXED"}
              /\ p = trivial' /\ p = placed' /\ p > since /\ alt
           \/ /\ p = Invocation
              /\ state = "NOCC_TRY1" /\ state' = "REDO_PHV1"
           \/ /\ p = Invocation
              /\ state = "NOCC_TRY2" /\ state' = "REDO_PHV2"
    PROVE  FieldInv'
<1>1. /\ numInvoked' = numInvoked + 1 /\ numInvoked \in Nat /\ since \in 0 .. numInvoked
      /\ Invocation = numInvoked + 1 /\ since \in Nat
      /\ prevState' = state /\ UNCHANGED <<limitTmp, since, roundOne>> /\ pc = "summary"
  BY DEF Summarise, Invocation, Unsaturated, IInv, FieldInv, FieldTypes
<1>2. /\ mau \in Mau /\ firstRoundFit \in BOOLEAN /\ pc' = "phv"
      /\ mau' = Applied(Noted(mau, [tables |-> p, fit |-> firstRoundFit, ignorePacks |-> FALSE,
                                    metaOff |-> meta]))
  BY DEF RedoPHV, ThrowPHV, Trigger, FieldInv, FieldTypes
<1> DEFINE t == [tables |-> p, fit |-> firstRoundFit, ignorePacks |-> FALSE, metaOff |-> meta]
<1>2a. /\ t \in Carried /\ t.tables = p /\ (t.fit <=> firstRoundFit) /\ ~t.ignorePacks
       /\ mau' = Applied(Noted(mau, t))
  BY <1>2 DEF Carried
<1> HIDE DEF t
<1>3. /\ mau' \in Mau /\ (mau'.firstFit <=> (mau.firstFit \/ firstRoundFit))
      /\ (mau'.ignorePacks <=> mau.ignorePacks)
      /\ ~mau'.firstFit /\ ~mau'.ignorePacks =>
            /\ mau'.tables = p /\ mau'.internal = p
            /\ mau.tables = None => mau'.prev = mau.prev
            /\ mau.tables # None => mau'.prev = mau.tables
  BY <1>2, <1>2a, AppliedFields
<1>4. FieldTypes'
  BY <1>1, <1>3 DEF FieldInv, FieldTypes, Placement, Mau
<1>5. ReplayInv'
  <2>1. alt => ~firstRoundFit' /\ ~mau'.firstFit /\ ~mau'.ignorePacks
    BY <1>3 DEF FieldInv, ReplayInv
  <2>2. CASE state' \in {"SAME_ORDER", "TABLE_FIXED"}
    <3>1. p = trivial' /\ p = placed' /\ p > since
      BY <2>2
    <3>2. alt
      BY <2>2
    <3>3. mau'.tables = p /\ mau'.internal = p
      BY <1>3, <2>1, <3>2
    <3>. QED
      BY <1>1, <2>1, <3>1, <3>3 DEF ReplayInv, ReplaysTrivial
  <2>3. CASE state' \notin {"SAME_ORDER", "TABLE_FIXED"}
    BY <2>1, <2>3 DEF ReplayInv, ReplaysTrivial
  <2>. QED
    BY <2>2, <2>3
<1>6. RedoInvariant' /\ RedoUsesNoccPlacements'
  <2>1. ~mau'.firstFit => ~mau.firstFit /\ ~mau'.ignorePacks
    BY <1>3 DEF FieldInv, RedoInvariant
  <2>2. CASE state' = "REDO_PHV1"
    <3>1. ~mau'.firstFit => mau'.tables = numInvoked + 1 /\ mau'.internal = numInvoked + 1
                            /\ mau'.prev = None
      BY <1>1, <1>3, <2>1, <2>2 DEF FieldInv, RedoInvariant, Heading
    <3>. QED
      BY <1>1, <1>2, <2>1, <2>2, <3>1 DEF RedoInvariant, Heading, RedoUsesNoccPlacements
  <2>3. CASE state' = "REDO_PHV2"
    <3>1. ~mau'.firstFit => /\ mau'.tables = numInvoked + 1 /\ mau'.internal = numInvoked + 1
                            /\ mau.tables \in since + 1 .. numInvoked - 1
                            /\ mau.tables # None => mau'.prev = mau.tables
      BY <1>1, <1>3, <2>1, <2>3 DEF FieldInv, RedoInvariant
    <3>2. ~mau'.firstFit => mau'.prev \in since + 1 .. numInvoked - 1
      BY <1>1, <3>1 DEF None
    <3>. QED
      BY <1>1, <1>2, <2>1, <2>3, <3>1, <3>2 DEF RedoInvariant, Heading, RedoUsesNoccPlacements
  <2>4. CASE state' \in {"ALT_INITIAL", "ALT_FINALIZE_TABLE", "SAME_ORDER", "TABLE_FIXED"}
    BY <1>2, <2>1, <2>4 DEF RedoInvariant, Heading, RedoUsesNoccPlacements
  <2>. QED
    BY <2>2, <2>3, <2>4
<1>. QED
  BY <1>4, <1>5, <1>6 DEF FieldInv

\* TableSummary in the normal mode.
LEMMA FieldNormal ==
    ASSUME IInv, FieldInv, Unsaturated, SummariseNormal, alt' = alt PROVE FieldInv'
<1>1. /\ Invocation \in Placement /\ None \in Placement /\ trivial \in Placement
      /\ placed \in Placement /\ spillARA \in BOOLEAN /\ firstRoundFit \in BOOLEAN
  BY InvocationType, BoundAssumption DEF IInv, FieldInv, FieldTypes, Placement, None
<1>2. CASE SummariseInitial
  <2>1. /\ Summarise({"INITIAL"}) /\ state = "INITIAL" /\ mau' = mau /\ ~alt
        /\ placed' = Invocation /\ UNCHANGED <<trivial, spillARA>> /\ firstRoundFit' \in BOOLEAN
        /\ pc' \in {"place", "temps"} /\ state' \in {"SUCCESS", "NOCC_TRY1"}
    BY <1>1, <1>2 DEF SummariseInitial, Summarise, Verdict, ThrowRerun, IInv, Fits
  <2>. QED
    BY <1>1, <2>1, FieldSummaryKeeps
<1>3. CASE SummariseNocc
  <2>1. /\ Summarise({"NOCC_TRY1", "NOCC_TRY2"}) /\ state \in {"NOCC_TRY1", "NOCC_TRY2"}
        /\ state' = RedoAfter(state)
        /\ RedoPHV(Trigger(Invocation, FALSE, DisablesMetaInit(state, result)))
        /\ placed' = Invocation /\ UNCHANGED <<firstRoundFit, trivial, spillARA>>
    BY <1>3 DEF SummariseNocc, Summarise
  <2>2. DisablesMetaInit(state, result) \in BOOLEAN
    BY DEF DisablesMetaInit, TooLong
  <2>3. \/ state = "NOCC_TRY1" /\ state' = "REDO_PHV1"
        \/ state = "NOCC_TRY2" /\ state' = "REDO_PHV2"
    BY <2>1 DEF RedoAfter
  <2>. QED
    BY <1>1, <2>1, <2>2, <2>3, FieldSummaryRedo
<1>4. CASE SummariseRedo
  <2>1. /\ Summarise({"REDO_PHV1"}) /\ state = "REDO_PHV1" /\ mau' = mau
        /\ placed' = Invocation /\ UNCHANGED <<trivial, firstRoundFit>> /\ spillARA' \in BOOLEAN
        /\ pc' \in {"place", "temps"} /\ state' \in {"SUCCESS", "NOCC_TRY2"}
    BY <1>1, <1>4 DEF SummariseRedo, Summarise, Verdict, ThrowRerun
  <2>. QED
    BY <1>1, <2>1, FieldSummaryKeeps
<1>5. CASE SummariseLast
  <2>1. /\ Summarise({"REDO_PHV2", "FINAL_PLACEMENT"}) /\ mau' = mau
        /\ placed' = Invocation /\ UNCHANGED <<trivial, firstRoundFit, spillARA>>
        /\ pc' \in {"stopped", "temps"} /\ state' \in Verdicts
    BY <1>1, <1>5 DEF SummariseLast, Verdict
  <2>. QED
    BY <1>1, <2>1, FieldSummaryKeeps
<1>. QED
  BY <1>2, <1>3, <1>4, <1>5 DEF SummariseNormal

\* In the alternative mode: a verdict, another placement, or another allocation.
LEMMA FieldAlt ==
    ASSUME IInv, FieldInv, Unsaturated, SummariseAlt, alt' = alt PROVE FieldInv'
<1>1. /\ Invocation \in Placement /\ None \in Placement /\ trivial \in Placement
      /\ placed \in Placement /\ spillARA \in BOOLEAN /\ firstRoundFit \in BOOLEAN
      /\ Invocation = numInvoked + 1 /\ Invocation > since
  BY InvocationType, BoundAssumption DEF IInv, FieldInv, FieldTypes, Placement, None, Unsaturated,
     Invocation
<1>2. ASSUME NEW S, Summarise(S), alt, AltReplay, UNCHANGED <<firstRoundFit, spillARA>> PROVE FieldInv'
  BY <1>1, <1>2, FieldSummaryRedo DEF AltReplay, Checkpoint
<1>3. ASSUME NEW S, Summarise(S), mau' = mau, pc' \in {"place", "temps", "stopped"},
             placed' \in Placement, UNCHANGED <<trivial, firstRoundFit, spillARA>>,
             state' \in Verdicts \union {"ALT_RETRY_ENHANCED_TP", "ALT_FINALIZE_TABLE"}
      PROVE  FieldInv'
  BY <1>1, <1>3, FieldSummaryKeeps
<1>4. CASE SummariseAltInitial
  <2>1. Summarise({"ALT_INITIAL"}) /\ UNCHANGED <<firstRoundFit, spillARA>>
    BY <1>4 DEF SummariseAltInitial
  <2>2. CASE AltReplay
    <3>1. alt
      BY <2>1 DEF Summarise, IInv
    <3>. QED
      BY <1>2, <2>1, <2>2, <3>1
  <2>3. CASE ~Fits(result)
    BY <1>1, <1>3, <1>4, <2>1, <2>3 DEF SummariseAltInitial, ThrowRerun, Verdict
  <2>. QED
    BY <1>4, <2>2, <2>3 DEF SummariseAltInitial
<1>5. CASE SummariseAltRetry
  <2>1. Summarise({"ALT_RETRY_ENHANCED_TP"}) /\ UNCHANGED <<firstRoundFit, spillARA>>
    BY <1>5 DEF SummariseAltRetry
  <2>2. CASE AltReplay
    <3>1. alt
      BY <2>1 DEF Summarise, IInv
    <3>. QED
      BY <1>2, <2>1, <2>2, <3>1
  <2>3. CASE /\ state' = "ALT_INITIAL" /\ RedoPHV(Trigger(Invocation, FALSE, FALSE))
             /\ placed' = Invocation /\ UNCHANGED trivial
    BY <1>1, <2>1, <2>3, FieldSummaryRedo
  <2>4. CASE Verdict("FAILURE", TRUE) /\ placed' = Invocation /\ UNCHANGED trivial
    BY <1>1, <1>3, <2>1, <2>4 DEF Verdict
  <2>. QED
    BY <1>5, <2>2, <2>3, <2>4 DEF SummariseAltRetry
<1>6. CASE SummariseSameOrder \/ SummariseTableFixed
  <2> DEFINE S == {state}
  <2>1. /\ Summarise(S) /\ UNCHANGED <<firstRoundFit, trivial, spillARA>> /\ pc = "summary"
        /\ state \in {"SAME_ORDER", "TABLE_FIXED"} /\ alt
    BY <1>6 DEF SummariseSameOrder, SummariseTableFixed, Summarise, IInv
  <2>2. trivial > since
    BY <2>1 DEF FieldInv, ReplayInv, ReplaysTrivial
  <2> HIDE DEF S
  <2>3. CASE Verdict("SUCCESS", FALSE) /\ placed' = Invocation
    BY <1>1, <1>3, <2>1, <2>3 DEF Verdict
  <2>4. CASE FixTable
    BY <1>1, <2>1, <2>2, <2>4, FieldSummaryRedo DEF FixTable
  <2>5. CASE state' = "ALT_FINALIZE_TABLE" /\ placed' = None /\ ThrowRerun(FALSE)
    BY <1>1, <1>3, <2>1, <2>5 DEF ThrowRerun
  <2>6. CASE /\ state' = "ALT_FINALIZE_TABLE" /\ placed' = trivial
             /\ RedoPHV(Trigger(trivial, FALSE, FALSE))
    BY <1>1, <2>1, <2>6, FieldSummaryRedo
  <2>. QED
    BY <1>6, <2>3, <2>4, <2>5, <2>6 DEF SummariseSameOrder, SummariseTableFixed
<1>7. CASE SummariseAltFinalize
  <2>1. /\ Summarise({"ALT_FINALIZE_TABLE"}) /\ mau' = mau /\ placed' = Invocation
        /\ UNCHANGED <<trivial, firstRoundFit, spillARA>>
        /\ pc' \in {"stopped", "temps"} /\ state' \in Verdicts
    BY <1>7 DEF SummariseAltFinalize, Verdict
  <2>. QED
    BY <1>1, <1>3, <2>1
<1>. QED
  BY <1>4, <1>5, <1>6, <1>7 DEF SummariseAlt

\* The invariant is inductive while the counter does not saturate.
LEMMA FieldStep == IInv /\ Unsaturated /\ FieldInv /\ [Next]_vars => FieldInv'
<1>. SUFFICES ASSUME IInv, Unsaturated, FieldInv, [Next]_vars PROVE FieldInv'
  OBVIOUS
<1>1. CASE UNCHANGED vars
  BY <1>1, FieldSame DEF vars
<1>2. CASE Place
  <2>1. alt' = alt
    BY <1>2 DEF Next, Place, Allocate, PhvFits, PhvFallsBack, PhvStopsReplay, PhvFails, vars
  <2>. QED
    BY <1>2, <2>1, FieldSame DEF Place
<1>. QED
  BY <1>1, <1>2, FieldAllocate, FieldNormal, FieldAlt, FieldTemps, FieldNextTables DEF Next

\* With a bound that is large enough, it is an invariant.
LEMMA FieldInvariance ==
    ASSUME MaxInvoked > 27 + 5 * MaxTempRuns
    PROVE  Spec => [](FieldInv /\ Unsaturated)
<1>1. numInvoked <= 27 + 5 * MaxTempRuns /\ IInv => Unsaturated
  BY BoundAssumption DEF Unsaturated, IInv
<1>. QED
  BY <1>1, Invariance, CountTheorem, FieldInit, FieldStep, PTL DEF Spec

(***************************************************************************)
(* What is replayed is the placement saved for the trivial allocation of   *)
(* this attempt, for every device and any number of restarts.              *)
(***************************************************************************)
THEOREM ReplaysTheorem ==
    ASSUME MaxInvoked > 27 + 5 * MaxTempRuns
    PROVE  Spec => []ReplaysTrivial
<1>1. FieldInv => ReplaysTrivial
  BY DEF FieldInv, ReplayInv
<1>. QED
  BY <1>1, FieldInvariance, PTL

(***************************************************************************)
(* PHV allocation is redone with the conflict-free placements of its own   *)
(* attempt, both of them the second time.                                  *)
(***************************************************************************)
THEOREM RedoTheorem ==
    ASSUME MaxInvoked > 27 + 5 * MaxTempRuns
    PROVE  Spec => []RedoUsesNoccPlacements
<1>1. FieldInv => RedoUsesNoccPlacements
  BY DEF FieldInv
<1>. QED
  BY <1>1, FieldInvariance, PTL

(***************************************************************************)
(* Every state is well typed, and the counter of placements stays below    *)
(* the bound given to it.                                                  *)
(***************************************************************************)
THEOREM TypeTheorem ==
    ASSUME MaxInvoked > 27 + 5 * MaxTempRuns
    PROVE  Spec => []TypeOK
<1> DEFINE ClockType ==
             /\ again \in BOOLEAN
             /\ timer \in [started : BOOLEAN, from : 1 .. 3, elapsed : SUBSET (1 .. 3),
                           printed : SUBSET (1 .. 3)]
<1>1. Init => ClockType
  <2>. SUFFICES ASSUME Init PROVE ClockType
    OBVIOUS
  <2>1. timer = [started |-> TRUE, from |-> 1, elapsed |-> {}, printed |-> {}]
    BY DEF Init, NewTimer, Visited
  <2>2. again \in BOOLEAN
    BY DEF Init
  <2>3. timer \in [started : BOOLEAN, from : 1 .. 3, elapsed : SUBSET (1 .. 3),
                   printed : SUBSET (1 .. 3)]
    BY <2>1
  <2>. QED
    BY <2>2, <2>3
<1>2. TimerInv /\ ClockType /\ [Next]_vars => ClockType'
  <2>. SUFFICES ASSUME TimerInv, ClockType, [Next]_vars PROVE ClockType'
    OBVIOUS
  <2>1. ASSUME NEW a \in 1 .. 3
        PROVE  Visited(timer, a) \in [started : BOOLEAN, from : 1 .. 3, elapsed : SUBSET (1 .. 3),
                                      printed : SUBSET (1 .. 3)]
    BY DEF Visited
  <2>2. attempt \in 1 .. 3 /\ (longBranch # "disabled" => attempt + 1 \in 1 .. 3)
    BY DEF TimerInv
  <2>3. CASE LongBranchFails \/ Finish
    BY <2>1, <2>2, <2>3 DEF LongBranchFails, Finish
  <2>4. CASE UNCHANGED timer /\ again' \in BOOLEAN
    BY <2>4
  <2>. QED
    BY <2>3, <2>4 DEF Next, vars, clock, Allocate, PhvFits, PhvFallsBack, PhvStopsReplay, PhvFails,
       Place, SummariseNormal, SummariseInitial, SummariseNocc, SummariseRedo, SummariseLast,
       SummariseAlt, SummariseAltInitial, SummariseAltRetry, SummariseSameOrder,
       SummariseTableFixed, SummariseAltFinalize, Summarise, Temps, AllAllocated, TempsFit,
       TempsLimited, TempsFail, TempsLeft, NextTables, NextTableFails
<1>3. IInv /\ TimerInv /\ ClockType /\ CountInv /\ FieldInv /\ Unsaturated => TypeOK
  <2>. SUFFICES ASSUME IInv, TimerInv, ClockType, CountInv, FieldInv, Unsaturated PROVE TypeOK
    OBVIOUS
  <2>1. /\ pc \in Passes \union Ended /\ state \in States /\ prevState \in States
        /\ numInvoked \in 0 .. MaxInvoked - 1 /\ since \in 0 .. MaxInvoked - 1
        /\ ignoreCC \in BOOLEAN /\ result \in Placements
    BY BoundAssumption DEF IInv, Unsaturated, States, FieldInv, FieldTypes
  <2>2. attempt \in 1 .. 3 /\ longBranch \in {"allowed", "avoided", "disabled"}
    BY DEF TimerInv
  <2>. QED
    BY <2>1, <2>2 DEF TypeOK, CountInv, CountTypes, FieldInv, FieldTypes, Mau
<1>. QED
  BY <1>1, <1>2, <1>3, InitInv, StepInv, TimerInit, TimerStep, CountInit, CountStep,
     FieldInvariance, PTL DEF Spec
=============================================================================
