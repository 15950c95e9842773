---------------------------- MODULE PassManager ----------------------------
(***************************************************************************)
(* The pass manager of the compiler (ir/pass_manager.cpp): the loop that   *)
(* applies a list of passes to the program, nests (a pass may itself be a  *)
(* manager), repeats, stops early, and recovers from a Backtrack::trigger  *)
(* thrown by a pass by restarting at an earlier pass that accepts it.      *)
(*                                                                         *)
(* A manager whose apply_visitor is on the C++ stack is "active" and owns  *)
(* a frame: the locals of apply_visitor and the fields the loop uses.  The *)
(* tree of passes is fixed and a manager occurs in it once, so the stack   *)
(* is the path from Root to "focus", the innermost active manager.         *)
(*                                                                         *)
(* What the passes that are not managers do is left open: they return any  *)
(* program, report errors, call early_exit(), or throw.                    *)
(***************************************************************************)
EXTENDS Integers, Sequences, FiniteSets, SequencesExt

CONSTANTS
    Managers,       \* PassManager, PassRepeated, PassRepeatUntil and PassIf objects
    Leaves,         \* every other visitor
    Root,           \* the outermost manager
    Passes,         \* manager -> its list of passes
    Parent,         \* nested manager -> the manager that lists it
    Kind,           \* manager -> "plain", "repeated", "until" or "if"
    Repeats,        \* manager -> PassRepeated::repeats (0: until convergence)
    Stop,           \* manager -> stop_on_error
    Handlers,       \* the leaves that are Backtrack visitors
    Triggers,       \* dynamic types of Backtrack::trigger
    Takes,          \* handler -> the trigger types its backtrack() accepts
    Program,        \* IR trees, up to identity
    Null,           \* the nullptr a pass may return
    NotYet,         \* no program: the pass has not been invoked
    MaxErrors,      \* bound on the errors the passes report
    MaxThrows       \* bound on the triggers the passes throw

Kinds == {"plain", "repeated", "until", "if"}
Pass == Managers \union Leaves
MaybeProgram == Program \union {Null}
Pos(m) == 1 .. Len(Passes[m])

ASSUME TreeAssumption ==
    /\ Managers \intersect Leaves = {}
    /\ Root \in Managers
    /\ Passes \in [Managers -> Seq(Pass)]
    /\ Parent \in [Managers \ {Root} -> Managers]
    /\ \A m \in Managers : \A i \in Pos(m) :
          Passes[m][i] \in Managers =>
              /\ Passes[m][i] \notin {m, Root}
              /\ Parent[Passes[m][i]] = m

ASSUME ParameterAssumption ==
    /\ Kind \in [Managers -> Kinds]
    /\ Repeats \in [Managers -> Nat]
    /\ Stop \in [Managers -> BOOLEAN]
    /\ Handlers \subseteq Leaves
    /\ Takes \in [Handlers -> SUBSET Triggers]
    /\ Null \notin Program /\ NotYet \notin Program \union {Null}
    /\ MaxErrors \in Nat /\ MaxThrows \in Nat

VARIABLES
    frame,      \* manager -> its frame (meaningful while the manager is active)
    active,     \* managers whose apply_visitor is on the stack
    focus,      \* the innermost of them
    running,    \* manager -> PassManager::running
    errors,     \* ::P4::errorCount()
    mode,       \* "run", "unwind" (inside the catch block) or how it all ended
    trig,       \* the trigger being handled
    origin,     \* in "unwind": the position in focus the trigger came from
    throws      \* triggers thrown so far (bound only)

vars == <<frame, active, focus, running, errors, mode, trig, origin, throws>>

----------------------------------------------------------------------------
(* Which passes can catch a trigger: PassManager::never_backtracks and      *)
(* PassManager::backtrack ask every pass below a manager.                   *)

LeavesWithin[d \in Nat] ==
    [m \in Managers |->
        IF d = 0 THEN {}
        ELSE UNION { IF Passes[m][i] \in Managers
                     THEN LeavesWithin[d - 1][Passes[m][i]]
                     ELSE {Passes[m][i]} : i \in Pos(m) }]

HandlersIn ==
    [p \in Pass |-> Handlers \intersect
        (IF p \in Managers THEN LeavesWithin[Cardinality(Managers)][p] ELSE {p})]

CanCatch(p) == HandlersIn[p] # {}
Accepts(p, t) == \E h \in HandlersIn[p] : t \in Takes[h]

----------------------------------------------------------------------------
(* Frames.  it = Len + 1 stands for passes.end() and for a loop left by     *)
(* break; given is a history of what each position was last invoked with.   *)

Entry(m) == [pos : Pos(m), prog : Program]

Frame(m) ==
    [it        : 1 .. Len(Passes[m]) + 1,
     program   : MaybeProgram,
     backup    : Seq(Entry(m)),
     early     : BOOLEAN,
     errBase   : Nat,                   \* initial_error_count of the loop
     start     : MaybeProgram,          \* PassRepeated: program of this round
     rounds    : Nat,                   \* PassRepeated: iterations
     applyBase : Nat,                   \* PassRepeated: its initial_error_count
     given     : [Pos(m) -> Program \union {NotYet}]]

End(m) == Len(Passes[m]) + 1
Current(m) == Passes[m][frame[m].it]

\* PassManager::apply_visitor up to the loop, for a round that begins with prog.
Round(m, prog, rounds, applyBase) ==
    [it |-> 1, program |-> prog, backup |-> << >>, early |-> FALSE,
     errBase |-> errors, start |-> prog, rounds |-> rounds, applyBase |-> applyBase,
     given |-> [i \in Pos(m) |-> NotYet]]

\* The head of the loop body: save the program if the pass can catch triggers.
SaveLeavesOnly(m, f) ==     \* mutant: nested managers are not saved
    IF Passes[m][f.it] \in Handlers
    THEN Append(f.backup, [pos |-> f.it, prog |-> f.program]) ELSE f.backup
SaveStart(m, f) ==          \* mutant: the program of the start of the round
    IF CanCatch(Passes[m][f.it])
    THEN Append(f.backup, [pos |-> f.it, prog |-> f.start]) ELSE f.backup
Save(m, f) ==
    IF CanCatch(Passes[m][f.it])
    THEN Append(f.backup, [pos |-> f.it, prog |-> f.program]) ELSE f.backup

Invoked(m, f) == [f EXCEPT !.given[f.it] = f.program, !.backup = Save(m, f)]

\* The rest of the body, when the pass has returned prog and the count is errs.
BreaksOnErrors(m, f, prog, errs) ==     \* mutant: a null program does not end the loop
    f.early \/ (Stop[m] /\ errs > f.errBase)
Breaks(m, f, prog, errs) ==
    f.early \/ (Stop[m] /\ errs > f.errBase) \/ prog = Null

NextPosBeyond(m, f, stopped) ==         \* mutant: past passes.end()
    IF stopped THEN End(m) + 1 ELSE f.it + 1
NextPosNoBreak(m, f, stopped) ==        \* mutant: the flag is set, the break is missing
    f.it + 1
NextPos(m, f, stopped) ==
    IF stopped THEN End(m) ELSE f.it + 1

Completed(m, f, prog, errs) ==
    LET stopped == Breaks(m, f, prog, errs)
    IN  [f EXCEPT !.program = prog, !.early = stopped, !.it = NextPos(m, f, stopped)]

\* early_exit() called on a manager x of X while a pass runs.
WithEarlyExit(fr, X) ==
    [m \in Managers |-> IF m \in X THEN [fr[m] EXCEPT !.early = TRUE] ELSE fr[m]]

----------------------------------------------------------------------------
Init ==
    /\ active = {Root}
    /\ focus = Root
    /\ errors = 0
    /\ \E prog \in Program :
          frame = [m \in Managers |->
                      Round(m, IF m = Root THEN prog ELSE Null, 0, 0)]
    /\ running = [m \in Managers |-> m = Root]
    /\ mode = "run"
    /\ trig \in Triggers
    /\ origin = 1
    /\ throws = 0

Running(m) == mode = "run" /\ focus = m

\* PassManager::init_apply, and the loops of PassRepeated and PassRepeatUntil.
SetRunning(m) == [running EXCEPT ![m] = TRUE]

\* focus = m is about to invoke the pass at frame[m].it.
AtPass(m) == Running(m) /\ frame[m].it # End(m) /\ frame[m].program # Null

\* Calls to early_exit() a pass may make: on one of the managers above it.
ExitCalls == { {} } \union { {x} : x \in active }

LeafReturns(m) ==
    /\ AtPass(m)
    /\ Current(m) \in Leaves
    /\ \E prog \in MaybeProgram, e \in {0, 1}, X \in ExitCalls :
          /\ errors + e <= MaxErrors
          /\ errors' = errors + e
          /\ LET fr == WithEarlyExit([frame EXCEPT ![m] = Invoked(m, @)], X)
             IN  frame' = [fr EXCEPT ![m] = Completed(m, @, prog, errors + e)]
    /\ UNCHANGED <<active, focus, running, mode, trig, origin, throws>>

LeafThrows(m) ==
    /\ AtPass(m)
    /\ Current(m) \in Leaves
    /\ throws < MaxThrows
    /\ \E t \in Triggers, e \in {0, 1}, X \in ExitCalls :
          /\ errors + e <= MaxErrors
          /\ errors' = errors + e
          /\ frame' = WithEarlyExit([frame EXCEPT ![m] = Invoked(m, @)], X)
          /\ trig' = t
    /\ throws' = throws + 1
    /\ mode' = "unwind"
    /\ origin' = frame[m].it
    /\ UNCHANGED <<active, focus, running>>

\* The nested manager's init_apply and the start of its apply_visitor.
EnterManager(m) ==
    /\ AtPass(m)
    /\ Current(m) \in Managers
    /\ LET c == Current(m) IN
          /\ frame' = [frame EXCEPT ![m] = Invoked(m, @),
                                    ![c] = Round(c, frame[m].program, 0, errors)]
          /\ active' = active \union {c}
          /\ focus' = c
          /\ running' = SetRunning(c)
    /\ UNCHANGED <<errors, mode, trig, origin, throws>>

\* A PassIf whose condition is false: only its init_apply has run.
SkipManager(m) ==
    /\ AtPass(m)
    /\ Current(m) \in Managers
    /\ Kind[Current(m)] = "if"
    /\ frame' = [frame EXCEPT ![m] =
                    Completed(m, Invoked(m, @), frame[m].program, errors)]
    /\ running' = SetRunning(Current(m))
    /\ UNCHANGED <<active, focus, errors, mode, trig, origin, throws>>

\* A loop that starts with a null program dereferences it.
NullProgram(m) ==
    /\ Running(m)
    /\ frame[m].it # End(m)
    /\ frame[m].program = Null
    /\ mode' = "crashed"
    /\ UNCHANGED <<frame, active, focus, running, errors, trig, origin, throws>>

----------------------------------------------------------------------------
(* The end of the loop, and the loops PassRepeated and PassRepeatUntil put  *)
(* around it.  Every round ends by clearing running, so whoever starts     *)
(* another one has to set it again.                                        *)

AtEnd(m) == Running(m) /\ frame[m].it = End(m)
LoopEnded(m) == AtEnd(m) /\ ~running[m]

EndLoop(m) ==
    /\ AtEnd(m)
    /\ running[m]
    /\ running' = [running EXCEPT ![m] = FALSE]
    /\ UNCHANGED <<frame, active, focus, errors, mode, trig, origin, throws>>

\* apply_visitor of m returns prog to the loop of its parent, or to the caller.
ReturnFrom(m, prog) ==
    /\ active' = active \ {m}
    /\ IF m = Root
       THEN mode' = "done" /\ UNCHANGED <<frame, focus>>
       ELSE /\ focus' = Parent[m]
            /\ frame' = [frame EXCEPT ![Parent[m]] =
                            Completed(Parent[m], @, prog, errors)]
            /\ UNCHANGED mode
    /\ UNCHANGED <<running, errors, trig, origin, throws>>

\* PassRepeated and PassRepeatUntil start another round of the loop.
NextRoundForgets(m, rounds) ==          \* mutant: running is not set again
    /\ frame' = [frame EXCEPT ![m] =
                    Round(m, frame[m].program, rounds, frame[m].applyBase)]
    /\ UNCHANGED <<active, focus, running, errors, mode, trig, origin, throws>>
NextRound(m, rounds) ==
    /\ frame' = [frame EXCEPT ![m] =
                    Round(m, frame[m].program, rounds, frame[m].applyBase)]
    /\ running' = SetRunning(m)
    /\ UNCHANGED <<active, focus, errors, mode, trig, origin, throws>>

Converged(f) == f.program \in {f.start, Null}
Failed(m) == Stop[m] /\ errors > frame[m].applyBase
RepeatsUsed(m) == Repeats[m] # 0 /\ frame[m].rounds + 1 > Repeats[m]

\* The number of rounds is counted only where PassRepeated compares it.
RoundsAfter(m) == IF Repeats[m] = 0 THEN 0 ELSE frame[m].rounds + 1

FinishOnce(m) ==
    /\ LoopEnded(m)
    /\ Kind[m] \in {"plain", "if"}
    /\ ReturnFrom(m, frame[m].program)

FinishRepeated(m) ==
    /\ LoopEnded(m)
    /\ Kind[m] = "repeated"
    /\ \/ Failed(m) /\ ReturnFrom(m, frame[m].start)
       \/ /\ ~Failed(m)
          /\ Converged(frame[m]) \/ RepeatsUsed(m)
          /\ ReturnFrom(m, frame[m].program)
       \/ /\ ~Failed(m)
          /\ ~Converged(frame[m]) /\ ~RepeatsUsed(m)
          /\ NextRound(m, RoundsAfter(m))

FinishUntil(m) ==
    /\ LoopEnded(m)
    /\ Kind[m] = "until"
    /\ \/ ReturnFrom(m, frame[m].program)       \* done() holds
       \/ NextRound(m, 0)                       \* done() does not hold

----------------------------------------------------------------------------
(* The catch block.  Candidates are taken from the end of the backup stack. *)

Unwinding(m) == mode = "unwind" /\ focus = m

CandidateOldest(f) == Head(f.backup)    \* mutant: the farthest recovery point first
Candidate(f) == Last(f.backup)
ExhaustedEarly(f) == Len(f.backup) <= 1 \* mutant: the last candidate is not asked
Exhausted(f) == f.backup = << >>
RestoreOnly(f, b) ==                    \* mutant: the iterator does not move
    [f EXCEPT !.program = b.prog]
Rewind(f, b) == [f EXCEPT !.it = b.pos, !.program = b.prog]

\* backup.back() belongs to the pass that threw or that has just refused.
PopEntry(m) ==
    /\ Unwinding(m)
    /\ ~Exhausted(frame[m])
    /\ Candidate(frame[m]).pos = frame[m].it
    /\ frame' = [frame EXCEPT ![m].backup = Front(@)]
    /\ UNCHANGED <<active, focus, running, errors, mode, trig, origin, throws>>

\* it and program move to the candidate before it is asked.
AskHandler(m) ==
    /\ Unwinding(m)
    /\ ~Exhausted(frame[m])
    /\ LET b == Candidate(frame[m]) IN
          /\ b.pos # frame[m].it
          /\ frame' = [frame EXCEPT ![m] = Rewind(@, b)]
          /\ mode' = IF Accepts(Passes[m][b.pos], trig) THEN "run" ELSE "unwind"
    /\ UNCHANGED <<active, focus, running, errors, trig, origin, throws>>

\* No candidate is left: the exception leaves apply_visitor (running stays set).
Rethrow(m) ==
    /\ Unwinding(m)
    /\ Exhausted(frame[m])
    /\ active' = active \ {m}
    /\ IF m = Root
       THEN mode' = "aborted" /\ UNCHANGED <<focus, origin>>
       ELSE /\ focus' = Parent[m]
            /\ origin' = frame[Parent[m]].it
            /\ UNCHANGED mode
    /\ UNCHANGED <<frame, running, errors, trig, throws>>

----------------------------------------------------------------------------
Step(m) ==
    \/ LeafReturns(m)
    \/ LeafThrows(m)
    \/ EnterManager(m)
    \/ SkipManager(m)
    \/ NullProgram(m)
    \/ EndLoop(m)
    \/ FinishOnce(m)
    \/ FinishRepeated(m)
    \/ FinishUntil(m)
    \/ PopEntry(m)
    \/ AskHandler(m)
    \/ Rethrow(m)

Next == \E m \in Managers : Step(m)

Spec == Init /\ [][Next]_vars

\* The compiler is one thread that does not stop between two steps.
FairSpec == Spec /\ WF_vars(Next)

----------------------------------------------------------------------------
(* Properties.                                                             *)

\* Types of the managers' frames and of the state they share.
TypeOK ==
    /\ frame = [m \in Managers |-> frame[m]]
    /\ \A m \in Managers : frame[m] \in Frame(m)
    /\ active \subseteq Managers
    /\ focus \in Managers
    /\ running \in [Managers -> BOOLEAN]
    /\ errors \in Nat
    /\ mode \in {"run", "unwind", "done", "aborted", "crashed"}
    /\ trig \in Triggers
    /\ origin \in Nat
    /\ throws \in Nat

\* The positions of m that have a backup entry.
Saved(f) == { f.backup[i].pos : i \in DOMAIN f.backup }

(***************************************************************************)
(* Every pass of an active manager that lies before the current one and    *)
(* can catch a trigger is on the backup stack: whatever repeats, skips,    *)
(* restarts and refused triggers came before, no recovery point is lost.   *)
(* (A loop left by break asks nobody any more.)                            *)
(***************************************************************************)
Covers(m, f) ==
    f.it # End(m) \/ ~f.early =>
        \A i \in Pos(m) : i < f.it /\ CanCatch(Passes[m][i]) => i \in Saved(f)

\* Covers, for every manager on the stack.
BackupCovers == \A m \in active : Covers(m, frame[m])

(***************************************************************************)
(* The backup stack of an active manager is ordered and never reaches      *)
(* beyond the current pass, so popping from its end visits the candidates  *)
(* from the nearest to the farthest.                                       *)
(***************************************************************************)
Ordered(f) ==
    /\ \A i, j \in DOMAIN f.backup : i <= j => f.backup[i].pos <= f.backup[j].pos
    /\ \A i \in DOMAIN f.backup : f.backup[i].pos <= f.it

\* Ordered, for every manager on the stack.
BackupOrdered == \A m \in active : Ordered(frame[m])

(***************************************************************************)
(* What a backup entry would restore is the program that pass was last     *)
(* invoked with, duplicates left over from earlier triggers included.      *)
(***************************************************************************)
RestoresInput(f) ==
    \A i \in DOMAIN f.backup : f.backup[i].prog = f.given[f.backup[i].pos]

\* RestoresInput, for every manager on the stack.
BackupRestoresInput == \A m \in active : RestoresInput(frame[m])

(***************************************************************************)
(* A trigger caught by a manager restarts it at the nearest pass before    *)
(* the one that threw that accepts the trigger, with that pass's own last  *)
(* input; the thrower is never asked about its own trigger.                *)
(***************************************************************************)
TriggerCaughtByNearest ==
    [][ mode = "unwind" /\ mode' = "run" =>
            LET m == focus
                p == frame'[m].it
            IN  /\ focus' = m
                /\ p < origin
                /\ Accepts(Passes[m][p], trig)
                /\ \A i \in p + 1 .. origin - 1 : ~Accepts(Passes[m][i], trig)
                /\ frame'[m].program = frame[m].given[p] ]_vars

(***************************************************************************)
(* A trigger leaves a manager only if no pass before the thrower accepts.  *)
(***************************************************************************)
TriggerEscapesOnlyUnhandled ==
    [][ mode = "unwind" /\ focus \notin active' =>
            \A i \in 1 .. origin - 1 : ~Accepts(Passes[focus][i], trig) ]_vars

(***************************************************************************)
(* BUG_CHECK(running, "not calling apply properly") cannot fail in any     *)
(* round: the flag is set for every manager on the stack whose loop has    *)
(* not ended, although each round clears it and four places set it, while  *)
(* nested managers run rounds of their own and triggers restart or leave   *)
(* them half-way.                                                          *)
(***************************************************************************)
RunningInEveryRound == \A m \in active : frame[m].it # End(m) => running[m]

(***************************************************************************)
(* Once a manager has been told to stop (an error with stop_on_error, or   *)
(* early_exit()), the only pass it can still invoke is the one that has    *)
(* just accepted a trigger: neither the count nor the flag is reset.       *)
(***************************************************************************)
StopsUnlessRestarted ==
    LET f == frame[focus] IN
    mode = "run" /\ f.it # End(focus) /\ (f.early \/ (Stop[focus] /\ errors > f.errBase))
        => f.backup # << >> /\ Last(f.backup).pos = f.it

(***************************************************************************)
(* No pass is applied to a null program: a null result ends every          *)
(* enclosing manager.  (A PassRepeatUntil is the exception, see README.)    *)
(***************************************************************************)
NoNullApply == mode # "crashed"

(***************************************************************************)
(* The catch block ends: the trigger is handled or reaches the caller.     *)
(***************************************************************************)
UnwindingEnds == mode = "unwind" ~> mode # "unwind"

(***************************************************************************)
(* pass_manager.h:47 "if true stops compilation after first pass that      *)
(* signals an error": no further pass is invoked.                          *)
(***************************************************************************)
StopsAfterError ==
    mode = "run" /\ frame[focus].it # End(focus) /\ Stop[focus]
        => errors <= frame[focus].errBase
=============================================================================
