---------------------- MODULE PassManagerRefines_proofs ----------------------
(***************************************************************************)
(* The refinement of RecoveryBlocks by PassManager, for every tree of      *)
(* managers, every number of triggers, errors and rounds.                  *)
(***************************************************************************)
EXTENDS PassManagerRefines, PassManager_proofs

(***************************************************************************)
(* The open managers form a chain that ends in the focus, and every set of *)
(* open managers has an innermost member.                                  *)
(***************************************************************************)
Chain == \A m \in active \ {focus} : focus \in Inside[m]
WellNested == \A S \in SUBSET active : S # {} => \E c \in S : S \intersect Inside[c] = {}
NestInv == Chain /\ WellNested

\* The trigger under way comes from a pass of the focus.
OriginOK == mode = "unwind" => origin \in Pos(focus)

\* The chain of open managers, at the start.
LEMMA NestInit == Init => NestInv
<1> SUFFICES ASSUME Init PROVE NestInv
  OBVIOUS
<1>1. active = {Root} /\ focus = Root
  BY DEF Init
<1>2. \A S \in SUBSET active : S # {} => S = {Root}
  BY <1>1
<1>3. Root \notin Inside[Root]
  BY NestAssumption, TreeAssumption
<1>. QED
  BY <1>1, <1>2, <1>3 DEF NestInv, Chain, WellNested

\* No open manager is nested in the focus.
LEMMA FocusInnermost ==
    ASSUME TypeInv, NestInv, focus \in active
    PROVE  active \intersect Inside[focus] = {}
<1> SUFFICES ASSUME NEW m \in active, m \in Inside[focus] PROVE FALSE
  OBVIOUS
<1>1. m \in Managers /\ focus \in Managers
  BY DEF TypeInv, TypeOK
<1>2. CASE m = focus
  BY <1>1, <1>2, NestAssumption
<1>3. CASE m # focus
  BY <1>1, <1>3, NestAssumption DEF NestInv, Chain
<1>. QED
  BY <1>2, <1>3

\* Entering a nested manager keeps the chain.
LEMMA NestEnter ==
    ASSUME TypeInv, NestInv, NEW m \in Managers, EnterManager(m) PROVE NestInv'
<1> DEFINE c == Current(m)
<1>1. /\ AtPass(m) /\ c \in Managers /\ active' = active \union {c} /\ focus' = c
  BY DEF EnterManager
<1>2. focus = m /\ m \in active /\ active \subseteq Managers /\ frame[m].it \in Pos(m)
  BY <1>1, AtPassFacts DEF TypeInv, TypeOK, PathOK
<1>3. c # Root /\ Parent[c] = m
  BY <1>1, <1>2, TreeAssumption DEF Current
<1> HIDE DEF c
<1>4. \A k \in active : c \in Inside[k]
  BY <1>1, <1>2, <1>3, NestAssumption DEF NestInv, Chain
<1>5. \A k \in active' : k \notin Inside[c]
  BY <1>1, <1>2, <1>4, NestAssumption
<1>6. ASSUME NEW S \in SUBSET active', S # {} PROVE \E k \in S : S \intersect Inside[k] = {}
  <2>1. CASE c \in S
    BY <1>5, <2>1
  <2>2. CASE c \notin S
    <3>1. S \in SUBSET active
      BY <1>1, <2>2
    <3>. QED
      BY <3>1, <1>6 DEF NestInv, WellNested
  <2>. QED
    BY <2>1, <2>2
<1>. QED
  BY <1>1, <1>4, <1>6 DEF NestInv, Chain, WellNested

\* Leaving the innermost manager, by a return or by an exception.
LEMMA NestLeave ==
    ASSUME TypeInv, NestInv, NEW m \in Managers, focus = m, m \in active,
           active' = active \ {m}, m = Root \/ focus' = Parent[m], m = Root => focus' = focus
    PROVE  NestInv'
<1>1. active \subseteq Managers
  BY DEF TypeInv, TypeOK
<1>2. ASSUME NEW k \in active', k # focus' PROVE focus' \in Inside[k]
  <2>1. k \in Managers /\ m \in Inside[k]
    BY <1>1, <1>2 DEF NestInv, Chain
  <2>. QED
    BY <1>2, <2>1, NestAssumption
<1>. QED
  BY <1>2 DEF NestInv, Chain, WellNested

\* Every step keeps the open managers a chain of nested ones.
LEMMA NestStep == TypeInv /\ NestInv /\ [Next]_vars => NestInv'
<1> SUFFICES ASSUME TypeInv, NestInv, [Next]_vars PROVE NestInv'
  OBVIOUS
<1>1. CASE UNCHANGED vars
  BY <1>1 DEF vars, NestInv, Chain, WellNested
<1>2. ASSUME NEW m \in Managers, Step(m) PROVE NestInv'
  <2>1. CASE EnterManager(m)
    BY <2>1, NestEnter
  <2>2. CASE UNCHANGED <<active, focus>>
    BY <2>2 DEF NestInv, Chain, WellNested
  <2>3. ASSUME AtEnd(m), NEW prog, ReturnFrom(m, prog) PROVE NestInv'
    <3>1. /\ focus = m /\ m \in active /\ active' = active \ {m}
          /\ m = Root \/ focus' = Parent[m]
          /\ m = Root => focus' = focus
      BY <2>3 DEF AtEnd, Running, ReturnFrom, TypeInv, PathOK
    <3>. QED
      BY <3>1, NestLeave
  <2>4. CASE Rethrow(m)
    <3>1. /\ focus = m /\ m \in active /\ active' = active \ {m}
          /\ m = Root \/ focus' = Parent[m]
          /\ m = Root => focus' = focus
      BY <2>4 DEF Rethrow, Unwinding, TypeInv, PathOK
    <3>. QED
      BY <3>1, NestLeave
  <2>5. CASE FinishOnce(m) \/ FinishRepeated(m) \/ FinishUntil(m)
    BY <2>2, <2>3, <2>5 DEF FinishOnce, FinishRepeated, FinishUntil, LoopEnded, NextRound
  <2>6. CASE LeafReturns(m) \/ LeafThrows(m) \/ SkipManager(m) \/ NullProgram(m)
             \/ EndLoop(m) \/ PopEntry(m) \/ AskHandler(m)
    BY <2>2, <2>6 DEF LeafReturns, LeafThrows, SkipManager, NullProgram, EndLoop, PopEntry, AskHandler
  <2>. QED
    BY <1>2, <2>1, <2>4, <2>5, <2>6 DEF Step
<1>. QED
  BY <1>1, <1>2 DEF Next

-----------------------------------------------------------------------------
(* What the abstract specification sees of a frame.                          *)

\* Invoking a pass records its input; nothing else of the frame shows.
LEMMA InvokedView ==
    ASSUME NEW m \in Managers, NEW f \in Frame(m)
    PROVE  View(Invoked(m, f)) = [View(f) EXCEPT !.input[f.it] = f.program]
<1>1. Invoked(m, f) = [f EXCEPT !.given = [f.given EXCEPT ![f.it] = f.program],
                                !.backup = Save(m, f)]
  BY DEF Invoked
<1>. QED
  BY <1>1 DEF View, Frame

\* A pass that returned moves its manager on, or to the end.
LEMMA CompletedView ==
    ASSUME NEW m \in Managers, NEW f \in Frame(m), NEW prog, NEW errs
    PROVE  View(Completed(m, f, prog, errs)) =
             Promise!Continued(m, View(f), prog, Breaks(m, f, prog, errs))
<1> DEFINE stopped == Breaks(m, f, prog, errs)
<1> DEFINE p == IF stopped THEN End(m) ELSE f.it + 1
<1>1. Completed(m, f, prog, errs) = [f EXCEPT !.program = prog, !.early = stopped, !.it = p]
  BY DEF Completed, NextPos
<1>2. Promise!Continued(m, View(f), prog, stopped) = [at |-> p, value |-> prog, input |-> f.given]
  BY DEF Promise!Continued, View, End, Promise!End
<1> DEFINE g == Completed(m, f, prog, errs)
<1> HIDE DEF stopped, p
<1>3. g.it = p /\ g.program = prog /\ g.given = f.given
  BY <1>1 DEF Frame
<1> HIDE DEF g
<1>4. View(g) = [at |-> p, value |-> prog, input |-> f.given]
  BY <1>3 DEF View
<1>. QED
  BY <1>2, <1>4 DEF g, stopped

\* early_exit() sets a flag the abstract specification does not have.
LEMMA EarlyExitView ==
    ASSUME NEW fr, NEW X, NEW m \in Managers, fr[m] \in Frame(m)
    PROVE  View(WithEarlyExit(fr, X)[m]) = View(fr[m])
  BY DEF WithEarlyExit, View, Frame

\* A round begins at the first pass, with no inputs recorded.
LEMMA RoundView ==
    ASSUME NEW m \in Managers, NEW prog, NEW r, NEW base
    PROVE  View(Round(m, prog, r, base)) = Promise!Fresh(m, prog)
  BY DEF Round, View, Promise!Fresh, Promise!Untouched, Pos

\* The view while no trigger is under way.
Direct ==
    /\ AbsOpen = active /\ AbsFocus = focus /\ AbsStatus = mode
    /\ AbsBlock = [m \in Managers |->
          IF m \in active THEN View(frame[m]) ELSE Promise!Closed]

\* Outside the catch block the mapping is the frames themselves.
LEMMA DirectView == (mode # "unwind" => Direct) /\ (mode' # "unwind" => Direct')
<1>1. mode # "unwind" => Direct
  BY DEF Direct, AbsOpen, AbsFocus, AbsStatus, AbsBlock, Doomed, Restoring, Promise!Closed
<1>2. mode' # "unwind" => Direct'
  BY DEF Direct, AbsOpen, AbsFocus, AbsStatus, AbsBlock, Doomed, Restoring, Promise!Closed
<1>. QED
  BY <1>1, <1>2

\* The initial states map to initial states.
LEMMA RefineInit == Init => Promise!Init
<1> SUFFICES ASSUME Init PROVE Promise!Init
  OBVIOUS
<1>1. PICK prog \in Program :
         frame = [k \in Managers |-> Round(k, IF k = Root THEN prog ELSE Null, 0, 0)]
  BY DEF Init
<1>2. active = {Root} /\ focus = Root /\ mode = "run" /\ Root \in Managers
  BY TreeAssumption DEF Init
<1>3. Direct
  BY <1>2, DirectView
<1>4. View(frame[Root]) = Promise!Fresh(Root, prog)
  BY <1>1, <1>2, RoundView
<1>. QED
  BY <1>2, <1>3, <1>4 DEF Direct, Promise!Init

\* A step about to be applied, as the abstract specification sees it.
LEMMA AtStepView ==
    ASSUME TypeInv, NEW m \in Managers, AtPass(m)
    PROVE  /\ Direct /\ Promise!AtStep(m) /\ m \in active
           /\ AbsBlock[m] = View(frame[m])
           /\ AbsBlock[m].at = frame[m].it /\ AbsBlock[m].value = frame[m].program
           /\ Promise!Given(m) = View(Invoked(m, frame[m]))
<1>1. /\ focus = m /\ mode = "run" /\ frame[m] \in Frame(m) /\ m \in active
      /\ frame[m].it # End(m) /\ frame[m].program # Null
  BY AtPassFacts DEF TypeInv, PathOK, AtPass
<1>2. Direct
  BY <1>1, DirectView
<1>3. AbsBlock[m] = View(frame[m])
  BY <1>1, <1>2 DEF Direct
<1>4. AbsBlock[m].at = frame[m].it /\ AbsBlock[m].value = frame[m].program
  BY <1>3 DEF View
<1>5. Promise!Given(m) = View(Invoked(m, frame[m]))
  BY <1>1, <1>3, <1>4, InvokedView DEF Promise!Given
<1>6. Promise!AtStep(m)
  BY <1>1, <1>2, <1>4 DEF Promise!AtStep, Direct, Promise!End, End
<1>. QED
  BY <1>1, <1>2, <1>3, <1>4, <1>5, <1>6

-----------------------------------------------------------------------------
(* One lemma per kind of step.                                               *)

\* The abstract state after a pass that is applied and returns.
LEMMA ApplyView ==
    ASSUME TypeInv, NEW m \in Managers, AtPass(m), NEW prog \in MaybeProgram, NEW early \in BOOLEAN,
           UNCHANGED <<active, focus, mode>>,
           \A k \in active : k # m => View(frame'[k]) = View(frame[k]),
           View(frame'[m]) = Promise!Continued(m, View(Invoked(m, frame[m])), prog, early)
    PROVE  Promise!Apply(m)
<1>1. /\ Direct /\ Promise!AtStep(m) /\ m \in active
      /\ Promise!Given(m) = View(Invoked(m, frame[m]))
  BY AtStepView
<1>2. Direct'
  <2>1. mode' # "unwind"
    BY AtPassFacts DEF TypeInv
  <2>. QED
    BY <2>1, DirectView
<1>3. AbsBlock' = [AbsBlock EXCEPT ![m] = Promise!Continued(m, Promise!Given(m), prog, early)]
  BY <1>1, <1>2 DEF Direct
<1>4. AbsOpen' = AbsOpen /\ AbsFocus' = AbsFocus /\ AbsStatus' = AbsStatus
  BY <1>1, <1>2 DEF Direct
<1>. QED
  BY <1>1, <1>3, <1>4 DEF Promise!Apply, MaybeProgram

\* The invoked pass, and the early exits, seen from every manager.
LEMMA InvokedViews ==
    ASSUME TypeInv, NEW m \in Managers, AtPass(m), NEW X
    PROVE  LET fr == WithEarlyExit([frame EXCEPT ![m] = Invoked(m, @)], X)
           IN  /\ \A k \in active \ {m} : View(fr[k]) = View(frame[k])
               /\ View(fr[m]) = View(Invoked(m, frame[m]))
               /\ fr[m] \in Frame(m)
               /\ fr = [k \in Managers |-> fr[k]]
<1> DEFINE g == [frame EXCEPT ![m] = Invoked(m, @)]
<1>1. /\ \A k \in Managers : g[k] \in Frame(k)
      /\ \A k \in Managers \ {m} : g[k] = frame[k]
      /\ g[m] = Invoked(m, frame[m]) /\ active \subseteq Managers
  BY AtPassFacts DEF TypeInv, TypeOK
<1> HIDE DEF g
<1>2. \A k \in Managers : View(WithEarlyExit(g, X)[k]) = View(g[k])
  BY <1>1, EarlyExitView
<1>3. WithEarlyExit(g, X)[m] \in Frame(m)
  BY <1>1, EarlyExitFrame
<1>4. WithEarlyExit(g, X) = [k \in Managers |-> WithEarlyExit(g, X)[k]]
  BY DEF WithEarlyExit
<1>. QED
  BY <1>1, <1>2, <1>3, <1>4 DEF g

\* A pass that returns is an abstract Apply.
LEMMA RefineLeafReturns ==
    ASSUME TypeInv, NEW m \in Managers, LeafReturns(m) PROVE Promise!Apply(m)
<1>1. PICK prog \in MaybeProgram, e \in {0, 1}, X \in ExitCalls :
         LET fr == WithEarlyExit([frame EXCEPT ![m] = Invoked(m, @)], X)
         IN  frame' = [fr EXCEPT ![m] = Completed(m, @, prog, errors + e)]
  BY DEF LeafReturns
<1>2. AtPass(m) /\ UNCHANGED <<active, focus, mode>> /\ errors + e \in Nat
  BY DEF LeafReturns, TypeInv, TypeOK
<1> DEFINE fr == WithEarlyExit([frame EXCEPT ![m] = Invoked(m, @)], X)
<1> DEFINE f == Invoked(m, frame[m])
<1>3. /\ \A k \in active \ {m} : View(fr[k]) = View(frame[k])
      /\ View(fr[m]) = View(f) /\ fr[m] \in Frame(m)
      /\ fr = [k \in Managers |-> fr[k]]
  BY <1>2, InvokedViews
<1>4. f \in Frame(m) /\ active \subseteq Managers
  BY <1>2, AtPassFacts DEF TypeInv, TypeOK
<1>5. frame' = [fr EXCEPT ![m] = Completed(m, fr[m], prog, errors + e)]
  BY <1>1
<1> HIDE DEF fr
<1>6. /\ frame'[m] = Completed(m, fr[m], prog, errors + e)
      /\ \A k \in active : k # m => frame'[k] = fr[k]
  BY <1>3, <1>4, <1>5
<1>7. View(frame'[m]) = Promise!Continued(m, View(f), prog, Breaks(m, fr[m], prog, errors + e))
  BY <1>3, <1>6, CompletedView
<1>8. Breaks(m, fr[m], prog, errors + e) \in BOOLEAN
  BY <1>2, <1>3, ParameterAssumption DEF Breaks, Frame
<1>9. \A k \in active : k # m => View(frame'[k]) = View(frame[k])
  BY <1>3, <1>6
<1>. QED
  BY <1>2, <1>4, <1>7, <1>8, <1>9, ApplyView

\* A PassIf that is skipped is an abstract Apply.
LEMMA RefineSkipManager ==
    ASSUME TypeInv, NEW m \in Managers, SkipManager(m) PROVE Promise!Apply(m)
<1> DEFINE f == Invoked(m, frame[m])
<1>1. /\ AtPass(m) /\ UNCHANGED <<active, focus, mode>>
      /\ frame' = [frame EXCEPT ![m] = Completed(m, f, frame[m].program, errors)]
  BY DEF SkipManager
<1>2. /\ f \in Frame(m) /\ active \subseteq Managers /\ frame[m].program \in MaybeProgram
      /\ errors \in Nat /\ frame = [k \in Managers |-> frame[k]]
  BY <1>1, AtPassFacts DEF TypeInv, TypeOK, MaybeProgram
<1>3. Breaks(m, f, frame[m].program, errors) \in BOOLEAN
  BY <1>2, ParameterAssumption DEF Breaks, Frame
<1>4. View(frame'[m]) =
        Promise!Continued(m, View(f), frame[m].program, Breaks(m, f, frame[m].program, errors))
  <2>1. frame'[m] = Completed(m, f, frame[m].program, errors)
    BY <1>1, <1>2
  <2> HIDE DEF f
  <2>. QED
    BY <1>2, <2>1, CompletedView
<1>5. \A k \in active : k # m => View(frame'[k]) = View(frame[k])
  BY <1>1, <1>2
<1>. QED
  BY <1>1, <1>2, <1>3, <1>4, <1>5, ApplyView

\* A nested manager that starts is an abstract Enter.
LEMMA RefineEnterManager ==
    ASSUME TypeInv, NEW m \in Managers, EnterManager(m) PROVE Promise!Enter(m)
<1> DEFINE c == Current(m)
<1>1. /\ AtPass(m) /\ c \in Managers /\ active' = active \union {c} /\ focus' = c /\ mode' = mode
      /\ frame' = [frame EXCEPT ![m] = Invoked(m, @), ![c] = Round(c, frame[m].program, 0, errors)]
  BY DEF EnterManager
<1>2. /\ focus = m /\ mode = "run" /\ active \subseteq Managers /\ frame[m].it \in Pos(m)
      /\ frame = [k \in Managers |-> frame[k]]
  BY <1>1, AtPassFacts DEF TypeInv, TypeOK
<1>3. c # m
  BY <1>2, <1>1, TreeAssumption DEF Current
<1>4. /\ Direct /\ Promise!AtStep(m) /\ m \in active /\ AbsBlock[m].at = frame[m].it
      /\ AbsBlock[m].value = frame[m].program
      /\ Promise!Given(m) = View(Invoked(m, frame[m]))
  BY <1>1, AtStepView
<1>5. Direct'
  BY <1>1, <1>2, DirectView
<1>6. /\ View(frame'[m]) = Promise!Given(m)
      /\ View(frame'[c]) = Promise!Fresh(c, AbsBlock[m].value)
      /\ \A k \in Managers : k # m /\ k # c => frame'[k] = frame[k]
  BY <1>1, <1>2, <1>3, <1>4, RoundView
<1>7. c = Passes[m][AbsBlock[m].at]
  BY <1>4 DEF Current
<1> HIDE DEF c
<1>8. AbsBlock' = [AbsBlock EXCEPT ![m] = Promise!Given(m), ![c] = Promise!Fresh(c, AbsBlock[m].value)]
  <2> DEFINE u == Promise!Given(m)
  <2> DEFINE v == Promise!Fresh(c, AbsBlock[m].value)
  <2>1. View(frame'[m]) = u /\ View(frame'[c]) = v
    BY <1>6
  <2> HIDE DEF u, v
  <2>2. AbsBlock' = [k \in Managers |-> IF k \in active' THEN View(frame'[k]) ELSE Promise!Closed]
    BY <1>5 DEF Direct
  <2>3. AbsBlock = [k \in Managers |-> IF k \in active THEN View(frame[k]) ELSE Promise!Closed]
    BY <1>4 DEF Direct
  <2>4. AbsBlock' = [AbsBlock EXCEPT ![m] = u, ![c] = v]
    BY <1>1, <1>2, <1>3, <1>4, <1>6, <2>1, <2>2, <2>3
  <2>. QED
    BY <2>4 DEF u, v
<1>9. AbsOpen' = AbsOpen \union {c} /\ AbsFocus' = c /\ AbsStatus' = AbsStatus
  BY <1>1, <1>4, <1>5 DEF Direct
<1>. QED
  BY <1>1, <1>4, <1>7, <1>8, <1>9 DEF Promise!Enter

\* The end of a loop, as the abstract specification sees it.
LEMMA AtEndView ==
    ASSUME TypeInv, NEW m \in Managers, AtEnd(m)
    PROVE  /\ Direct /\ Promise!AtEnd(m) /\ m \in active /\ focus = m /\ mode = "run"
           /\ AbsBlock[m].value = frame[m].program
<1>1. /\ focus = m /\ mode = "run" /\ m \in active /\ frame[m].it = End(m)
  BY DEF AtEnd, Running, TypeInv, PathOK
<1>2. Direct
  BY <1>1, DirectView
<1>3. AbsBlock[m].at = frame[m].it /\ AbsBlock[m].value = frame[m].program
  BY <1>1, <1>2 DEF Direct, View
<1>. QED
  BY <1>1, <1>2, <1>3 DEF Promise!AtEnd, Direct, Promise!End, End

\* A manager that returns is an abstract Leave.
LEMMA RefineReturn ==
    ASSUME TypeInv, NEW m \in Managers, AtEnd(m), NEW prog \in MaybeProgram, ReturnFrom(m, prog)
    PROVE  Promise!Leave(m)
<1>1. Direct /\ Promise!AtEnd(m) /\ m \in active /\ focus = m /\ mode = "run"
  BY AtEndView
<1>2. active' = active \ {m} /\ active \subseteq Managers /\ frame = [k \in Managers |-> frame[k]]
  BY DEF ReturnFrom, TypeInv, TypeOK
<1>3. CASE m = Root
  <2>1. mode' = "done" /\ frame' = frame /\ focus' = focus
    BY <1>3 DEF ReturnFrom
  <2>2. Direct'
    BY <2>1, DirectView
  <2>3. AbsBlock' = [AbsBlock EXCEPT ![m] = Promise!Closed]
    BY <1>1, <1>2, <2>1, <2>2 DEF Direct
  <2>. QED
    BY <1>1, <1>2, <1>3, <2>1, <2>2, <2>3 DEF Direct, Promise!Leave
<1>4. CASE m # Root
  <2> DEFINE p == Parent[m]
  <2>1. /\ focus' = p /\ mode' = mode
        /\ frame' = [frame EXCEPT ![p] = Completed(p, frame[p], prog, errors)]
    BY <1>4 DEF ReturnFrom
  <2>2. p \in active /\ p \in Managers /\ p # m /\ frame[p] \in Frame(p)
    BY <1>1, <1>2, <1>4 DEF TypeInv, TypeOK, PathOK
  <2> HIDE DEF p
  <2> DEFINE early == Breaks(p, frame[p], prog, errors)
  <2>3. early \in BOOLEAN
    BY <2>2, ParameterAssumption DEF Breaks, Frame, TypeInv, TypeOK
  <2>4. frame'[p] = Completed(p, frame[p], prog, errors)
    BY <1>2, <2>1, <2>2
  <2>5. View(frame'[p]) = Promise!Continued(p, View(frame[p]), prog, early)
    BY <2>2, <2>4, CompletedView
  <2>6. \A k \in Managers : k # p => frame'[k] = frame[k]
    BY <1>2, <2>1
  <2>7. Direct'
    BY <1>1, <2>1, DirectView
  <2> HIDE DEF early
  <2>8. AbsBlock[p] = View(frame[p])
    BY <1>1, <2>2 DEF Direct
  <2>9. AbsBlock' = [AbsBlock EXCEPT ![m] = Promise!Closed,
                                     ![p] = Promise!Continued(p, AbsBlock[p], prog, early)]
    BY <1>1, <1>2, <2>2, <2>5, <2>6, <2>7, <2>8 DEF Direct
  <2>10. AbsOpen' = AbsOpen \ {m} /\ AbsFocus' = p /\ AbsStatus' = AbsStatus
    BY <1>1, <1>2, <2>1, <2>7 DEF Direct
  <2>11. AbsBlock' = [AbsBlock EXCEPT ![m] = Promise!Closed,
                                      ![p] = Promise!Continued(p, @, prog, early)]
    BY <2>2, <2>9
  <2>. QED
    BY <1>1, <1>4, <2>3, <2>10, <2>11 DEF Promise!Leave, MaybeProgram, p
<1>. QED
  BY <1>3, <1>4

\* A round that begins again is an abstract Again.
LEMMA RefineNextRound ==
    ASSUME TypeInv, NEW m \in Managers, AtEnd(m), NEW r, NextRound(m, r)
    PROVE  Promise!Again(m)
<1>1. /\ Direct /\ Promise!AtEnd(m) /\ m \in active /\ focus = m /\ mode = "run"
      /\ AbsBlock[m].value = frame[m].program
  BY AtEndView
<1>2. /\ UNCHANGED <<active, focus, mode>>
      /\ frame' = [frame EXCEPT ![m] = Round(m, frame[m].program, r, frame[m].applyBase)]
      /\ active \subseteq Managers /\ frame = [k \in Managers |-> frame[k]]
  BY DEF NextRound, TypeInv, TypeOK
<1>3. Direct'
  BY <1>1, <1>2, DirectView
<1>4. /\ View(frame'[m]) = Promise!Fresh(m, AbsBlock[m].value)
      /\ \A k \in Managers : k # m => frame'[k] = frame[k]
  BY <1>1, <1>2, RoundView
<1>5. AbsBlock' = [AbsBlock EXCEPT ![m] = Promise!Fresh(m, AbsBlock[m].value)]
  BY <1>1, <1>2, <1>3, <1>4 DEF Direct
<1>. QED
  BY <1>1, <1>2, <1>3, <1>5 DEF Direct, Promise!Again

\* The three ways a loop can end.
LEMMA RefineFinish ==
    ASSUME TypeInv, NEW m \in Managers, FinishOnce(m) \/ FinishRepeated(m) \/ FinishUntil(m)
    PROVE  Promise!Leave(m) \/ Promise!Again(m)
<1>1. AtEnd(m) /\ frame[m] \in Frame(m)
  BY DEF FinishOnce, FinishRepeated, FinishUntil, LoopEnded, TypeInv, TypeOK
<1>2. frame[m].program \in MaybeProgram /\ frame[m].start \in MaybeProgram
  BY <1>1 DEF Frame
<1>3. \/ ReturnFrom(m, frame[m].program) \/ ReturnFrom(m, frame[m].start)
      \/ NextRound(m, RoundsAfter(m)) \/ NextRound(m, 0)
  BY DEF FinishOnce, FinishRepeated, FinishUntil
<1>. QED
  BY <1>1, <1>2, <1>3, RefineReturn, RefineNextRound

\* A null program that is used is an abstract Crash.
LEMMA RefineNullProgram ==
    ASSUME TypeInv, NEW m \in Managers, NullProgram(m) PROVE Promise!Crash(m)
<1>1. /\ focus = m /\ mode = "run" /\ mode' = "crashed" /\ m \in active
      /\ frame[m].it # End(m) /\ frame[m].program = Null
      /\ UNCHANGED <<frame, active, focus>>
  BY DEF NullProgram, Running, TypeInv, PathOK
<1>2. Direct /\ Direct'
  BY <1>1, DirectView
<1>3. AbsBlock[m].at = frame[m].it /\ AbsBlock[m].value = Null
  BY <1>1, <1>2 DEF Direct, View
<1>4. AbsBlock' = AbsBlock
  BY <1>1, <1>2 DEF Direct
<1>. QED
  BY <1>1, <1>2, <1>3, <1>4 DEF Direct, Promise!Crash, Promise!End, End

-----------------------------------------------------------------------------
(* Triggers.  While one is under way the abstract state is already the one  *)
(* the trigger leads to.                                                    *)

\* The innermost manager that may catch the trigger.
CatcherOK ==
    Catching # {} =>
        /\ Catcher \in Catching /\ Catching \intersect Inside[Catcher] = {}
        /\ focus \in Catching => Catcher = focus

\* The innermost catching manager exists; the focus is it if it catches.
LEMMA CatcherFacts == TypeInv /\ NestInv => CatcherOK
<1> SUFFICES ASSUME TypeInv, NestInv, Catching # {}
             PROVE  /\ Catcher \in Catching /\ Catching \intersect Inside[Catcher] = {}
                    /\ focus \in Catching => Catcher = focus
  BY DEF CatcherOK
<1>1. Catching \in SUBSET active /\ active \subseteq Managers
  BY DEF Catching, TypeInv, TypeOK
<1>2. \E c \in Catching : Catching \intersect Inside[c] = {}
  BY <1>1 DEF NestInv, WellNested
<1>3. Catcher \in Catching /\ Catching \intersect Inside[Catcher] = {}
  BY <1>2 DEF Catcher
<1>4. ASSUME focus \in Catching, Catcher # focus PROVE FALSE
  BY <1>1, <1>3, <1>4 DEF NestInv, Chain
<1>. QED
  BY <1>3, <1>4

\* The same in the state after a step.
LEMMA CatcherFactsNext == TypeInv' /\ NestInv' => CatcherOK'
  BY CatcherFacts, PTL

\* A trigger is, at once, an abstract Throw.
LEMMA RefineLeafThrows ==
    ASSUME TypeInv, NestInv, NestInv', TypeInv', NEW m \in Managers, LeafThrows(m)
    PROVE  Promise!Throw(m)
<1>1. PICK X \in ExitCalls : frame' = WithEarlyExit([frame EXCEPT ![m] = Invoked(m, @)], X)
  BY DEF LeafThrows
<1>2. /\ AtPass(m) /\ UNCHANGED <<active, focus>> /\ mode' = "unwind" /\ trig' \in Triggers
      /\ origin' = frame[m].it /\ Current(m) \in Leaves
  BY DEF LeafThrows
<1>3. /\ focus = m /\ mode = "run" /\ active \subseteq Managers /\ m \in active
      /\ frame[m].it \in Pos(m)
  BY <1>2, AtPassFacts DEF TypeInv, TypeOK, PathOK
<1>4. /\ Direct /\ Promise!AtStep(m) /\ AbsBlock[m].at = frame[m].it
      /\ Promise!Given(m) = View(Invoked(m, frame[m]))
  BY <1>2, AtStepView
<1>5. Passes[m][AbsBlock[m].at] \notin Managers
  BY <1>2, <1>4, TreeAssumption DEF Current
<1>6. /\ \A k \in active \ {m} : View(frame'[k]) = View(frame[k])
      /\ View(frame'[m]) = Promise!Given(m)
  BY <1>1, <1>2, <1>4, InvokedViews
<1> DEFINE t == trig'
<1>7. \A k \in active : AbsBlock[k].at = Thrower(k)'
  <2>1. Thrower(m)' = AbsBlock[m].at
    BY <1>2, <1>3, <1>4 DEF Thrower
  <2>2. ASSUME NEW k \in active, k # m PROVE AbsBlock[k].at = Thrower(k)'
    <3>1. Thrower(k)' = frame'[k].it
      BY <1>2, <1>3, <2>2 DEF Thrower
    <3>2. AbsBlock[k] = View(frame'[k])
      BY <1>3, <1>4, <1>6, <2>2 DEF Direct
    <3>. QED
      BY <3>1, <3>2 DEF View
  <2>. QED
    BY <2>1, <2>2
<1>8. \A k \in active : Candidates(k)' = Promise!AcceptsBefore(k, AbsBlock[k].at, t)
  BY <1>7 DEF Candidates, Promise!AcceptsBefore
<1>9. Catching' = Promise!Catchers(t)
  BY <1>2, <1>4, <1>8 DEF Catching, Promise!Catchers, Direct
<1>10. CASE Catching' = {}
  <2>1. Doomed' /\ ~Restoring'
    BY <1>2, <1>10 DEF Doomed, Restoring
  <2>2. AbsOpen' = {} /\ AbsFocus' = Root /\ AbsStatus' = "aborted"
    BY <2>1 DEF AbsOpen, AbsFocus, AbsStatus
  <2>3. AbsBlock' = [k \in Managers |-> Promise!Closed]
    BY <2>2 DEF AbsBlock, Promise!Closed
  <2>. QED
    BY <1>2, <1>4, <1>5, <1>9, <1>10, <2>2, <2>3 DEF Promise!Throw, Promise!Abort
<1>11. CASE Catching' # {}
  <2>0. Catcher' \in Catching' /\ Catching' \intersect Inside[Catcher'] = {}
    BY <1>11, CatcherFactsNext DEF CatcherOK
  <2>1. PICK c \in Catching' : c = Catcher' /\ Catching' \intersect Inside[c] = {}
    BY <2>0
  <2>2. ~Doomed' /\ Restoring'
    BY <1>2, <1>11 DEF Doomed, Restoring
  <2>3. c \in active /\ c \in Managers /\ c \notin Inside[c]
    BY <1>2, <1>3, <2>1, NestAssumption DEF Catching
  <2>4. AbsOpen' = AbsOpen \ Inside[c] /\ AbsFocus' = c /\ AbsStatus' = AbsStatus
    BY <1>2, <1>3, <1>4, <2>1, <2>2 DEF AbsOpen, AbsFocus, AbsStatus, Direct
  <2> DEFINE rec(k) == IF k = m THEN Promise!Given(m) ELSE AbsBlock[k]
  <2>5. \A k \in active : rec(k) = View(frame'[k])
    <3>1. \A k \in active \ {m} : AbsBlock[k] = View(frame'[k])
      BY <1>3, <1>4, <1>6 DEF Direct
    <3>. QED
      BY <1>6, <3>1
  <2>6. \A k \in Managers \ active : rec(k) = Promise!Closed /\ k # c
    BY <1>3, <1>4, <2>3 DEF Direct
  <2>7. rec(c).at = AbsBlock[c].at
    BY <1>4 DEF Promise!Given
  <2>8. Promise!Nearest(c, rec(c).at, t) = NearestCandidate(c)'
    <3>1. Candidates(c)' = Promise!AcceptsBefore(c, rec(c).at, t)
      BY <1>8, <2>3, <2>7
    <3>. QED
      BY <3>1 DEF Promise!Nearest, NearestCandidate
  <2>9. Restored(c, frame[c])' = Promise!Restarted(c, rec(c), t)
    <3> DEFINE r == rec(c)
    <3>1. r = View(frame'[c])
      BY <2>3, <2>5
    <3> HIDE DEF r
    <3>2. r.input = frame'[c].given
      BY <3>1 DEF View
    <3>. QED
      BY <2>1, <2>8, <3>2 DEF Restored, Promise!Restarted, r
  <2>10. AbsBlock' = [k \in Managers |->
            IF k \notin active \ Inside[c] THEN Promise!Closed
            ELSE IF k = c THEN Restored(c, frame[c])' ELSE View(frame'[k])]
    <3>1. AbsOpen' = active \ Inside[c]
      BY <1>4, <2>4 DEF Direct
    <3>. QED
      BY <2>1, <2>2, <3>1 DEF AbsBlock, Promise!Closed
  <2>11. AbsBlock' = [k \in Managers |->
            IF k \in Inside[c] THEN Promise!Closed
            ELSE IF k = c THEN Promise!Restarted(c, rec(k), t) ELSE rec(k)]
    BY <2>3, <2>5, <2>6, <2>9, <2>10
  <2>12. Promise!Recover(m, c, t)
    BY <2>4, <2>11 DEF Promise!Recover
  <2>. QED
    BY <1>2, <1>4, <1>5, <1>9, <2>1, <2>12 DEF Promise!Throw
<1>. QED
  BY <1>10, <1>11

\* The abstract state depends on the frames only through Thrower and View.
AbsVars == <<AbsBlock, AbsOpen, AbsFocus, AbsStatus>>

\* Steps of the catch block that move nothing but the focus are invisible.
LEMMA InvisibleStep ==
    ASSUME TypeInv, NestInv, mode = "unwind", focus \in active,
           UNCHANGED <<active, focus, mode, trig, origin>>,
           \A k \in active : frame'[k].given = frame[k].given,
           \A k \in active \ {focus} : frame'[k] = frame[k]
    PROVE  UNCHANGED AbsVars
<1>1. active \subseteq Managers
  BY DEF TypeInv, TypeOK
<1>2. \A k \in active : Candidates(k)' = Candidates(k)
  BY DEF Candidates, Thrower
<1>3. Catching' = Catching
  BY <1>2 DEF Catching
<1>4. Catcher' = Catcher /\ Doomed' = Doomed /\ Restoring' = Restoring
  BY <1>3 DEF Catcher, Doomed, Restoring
<1>5. AbsOpen' = AbsOpen /\ AbsFocus' = AbsFocus /\ AbsStatus' = AbsStatus
  BY <1>4 DEF AbsOpen, AbsFocus, AbsStatus
<1>6. \A k \in active : NearestCandidate(k)' = NearestCandidate(k)
  BY <1>2 DEF NearestCandidate
<1>7. \A k \in active : Restored(k, frame[k])' = Restored(k, frame[k])
  BY <1>6 DEF Restored
<1>8. AbsOpen \subseteq active
  BY DEF AbsOpen
<1>9. ASSUME NEW k \in AbsOpen, ~(Restoring /\ k = Catcher) PROVE View(frame'[k]) = View(frame[k])
  <2>1. Restoring /\ k \in active /\ k \notin Inside[Catcher]
    BY <1>9 DEF AbsOpen, Doomed, Restoring
  <2>2. Catcher \in active
    BY <2>1, CatcherFacts DEF CatcherOK, Restoring, Catching
  <2>3. k # focus
    BY <1>9, <2>1, <2>2 DEF NestInv, Chain
  <2>. QED
    BY <2>1, <2>3
<1>10. AbsBlock' = AbsBlock
  BY <1>4, <1>5, <1>7, <1>8, <1>9, Zenon DEF AbsBlock
<1>. QED
  BY <1>5, <1>10 DEF AbsVars

\* Dropping an entry is invisible.
LEMMA RefinePopEntry ==
    ASSUME TypeInv, NestInv, NEW m \in Managers, PopEntry(m) PROVE UNCHANGED AbsVars
<1>1. /\ focus = m /\ mode = "unwind" /\ frame[m] \in Frame(m) /\ m \in active
      /\ frame' = [frame EXCEPT ![m] = [frame[m] EXCEPT !.backup = Front(@)]]
      /\ UNCHANGED <<active, focus, mode, trig, origin>>
      /\ frame = [k \in Managers |-> frame[k]] /\ active \subseteq Managers
  BY DEF PopEntry, Unwinding, TypeInv, TypeOK, PathOK
<1>2. frame'[m].given = frame[m].given
  <2>1. [frame[m] EXCEPT !.backup = Front(@)].given = frame[m].given
    BY <1>1 DEF Frame
  <2>. QED
    BY <1>1, <2>1
<1>3. \A k \in active \ {focus} : frame'[k] = frame[k]
  BY <1>1
<1>. QED
  BY <1>1, <1>2, <1>3, InvisibleStep

\* A refusal is invisible, an acceptance arrives where the abstract state is.
LEMMA RefineAskHandler ==
    ASSUME TypeInv, BackupInv, NestInv, OriginOK, NEW m \in Managers, AskHandler(m)
    PROVE  UNCHANGED AbsVars
<1> DEFINE p == Candidate(frame[m]).pos
<1>1. /\ focus = m /\ mode = "unwind" /\ m \in active /\ p \in Pos(m)
      /\ p < frame[m].it /\ frame[m].it <= origin
      /\ frame'[m] = Rewind(frame[m], Candidate(frame[m]))
      /\ frame'[m].it = p /\ frame'[m].program = frame[m].given[p]
      /\ \A k \in active \ {m} : frame'[k] = frame[k]
      /\ \A i \in p + 1 .. origin - 1 : ~Accepts(Passes[m][i], trig)
      /\ mode' = IF Accepts(Passes[m][p], trig) THEN "run" ELSE "unwind"
  BY AskFacts
<1>2. UNCHANGED <<active, focus, trig, origin>> /\ active \subseteq Managers
  BY DEF AskHandler, TypeInv, TypeOK
<1>3. frame'[m].given = frame[m].given
  BY <1>1 DEF Rewind, Frame, TypeInv, TypeOK
<1>4. \A k \in active : frame'[k].given = frame[k].given
  BY <1>1, <1>3
<1>5. CASE ~Accepts(Passes[m][p], trig)
  BY <1>1, <1>2, <1>4, <1>5, InvisibleStep
<1>6. CASE Accepts(Passes[m][p], trig)
  <2>1. p \in Nat /\ origin \in Nat /\ frame[m].it \in Nat /\ p < origin /\ p >= 1
    BY <1>1 DEF TypeInv, TypeOK, PathOK, Pos
  <2>2. origin \in Pos(m) /\ trig \in Triggers /\ Len(Passes[m]) \in Nat
    BY <1>1, TreeAssumption DEF OriginOK, TypeInv, TypeOK
  <2> HIDE DEF p
  <2>3. \A i \in 1 .. origin - 1 : trig \in TakesOf[Passes[m][i]] <=> Accepts(Passes[m][i], trig)
    <3>1. \A i \in 1 .. origin - 1 : Passes[m][i] \in Pass
      BY <2>1, <2>2, TreeAssumption DEF Pos
    <3>. QED
      BY <2>2, <3>1 DEF TakesOf
  <2>4. Candidates(m) = { i \in 1 .. origin - 1 : Accepts(Passes[m][i], trig) }
    BY <1>1, <2>3 DEF Candidates, Thrower
  <2>5. p \in Candidates(m) /\ \A j \in Candidates(m) : j <= p
    BY <1>1, <1>6, <2>1, <2>4
  <2>6. NearestCandidate(m) = p
    <3>1. \A i \in Candidates(m) : (\A j \in Candidates(m) : j <= i) => i = p
      BY <2>1, <2>4, <2>5
    <3>. QED
      BY <2>5, <3>1 DEF NearestCandidate
  <2>7. m \in Catching
    BY <1>1, <2>5 DEF Catching
  <2>8. Restoring /\ ~Doomed /\ Catcher = m
    BY <1>1, <2>7, CatcherFacts DEF CatcherOK, Restoring, Doomed
  <2>9. active \intersect Inside[m] = {}
    BY <1>1, FocusInnermost
  <2>10. AbsOpen = active /\ AbsFocus = m /\ AbsStatus = "run"
    BY <2>8, <2>9 DEF AbsOpen, AbsFocus, AbsStatus
  <2>11. Direct'
    BY <1>1, <1>6, DirectView
  <2>12. AbsOpen' = AbsOpen /\ AbsFocus' = AbsFocus /\ AbsStatus' = AbsStatus
    BY <1>1, <1>2, <1>6, <2>10, <2>11 DEF Direct
  <2>13. Restored(m, frame[m]) = View(frame'[m])
    BY <1>1, <1>3, <2>6 DEF Restored, View
  <2>14. AbsBlock = [k \in Managers |->
            IF k \notin active THEN Promise!Closed
            ELSE IF k = m THEN View(frame'[m]) ELSE View(frame[k])]
    BY <2>8, <2>10, <2>13 DEF AbsBlock, Promise!Closed
  <2>15. AbsBlock' = [k \in Managers |->
            IF k \notin active THEN Promise!Closed
            ELSE IF k = m THEN View(frame'[m]) ELSE View(frame[k])]
    BY <1>1, <1>2, <2>11 DEF Direct
  <2>. QED
    BY <2>12, <2>14, <2>15 DEF AbsVars
<1>. QED
  BY <1>5, <1>6

\* A manager nobody in which catches the trigger has already been given up.
LEMMA RefineRethrow ==
    ASSUME TypeInv, BackupInv, NestInv, OriginOK, Next, NEW m \in Managers, Rethrow(m)
    PROVE  UNCHANGED AbsVars
<1>1. /\ focus = m /\ mode = "unwind" /\ m \in active /\ active' = active \ {m}
      /\ UNCHANGED <<frame, trig>> /\ active \subseteq Managers
  BY DEF Rethrow, Unwinding, TypeInv, TypeOK, PathOK
<1>2. \A i \in 1 .. origin - 1 : ~Accepts(Passes[m][i], trig)
  BY <1>1, EscapedLemma DEF EscapedStep
<1>3. Candidates(m) = {}
  <2>1. origin \in Pos(m) /\ Len(Passes[m]) \in Nat
    BY <1>1, TreeAssumption DEF OriginOK
  <2>2. \A i \in 1 .. origin - 1 : Passes[m][i] \in Pass
    BY <2>1, TreeAssumption DEF Pos
  <2>. QED
    BY <1>1, <1>2, <2>2 DEF Candidates, Thrower, TakesOf
<1>4. CASE m = Root
  <2>1. active = {Root}
    <3>1. \A k \in active : k # Root => FALSE
      BY <1>1, <1>4, NestAssumption DEF NestInv, Chain
    <3>. QED
      BY <1>1, <1>4, <3>1
  <2>2. Catching = {} /\ active' = {}
    BY <1>1, <1>3, <1>4, <2>1 DEF Catching
  <2>3. Doomed /\ ~Doomed' /\ ~Restoring' /\ mode' = "aborted" /\ focus' = Root
    BY <1>1, <1>4, <2>2 DEF Doomed, Restoring, Rethrow
  <2>4. AbsOpen = {} /\ AbsOpen' = {} /\ AbsFocus' = AbsFocus /\ AbsStatus' = AbsStatus
    BY <2>2, <2>3 DEF AbsOpen, AbsFocus, AbsStatus
  <2>. QED
    BY <2>4 DEF AbsBlock, AbsVars
<1>5. CASE m # Root
  <2>1. /\ mode' = mode /\ focus' = Parent[m] /\ origin' = frame[Parent[m]].it
        /\ Parent[m] # m
    BY <1>1, <1>5 DEF Rethrow, TypeInv, PathOK
  <2>2. \A k \in active \ {m} : Thrower(k)' = Thrower(k)
    BY <1>1, <2>1 DEF Thrower
  <2>3. \A k \in active \ {m} : Candidates(k)' = Candidates(k)
    BY <1>1, <2>2 DEF Candidates
  <2>4. Catching' = Catching /\ m \notin Catching
    BY <1>1, <1>3, <2>3 DEF Catching
  <2>5. Catcher' = Catcher /\ Doomed' = Doomed /\ Restoring' = Restoring
    BY <2>1, <2>4 DEF Catcher, Doomed, Restoring
  <2>6. Restoring => Catcher \in active \ {m} /\ m \in Inside[Catcher]
    <3>1. Restoring => Catcher \in active \ {m}
      BY <2>4, CatcherFacts DEF CatcherOK, Restoring, Catching
    <3>. QED
      BY <1>1, <3>1 DEF NestInv, Chain
  <2>7. Doomed \/ Restoring
    BY <1>1 DEF Doomed, Restoring
  <2>8. AbsOpen' = AbsOpen /\ AbsFocus' = AbsFocus /\ AbsStatus' = AbsStatus
    BY <1>1, <2>1, <2>5, <2>6, <2>7 DEF AbsOpen, AbsFocus, AbsStatus
  <2>9. Restoring => Restored(Catcher, frame[Catcher])' = Restored(Catcher, frame[Catcher])
    BY <1>1, <2>3, <2>5, <2>6 DEF Restored, NearestCandidate
  <2>10. AbsBlock' = AbsBlock
    BY <1>1, <2>5, <2>8, <2>9 DEF AbsBlock
  <2>. QED
    BY <2>8, <2>10 DEF AbsVars
<1>. QED
  BY <1>4, <1>5

\* origin is a position of focus, at the start.
LEMMA OriginInit == Init => OriginOK
  BY DEF Init, OriginOK

\* origin remains a position of focus.
LEMMA OriginStep == TypeInv /\ OriginOK /\ [Next]_vars => OriginOK'
<1> SUFFICES ASSUME TypeInv, OriginOK, [Next]_vars, mode' = "unwind" PROVE origin' \in Pos(focus')
  BY DEF OriginOK
<1>1. CASE UNCHANGED vars
  BY <1>1 DEF vars, OriginOK
<1>2. ASSUME NEW m \in Managers, Step(m) PROVE origin' \in Pos(focus')
  <2>1. CASE LeafThrows(m)
    BY <2>1, AtPassFacts DEF LeafThrows, TypeInv
  <2>2. CASE Rethrow(m)
    <3>1. m # Root /\ m \in active
      BY <2>2 DEF Rethrow, Unwinding, TypeInv, PathOK
    <3>. QED
      BY <2>2, <3>1 DEF Rethrow, TypeInv, PathOK
  <2>3. CASE PopEntry(m) \/ AskHandler(m)
    BY <2>3 DEF PopEntry, AskHandler, Unwinding, OriginOK
  <2>4. ASSUME NEW prog, AtEnd(m), ReturnFrom(m, prog) PROVE FALSE
    BY <2>4 DEF AtEnd, Running, ReturnFrom
  <2>5. ASSUME NEW r, AtEnd(m), NextRound(m, r) PROVE FALSE
    BY <2>5 DEF AtEnd, Running, NextRound
  <2>. QED
    BY <1>2, <2>1, <2>2, <2>3, <2>4, <2>5
       DEF Step, LeafReturns, EnterManager, SkipManager, NullProgram, EndLoop, FinishOnce,
           FinishRepeated, FinishUntil, LoopEnded, AtPass, AtEnd, Running
<1>. QED
  BY <1>1, <1>2 DEF Next

-----------------------------------------------------------------------------
RefineInv == TypeInv /\ BackupInv /\ NestInv /\ OriginOK

\* Every step maps to an abstract step or to a stutter.
LEMMA RefineStep == RefineInv /\ RefineInv' /\ [Next]_vars => [Promise!Next]_AbsVars
<1> SUFFICES ASSUME RefineInv, RefineInv', [Next]_vars PROVE [Promise!Next]_AbsVars
  OBVIOUS
<1> USE DEF RefineInv
<1>0. ASSUME UNCHANGED <<frame, active, focus, mode, trig, origin>> PROVE AbsVars' = AbsVars
  <2>1. AbsOpen' = AbsOpen /\ AbsFocus' = AbsFocus /\ AbsStatus' = AbsStatus /\ AbsBlock' = AbsBlock
    BY <1>0 DEF AbsOpen, AbsFocus, AbsStatus, AbsBlock, Doomed, Restoring, Catcher, Catching,
           Candidates, Thrower, Restored, NearestCandidate, View
  <2>. QED
    BY <2>1 DEF AbsVars
<1>1. CASE UNCHANGED vars
  BY <1>0, <1>1 DEF vars
<1>2. CASE Next
  <2>1. PICK m \in Managers : Step(m)
    BY <1>2 DEF Next
  <2>2. CASE LeafReturns(m)
    BY <2>2, RefineLeafReturns DEF Promise!Next, Promise!Step
  <2>3. CASE LeafThrows(m)
    BY <2>3, RefineLeafThrows DEF Promise!Next, Promise!Step
  <2>4. CASE EnterManager(m)
    BY <2>4, RefineEnterManager DEF Promise!Next, Promise!Step
  <2>5. CASE SkipManager(m)
    BY <2>5, RefineSkipManager DEF Promise!Next, Promise!Step
  <2>6. CASE NullProgram(m)
    BY <2>6, RefineNullProgram DEF Promise!Next, Promise!Step
  <2>7. CASE FinishOnce(m) \/ FinishRepeated(m) \/ FinishUntil(m)
    BY <2>7, RefineFinish DEF Promise!Next, Promise!Step
  <2>8. CASE PopEntry(m)
    BY <2>8, RefinePopEntry
  <2>9. CASE AskHandler(m)
    BY <2>9, RefineAskHandler
  <2>10. CASE Rethrow(m)
    BY <1>2, <2>10, RefineRethrow
  <2>11. CASE EndLoop(m)
    BY <1>0, <2>11 DEF EndLoop
  <2>. QED
    BY <2>1, <2>2, <2>3, <2>4, <2>5, <2>6, <2>7, <2>8, <2>9, <2>10, <2>11 DEF Step
<1>. QED
  BY <1>1, <1>2

(***************************************************************************)
(* apply_visitor implements RecoveryBlocks: whatever the tree of managers, *)
(* a trigger acts as one atomic return to the nearest accepting pass of    *)
(* the innermost manager that has one, and otherwise ends the compilation. *)
(***************************************************************************)
THEOREM RefinementTheorem == Spec => ImplementsPromise
<1>1. Init => RefineInv
  BY TypeInit, BackupInit, NestInit, OriginInit DEF RefineInv
<1>2. RefineInv /\ [Next]_vars => RefineInv'
  BY TypeStep, BackupStep, NestStep, OriginStep DEF RefineInv
<1>3. [Promise!Next]_AbsVars => [Promise!Next]_(Promise!vars)
  BY DEF AbsVars, Promise!vars
<1>. QED
  BY <1>1, <1>2, <1>3, RefineInit, RefineStep, PTL DEF Spec, ImplementsPromise, Promise!Spec
=============================================================================
