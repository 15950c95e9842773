------------------------ MODULE PassManager_proofs ------------------------
(* Theorems about the pass manager, for every tree of passes and all bounds. *)
EXTENDS PassManager, SequenceTheorems, TLAPS

(***************************************************************************)
(* The active managers form a path: each but the root is the pass its      *)
(* parent is currently at, and the focus is the end of the path.           *)
(***************************************************************************)
PathOK ==
    /\ \A m \in active \ {Root} :
          /\ Parent[m] \in active
          /\ frame[Parent[m]].it \in Pos(Parent[m])
          /\ Passes[Parent[m]][frame[Parent[m]].it] = m
    /\ mode \in {"run", "unwind"} =>
          /\ focus \in active
          /\ \A m \in active \ {Root} : Parent[m] # focus
    /\ mode = "unwind" => frame[focus].it \in Pos(focus)

TypeInv == TypeOK /\ PathOK

\* A frame built at the start of a round is well typed.
LEMMA RoundType ==
    ASSUME NEW m \in Managers, NEW prog \in MaybeProgram,
           NEW r \in Nat, NEW base \in Nat, errors \in Nat
    PROVE  Round(m, prog, r, base) \in Frame(m)
<1>1. Len(Passes[m]) \in Nat
  BY TreeAssumption
<1>2. [i \in Pos(m) |-> NotYet] \in [Pos(m) -> Program \union {NotYet}]
  OBVIOUS
<1>3. << >> \in Seq(Entry(m))
  OBVIOUS
<1>4. 1 \in 1 .. Len(Passes[m]) + 1
  BY <1>1
<1>. QED
  BY <1>2, <1>3, <1>4 DEF Round, Frame

\* Invoking a pass keeps a frame well typed, leaves its position alone and
\* appends at most the entry of that position.
LEMMA InvokedType ==
    ASSUME NEW m \in Managers, NEW f \in Frame(m),
           f.it \in Pos(m), f.program \in Program
    PROVE  /\ Invoked(m, f) \in Frame(m)
           /\ Invoked(m, f).it = f.it
           /\ Invoked(m, f).early = f.early
<1>1. [pos |-> f.it, prog |-> f.program] \in Entry(m)
  BY DEF Entry
<1>2. f.backup \in Seq(Entry(m))
  BY DEF Frame
<1>3. Save(m, f) \in Seq(Entry(m))
  BY <1>1, <1>2, AppendProperties DEF Save
<1>4. [f.given EXCEPT ![f.it] = f.program] \in [Pos(m) -> Program \union {NotYet}]
  BY DEF Frame
<1>. QED
  BY <1>3, <1>4 DEF Invoked, Frame

\* Completing a pass keeps a frame well typed.
LEMMA CompletedType ==
    ASSUME NEW m \in Managers, NEW f \in Frame(m), f.it \in Pos(m),
           NEW prog \in MaybeProgram, NEW errs \in Nat
    PROVE  Completed(m, f, prog, errs) \in Frame(m)
<1>1. Len(Passes[m]) \in Nat
  BY TreeAssumption
<1>2. Breaks(m, f, prog, errs) \in BOOLEAN
  BY ParameterAssumption DEF Breaks, Frame
<1>3. NextPos(m, f, Breaks(m, f, prog, errs)) \in 1 .. Len(Passes[m]) + 1
  BY <1>1 DEF NextPos, End, Pos
<1>. QED
  BY <1>2, <1>3 DEF Completed, Frame

\* early_exit() changes nothing but the flag.
LEMMA EarlyExitFrame ==
    ASSUME NEW fr, NEW X, NEW m \in Managers, fr[m] \in Frame(m)
    PROVE  /\ WithEarlyExit(fr, X)[m] \in Frame(m)
           /\ WithEarlyExit(fr, X)[m] \in {fr[m], [fr[m] EXCEPT !.early = TRUE]}
<1>1. [fr[m] EXCEPT !.early = TRUE] \in Frame(m)
  BY DEF Frame
<1>. QED
  BY <1>1 DEF WithEarlyExit

\* Popping an entry keeps a frame well typed.
LEMMA FrontType ==
    ASSUME NEW m \in Managers, NEW f \in Frame(m), f.backup # << >>
    PROVE  [f EXCEPT !.backup = Front(@)] \in Frame(m)
<1>1. f.backup \in Seq(Entry(m))
  BY DEF Frame
<1>2. Front(f.backup) \in Seq(Entry(m))
  BY <1>1 DEF Front
<1>. QED
  BY <1>2 DEF Frame

\* The fields of a rewound frame.
LEMMA RewindFields ==
    ASSUME NEW m, NEW f \in Frame(m), NEW b
    PROVE  /\ Rewind(f, b).it = b.pos /\ Rewind(f, b).program = b.prog
           /\ Rewind(f, b).backup = f.backup
BY DEF Rewind, Frame

\* The candidate is an entry, and rewinding to it keeps a frame well typed.
LEMMA RewindType ==
    ASSUME NEW m \in Managers, NEW f \in Frame(m), ~Exhausted(f)
    PROVE  /\ Candidate(f) \in Entry(m)
           /\ Rewind(f, Candidate(f)) \in Frame(m)
<1>1. f.backup \in Seq(Entry(m)) /\ f.backup # << >>
  BY DEF Frame, Exhausted
<1>2. Candidate(f) \in Entry(m)
  BY <1>1 DEF Candidate, Last
<1>3. Candidate(f).pos \in 1 .. Len(Passes[m]) + 1 /\ Candidate(f).prog \in MaybeProgram
  BY <1>2, TreeAssumption DEF Entry, Pos, MaybeProgram
<1>. QED
  BY <1>2, <1>3 DEF Rewind, Frame

-----------------------------------------------------------------------------
(* Type correctness.                                                         *)

\* The type invariant holds initially.
LEMMA TypeInit == Init => TypeInv
<1> SUFFICES ASSUME Init PROVE TypeInv
  OBVIOUS
<1>1. ASSUME NEW m \in Managers PROVE frame[m] \in Frame(m)
  <2>1. errors \in Nat
    BY DEF Init
  <2>2. PICK prog \in Program :
           frame = [k \in Managers |-> Round(k, IF k = Root THEN prog ELSE Null, 0, 0)]
    BY DEF Init
  <2>3. (IF m = Root THEN prog ELSE Null) \in MaybeProgram
    BY DEF MaybeProgram
  <2>. QED
    BY <2>1, <2>2, <2>3, RoundType
<1>2. frame = [m \in Managers |-> frame[m]]
  BY DEF Init
<1>3. TypeOK
  BY <1>1, <1>2, TreeAssumption DEF Init, TypeOK
<1>4. PathOK
  BY DEF Init, PathOK
<1>. QED
  BY <1>3, <1>4 DEF TypeInv

\* At a pass the position is in the list and the program is not null.
LEMMA AtPassFacts ==
    ASSUME TypeOK, NEW m \in Managers, AtPass(m)
    PROVE  /\ focus = m /\ mode = "run"
           /\ frame[m] \in Frame(m)
           /\ frame[m].it \in Pos(m)
           /\ frame[m].program \in Program
           /\ Invoked(m, frame[m]) \in Frame(m)
           /\ Invoked(m, frame[m]).it = frame[m].it
<1>1. frame[m] \in Frame(m)
  BY DEF TypeOK
<1>2. Len(Passes[m]) \in Nat
  BY TreeAssumption
<1>3. frame[m].it \in Pos(m) /\ frame[m].program \in Program
  BY <1>1, <1>2 DEF AtPass, Frame, End, Pos, MaybeProgram
<1>. QED
  BY <1>1, <1>3, InvokedType DEF AtPass, Running

\* Invoking the pass of m, with early_exit() called on X meanwhile.
LEMMA InvokedFrames ==
    ASSUME TypeOK, NEW m \in Managers, AtPass(m), NEW X
    PROVE  LET fr == WithEarlyExit([frame EXCEPT ![m] = Invoked(m, @)], X)
           IN  /\ fr = [k \in Managers |-> fr[k]]
               /\ \A k \in Managers : fr[k] \in Frame(k) /\ fr[k].it = frame[k].it
<1>1. frame = [k \in Managers |-> frame[k]]
  BY DEF TypeOK
<1>2. Invoked(m, frame[m]) \in Frame(m) /\ Invoked(m, frame[m]).it = frame[m].it
  BY AtPassFacts
<1> DEFINE g == [frame EXCEPT ![m] = Invoked(m, @)]
<1>3. \A k \in Managers : g[k] \in Frame(k) /\ g[k].it = frame[k].it
  BY <1>1, <1>2 DEF TypeOK
<1> HIDE DEF g
<1>4. ASSUME NEW k \in Managers
      PROVE  WithEarlyExit(g, X)[k] \in Frame(k) /\ WithEarlyExit(g, X)[k].it = g[k].it
  <2>1. g[k] \in Frame(k)
    BY <1>3
  <2>2. /\ WithEarlyExit(g, X)[k] \in Frame(k)
        /\ WithEarlyExit(g, X)[k] \in {g[k], [g[k] EXCEPT !.early = TRUE]}
    BY <2>1, EarlyExitFrame
  <2>3. [g[k] EXCEPT !.early = TRUE].it = g[k].it
    BY <2>1 DEF Frame
  <2>. QED
    BY <2>2, <2>3
<1>5. WithEarlyExit(g, X) = [k \in Managers |-> WithEarlyExit(g, X)[k]]
  BY DEF WithEarlyExit
<1>. QED
  BY <1>3, <1>4, <1>5 DEF g

\* A pass that returns keeps the types, and the stack a path.
LEMMA TypeLeafReturns ==
    ASSUME TypeInv, NEW m \in Managers, LeafReturns(m) PROVE TypeInv'
<1> USE DEF TypeInv
<1>1. PICK prog \in MaybeProgram, e \in {0, 1}, X \in ExitCalls :
         LET fr == WithEarlyExit([frame EXCEPT ![m] = Invoked(m, @)], X)
         IN  /\ errors' = errors + e
             /\ frame' = [fr EXCEPT ![m] = Completed(m, @, prog, errors + e)]
  BY DEF LeafReturns
<1>2. /\ AtPass(m) /\ errors \in Nat /\ errors + e \in Nat
      /\ focus = m /\ mode = "run" /\ frame[m].it \in Pos(m)
  BY AtPassFacts DEF LeafReturns, TypeOK
<1> DEFINE fr == WithEarlyExit([frame EXCEPT ![m] = Invoked(m, @)], X)
<1>3. /\ fr = [k \in Managers |-> fr[k]]
      /\ \A k \in Managers : fr[k] \in Frame(k) /\ fr[k].it = frame[k].it
  BY <1>2, InvokedFrames
<1>4. frame' = [fr EXCEPT ![m] = Completed(m, fr[m], prog, errors + e)]
  BY <1>1
<1>5. Completed(m, fr[m], prog, errors + e) \in Frame(m)
  BY <1>2, <1>3, CompletedType
<1>6. \A k \in Managers : frame'[k] \in Frame(k) /\ (k # m => frame'[k].it = frame[k].it)
  BY <1>3, <1>4, <1>5
<1>7. frame' = [k \in Managers |-> frame'[k]]
  BY <1>3, <1>4
<1>8. TypeOK'
  BY <1>1, <1>2, <1>6, <1>7 DEF TypeOK, LeafReturns
<1>9. PathOK'
  <2>1. UNCHANGED <<active, focus, mode>>
    BY DEF LeafReturns
  <2>2. active \subseteq Managers /\ \A k \in active \ {Root} : Parent[k] \in active /\ Parent[k] # m
    BY <1>2 DEF PathOK, TypeOK
  <2>3. \A k \in active \ {Root} : frame'[Parent[k]].it = frame[Parent[k]].it
    BY <1>6, <2>2
  <2>. HIDE DEF fr
  <2>. QED
    BY <1>2, <2>1, <2>2, <2>3 DEF PathOK
<1>. QED
  BY <1>8, <1>9

\* So does a pass that throws,
LEMMA TypeLeafThrows ==
    ASSUME TypeInv, NEW m \in Managers, LeafThrows(m) PROVE TypeInv'
<1> USE DEF TypeInv
<1>1. PICK t \in Triggers, e \in {0, 1}, X \in ExitCalls :
         /\ errors' = errors + e
         /\ frame' = WithEarlyExit([frame EXCEPT ![m] = Invoked(m, @)], X)
         /\ trig' = t
  BY DEF LeafThrows
<1>2. /\ AtPass(m) /\ errors + e \in Nat /\ throws + 1 \in Nat
      /\ focus = m /\ mode = "run" /\ frame[m].it \in Pos(m)
  BY AtPassFacts DEF LeafThrows, TypeOK
<1>3. /\ frame' = [k \in Managers |-> frame'[k]]
      /\ \A k \in Managers : frame'[k] \in Frame(k) /\ frame'[k].it = frame[k].it
  BY <1>1, <1>2, InvokedFrames
<1>4. origin' \in Nat
  BY <1>2 DEF LeafThrows, Pos
<1>5. throws' \in Nat
  BY <1>2 DEF LeafThrows
<1>6. TypeOK'
  BY <1>1, <1>2, <1>3, <1>4, <1>5 DEF TypeOK, LeafThrows
<1>7. PathOK'
  BY <1>2, <1>3, TreeAssumption DEF PathOK, LeafThrows, TypeOK
<1>. QED
  BY <1>6, <1>7

\* entering a nested manager, which makes the path one longer,
LEMMA TypeEnterManager ==
    ASSUME TypeInv, NEW m \in Managers, EnterManager(m) PROVE TypeInv'
<1> USE DEF TypeInv
<1> DEFINE c == Current(m)
<1>1. /\ AtPass(m) /\ c \in Managers
      /\ frame' = [frame EXCEPT ![m] = Invoked(m, @), ![c] = Round(c, frame[m].program, 0, errors)]
      /\ active' = active \union {c} /\ focus' = c
      /\ running' = SetRunning(c)
  BY DEF EnterManager
<1>2. /\ focus = m /\ mode = "run" /\ frame[m] \in Frame(m) /\ frame[m].it \in Pos(m)
      /\ frame[m].program \in MaybeProgram /\ errors \in Nat
      /\ Invoked(m, frame[m]) \in Frame(m) /\ Invoked(m, frame[m]).it = frame[m].it
  BY <1>1, AtPassFacts DEF TypeOK, MaybeProgram
<1>3. c = Passes[m][frame[m].it]
  BY DEF Current
<1>4. /\ c # m /\ c # Root /\ Parent[c] = m
  BY <1>1, <1>2, <1>3, TreeAssumption
<1>5. Round(c, frame[m].program, 0, errors) \in Frame(c)
  BY <1>1, <1>2, RoundType
<1> HIDE DEF c
<1>6. /\ frame' = [k \in Managers |-> frame'[k]]
      /\ \A k \in Managers : frame'[k] \in Frame(k)
      /\ \A k \in Managers \ {c} : frame'[k].it = frame[k].it
  BY <1>1, <1>2, <1>4, <1>5 DEF TypeOK
<1>7. TypeOK'
  BY <1>1, <1>6 DEF TypeOK, EnterManager, SetRunning
<1>8. PathOK'
  <2>1. c \notin active
    BY <1>2, <1>4 DEF PathOK
  <2>2. \A k \in active' \ {Root} : Parent[k] # c
    BY <1>1, <1>4, <2>1 DEF PathOK
  <2>3. m \in active
    BY <1>2 DEF PathOK
  <2>4. \A k \in active' \ {Root} :
           /\ Parent[k] \in active'
           /\ frame'[Parent[k]].it \in Pos(Parent[k])
           /\ Passes[Parent[k]][frame'[Parent[k]].it] = k
    <3> SUFFICES ASSUME NEW k \in active' \ {Root}
                 PROVE  /\ Parent[k] \in active'
                        /\ frame'[Parent[k]].it \in Pos(Parent[k])
                        /\ Passes[Parent[k]][frame'[Parent[k]].it] = k
      OBVIOUS
    <3>1. frame'[m].it = frame[m].it
      BY <1>4, <1>6
    <3>2. CASE k = c
      BY <3>1, <3>2, <1>1, <1>2, <1>3, <1>4, <2>3
    <3>3. CASE k # c
      <4>1. k \in active \ {Root} /\ Parent[k] \in active /\ Parent[k] # c
        BY <1>1, <3>3, <2>2 DEF PathOK
      <4>2. frame'[Parent[k]].it = frame[Parent[k]].it
        BY <4>1, <1>6 DEF TypeOK
      <4>. QED
        BY <1>1, <4>1, <4>2 DEF PathOK
    <3>. QED
      BY <3>2, <3>3
  <2>. QED
    BY <1>1, <1>2, <2>2, <2>4 DEF PathOK, EnterManager
<1>. QED
  BY <1>7, <1>8

\* a conditional group that is skipped,
LEMMA TypeSkipManager ==
    ASSUME TypeInv, NEW m \in Managers, SkipManager(m) PROVE TypeInv'
<1> USE DEF TypeInv
<1>1. /\ AtPass(m) /\ Current(m) \in Managers
      /\ frame' = [frame EXCEPT ![m] = Completed(m, Invoked(m, @), frame[m].program, errors)]
      /\ running' = SetRunning(Current(m))
  BY DEF SkipManager
<1>2. /\ focus = m /\ mode = "run" /\ frame[m].it \in Pos(m)
      /\ frame[m].program \in MaybeProgram /\ errors \in Nat
      /\ Invoked(m, frame[m]) \in Frame(m) /\ Invoked(m, frame[m]).it = frame[m].it
  BY <1>1, AtPassFacts DEF TypeOK, MaybeProgram
<1>3. Completed(m, Invoked(m, frame[m]), frame[m].program, errors) \in Frame(m)
  BY <1>2, CompletedType
<1>4. /\ frame' = [k \in Managers |-> frame'[k]]
      /\ \A k \in Managers : frame'[k] \in Frame(k)
      /\ \A k \in Managers \ {m} : frame'[k].it = frame[k].it
  BY <1>1, <1>3 DEF TypeOK
<1>5. TypeOK'
  BY <1>1, <1>4 DEF TypeOK, SkipManager, SetRunning
<1>6. PathOK'
  BY <1>2, <1>4, TreeAssumption DEF PathOK, SkipManager, TypeOK
<1>. QED
  BY <1>5, <1>6

\* a loop that finds a null program,
LEMMA TypeNullProgram ==
    ASSUME TypeInv, NEW m \in Managers, NullProgram(m) PROVE TypeInv'
  BY DEF TypeInv, TypeOK, PathOK, NullProgram

\* the end of a loop,
LEMMA TypeEndLoop ==
    ASSUME TypeInv, NEW m \in Managers, EndLoop(m) PROVE TypeInv'
<1>1. TypeOK'
  BY DEF TypeInv, TypeOK, EndLoop
<1>2. PathOK'
  BY DEF TypeInv, PathOK, EndLoop
<1>. QED
  BY <1>1, <1>2 DEF TypeInv

\* A result handed back to the parent, or to the caller of Root.
LEMMA TypeReturn ==
    ASSUME TypeInv, NEW m \in Managers, AtEnd(m),
           NEW prog \in MaybeProgram, ReturnFrom(m, prog)
    PROVE  TypeInv'
<1> USE DEF TypeInv
<1>1. /\ focus = m /\ mode = "run" /\ m \in active /\ errors \in Nat
      /\ running' = running /\ active' = active \ {m}
  BY DEF AtEnd, Running, PathOK, ReturnFrom, TypeOK
<1>2. CASE m = Root
  <2>1. mode' = "done" /\ UNCHANGED <<frame, focus, errors, trig, origin, throws>>
    BY <1>2 DEF ReturnFrom
  <2>. QED
    BY <1>1, <1>2, <2>1 DEF TypeOK, PathOK
<1>3. CASE m # Root
  <2> DEFINE p == Parent[m]
  <2>1. /\ focus' = p /\ UNCHANGED <<mode, errors, trig, origin, throws>>
        /\ frame' = [frame EXCEPT ![p] = Completed(p, @, prog, errors)]
    BY <1>3 DEF ReturnFrom
  <2>2. /\ p \in active /\ p \in Managers /\ frame[p] \in Frame(p)
        /\ frame[p].it \in Pos(p) /\ Passes[p][frame[p].it] = m
    BY <1>1, <1>3 DEF PathOK, TypeOK
  <2>3. p # m
    BY <2>2, TreeAssumption
  <2> HIDE DEF p
  <2>4. Completed(p, frame[p], prog, errors) \in Frame(p)
    BY <1>1, <2>2, CompletedType
  <2>5. /\ frame' = [k \in Managers |-> frame'[k]]
        /\ \A k \in Managers : frame'[k] \in Frame(k)
        /\ \A k \in Managers \ {p} : frame'[k].it = frame[k].it
    BY <2>1, <2>4 DEF TypeOK
  <2>6. TypeOK'
    BY <1>1, <2>1, <2>2, <2>5 DEF TypeOK
  <2>7. \A k \in active' \ {Root} : Parent[k] # p
    BY <1>1, <2>2 DEF PathOK
  <2>8. \A k \in active' \ {Root} : Parent[k] # m
    BY <1>1 DEF PathOK
  <2>9. PathOK'
    BY <1>1, <2>1, <2>2, <2>3, <2>5, <2>7, <2>8, TreeAssumption DEF PathOK, TypeOK
  <2>. QED
    BY <2>6, <2>9
<1>. QED
  BY <1>2, <1>3

\* Another round of a repeated manager.
LEMMA TypeNextRound ==
    ASSUME TypeInv, NEW m \in Managers, AtEnd(m), NEW r \in Nat, NextRound(m, r)
    PROVE  TypeInv'
<1> USE DEF TypeInv
<1>1. /\ focus = m /\ mode = "run" /\ errors \in Nat /\ frame[m] \in Frame(m)
      /\ frame' = [frame EXCEPT ![m] = Round(m, frame[m].program, r, frame[m].applyBase)]
  BY DEF AtEnd, Running, TypeOK, NextRound
<1>2. frame[m].program \in MaybeProgram /\ frame[m].applyBase \in Nat
  BY <1>1 DEF Frame
<1>3. Round(m, frame[m].program, r, frame[m].applyBase) \in Frame(m)
  BY <1>1, <1>2, RoundType
<1>4. /\ frame' = [k \in Managers |-> frame'[k]]
      /\ \A k \in Managers : frame'[k] \in Frame(k)
      /\ \A k \in Managers \ {m} : frame'[k].it = frame[k].it
  BY <1>1, <1>3 DEF TypeOK
<1>5. TypeOK'
  BY <1>4 DEF TypeOK, NextRound, SetRunning
<1>6. PathOK'
  BY <1>1, <1>4, TreeAssumption DEF PathOK, NextRound, TypeOK
<1>. QED
  BY <1>5, <1>6

\* what follows the loop: another round, or the return to the parent,
LEMMA TypeFinish ==
    ASSUME TypeInv, NEW m \in Managers, FinishOnce(m) \/ FinishRepeated(m) \/ FinishUntil(m)
    PROVE  TypeInv'
<1>1. AtEnd(m) /\ frame[m] \in Frame(m)
  BY DEF FinishOnce, FinishRepeated, FinishUntil, LoopEnded, TypeInv, TypeOK
<1>2. frame[m].program \in MaybeProgram /\ frame[m].start \in MaybeProgram
  BY <1>1 DEF Frame
<1>3. RoundsAfter(m) \in Nat
  BY <1>1 DEF RoundsAfter, Frame
<1>4. \/ ReturnFrom(m, frame[m].program) \/ ReturnFrom(m, frame[m].start)
      \/ NextRound(m, RoundsAfter(m)) \/ NextRound(m, 0)
  BY DEF FinishOnce, FinishRepeated, FinishUntil
<1>. QED
  BY <1>1, <1>2, <1>3, <1>4, TypeReturn, TypeNextRound

\* discarding a backup entry,
LEMMA TypePopEntry ==
    ASSUME TypeInv, NEW m \in Managers, PopEntry(m) PROVE TypeInv'
<1> USE DEF TypeInv
<1>1. /\ focus = m /\ mode = "unwind" /\ frame[m] \in Frame(m) /\ frame[m].backup # << >>
      /\ frame' = [frame EXCEPT ![m].backup = Front(@)]
  BY DEF PopEntry, Unwinding, Exhausted, TypeOK
<1>2. [frame[m] EXCEPT !.backup = Front(@)] \in Frame(m)
  BY <1>1, FrontType
<1>3. [frame[m] EXCEPT !.backup = Front(@)].it = frame[m].it
  BY <1>1 DEF Frame
<1>4. frame' = [frame EXCEPT ![m] = [frame[m] EXCEPT !.backup = Front(@)]]
  BY <1>1
<1>5. /\ frame' = [k \in Managers |-> frame'[k]]
      /\ \A k \in Managers : frame'[k] \in Frame(k) /\ frame'[k].it = frame[k].it
  BY <1>2, <1>3, <1>4 DEF TypeOK
<1>6. TypeOK'
  BY <1>5 DEF TypeOK, PopEntry
<1>7. PathOK'
  BY <1>1, <1>5, TreeAssumption DEF PathOK, PopEntry, TypeOK
<1>. QED
  BY <1>6, <1>7

\* moving to a candidate,
LEMMA TypeAskHandler ==
    ASSUME TypeInv, NEW m \in Managers, AskHandler(m) PROVE TypeInv'
<1> USE DEF TypeInv
<1> DEFINE b == Candidate(frame[m])
<1>1. /\ focus = m /\ mode = "unwind" /\ frame[m] \in Frame(m) /\ ~Exhausted(frame[m])
      /\ frame' = [frame EXCEPT ![m] = Rewind(@, b)]
      /\ mode' \in {"run", "unwind"}
  BY DEF AskHandler, Unwinding, TypeOK
<1>2. /\ b \in Entry(m) /\ Rewind(frame[m], b) \in Frame(m)
  BY <1>1, RewindType
<1>3. Rewind(frame[m], b).it = b.pos /\ b.pos \in Pos(m)
  BY <1>1, <1>2 DEF Rewind, Frame, Entry
<1> HIDE DEF b
<1>4. /\ frame' = [k \in Managers |-> frame'[k]]
      /\ \A k \in Managers : frame'[k] \in Frame(k)
      /\ \A k \in Managers \ {m} : frame'[k].it = frame[k].it
      /\ frame'[m].it \in Pos(m)
  BY <1>1, <1>2, <1>3 DEF TypeOK
<1>5. TypeOK'
  BY <1>1, <1>4 DEF TypeOK, AskHandler
<1>6. PathOK'
  BY <1>1, <1>4, TreeAssumption DEF PathOK, AskHandler, TypeOK
<1>. QED
  BY <1>5, <1>6

\* and an exception that leaves a manager.
LEMMA TypeRethrow ==
    ASSUME TypeInv, NEW m \in Managers, Rethrow(m) PROVE TypeInv'
<1> USE DEF TypeInv
<1>1. /\ focus = m /\ mode = "unwind" /\ m \in active /\ active' = active \ {m}
      /\ UNCHANGED <<frame, running, errors, trig, throws>>
  BY DEF Rethrow, Unwinding, PathOK
<1>2. CASE m = Root
  BY <1>1, <1>2 DEF Rethrow, TypeOK, PathOK
<1>3. CASE m # Root
  <2> DEFINE p == Parent[m]
  <2>1. /\ p \in active /\ p \in Managers /\ frame[p].it \in Pos(p) /\ Passes[p][frame[p].it] = m
        /\ focus' = p /\ origin' = frame[p].it /\ mode' = mode
    BY <1>1, <1>3 DEF PathOK, TypeOK, Rethrow
  <2>2. p # m
    BY <2>1, TreeAssumption
  <2>3. origin' \in Nat
    BY <2>1 DEF Pos
  <2> HIDE DEF p
  <2>4. TypeOK'
    BY <1>1, <2>1, <2>3 DEF TypeOK
  <2>5. /\ \A k \in active' \ {Root} : Parent[k] # p
        /\ \A k \in active' \ {Root} : Parent[k] # m
    BY <1>1, <2>1 DEF PathOK
  <2>6. PathOK'
    BY <1>1, <2>1, <2>2, <2>5 DEF PathOK
  <2>. QED
    BY <2>4, <2>6
<1>. QED
  BY <1>2, <1>3

\* Types and the path are invariant.
LEMMA TypeStep == TypeInv /\ [Next]_vars => TypeInv'
<1> SUFFICES ASSUME TypeInv, [Next]_vars PROVE TypeInv'
  OBVIOUS
<1>1. CASE UNCHANGED vars
  BY <1>1 DEF vars, TypeInv, TypeOK, PathOK
<1>2. ASSUME NEW m \in Managers, Step(m) PROVE TypeInv'
  BY <1>2, TypeLeafReturns, TypeLeafThrows, TypeEnterManager, TypeSkipManager,
     TypeNullProgram, TypeEndLoop, TypeFinish, TypePopEntry, TypeAskHandler,
     TypeRethrow DEF Step
<1>. QED
  BY <1>1, <1>2 DEF Next

(***************************************************************************)
(* Every state of the pass manager is well typed, and the managers on the  *)
(* C++ stack are a path of the tree of passes.                             *)
(***************************************************************************)
THEOREM TypeCorrect == Spec => [](TypeOK /\ PathOK)
  BY TypeInit, TypeStep, PTL DEF Spec, TypeInv

-----------------------------------------------------------------------------
(* The BUG_CHECK on running.                                                 *)

\* A position in the list of passes is not the end of the list.
LEMMA PosNotEnd == ASSUME NEW m \in Managers, NEW i \in Pos(m) PROVE i # End(m)
<1>1. Len(Passes[m]) \in Nat
  BY TreeAssumption
<1>. QED
  BY <1>1 DEF Pos, End

\* The end of a loop clears the flag of a manager that is past its last pass.
LEMMA RunningEndLoop ==
    ASSUME TypeInv, RunningInEveryRound, NEW m \in Managers, EndLoop(m)
    PROVE  RunningInEveryRound'
<1> SUFFICES ASSUME NEW k \in active', frame'[k].it # End(k) PROVE running'[k]
  BY DEF RunningInEveryRound
<1>1. /\ active' = active /\ frame' = frame /\ frame[m].it = End(m)
      /\ running' = [running EXCEPT ![m] = FALSE]
  BY DEF EndLoop, AtEnd
<1>2. k # m /\ k \in Managers /\ running \in [Managers -> BOOLEAN]
  BY <1>1 DEF TypeInv, TypeOK
<1>3. running[k]
  BY <1>1 DEF RunningInEveryRound
<1>. QED
  BY <1>1, <1>2, <1>3

\* Another round sets it again.
LEMMA RunningNextRound ==
    ASSUME TypeInv, RunningInEveryRound, NEW m \in Managers, NEW r, NextRound(m, r)
    PROVE  RunningInEveryRound'
<1> SUFFICES ASSUME NEW k \in active', frame'[k].it # End(k) PROVE running'[k]
  BY DEF RunningInEveryRound
<1>1. /\ active' = active /\ active \subseteq Managers /\ running \in [Managers -> BOOLEAN]
      /\ running' = [running EXCEPT ![m] = TRUE]
  BY DEF NextRound, SetRunning, TypeInv, TypeOK
<1>2. frame' = [frame EXCEPT ![m] = Round(m, frame[m].program, r, frame[m].applyBase)]
  BY DEF NextRound
<1>3. CASE k = m
  BY <1>1, <1>3
<1>4. CASE k # m
  <2>1. frame'[k] = frame[k]
    BY <1>1, <1>2, <1>4 DEF TypeInv, TypeOK
  <2>2. running[k]
    BY <1>1, <2>1 DEF RunningInEveryRound
  <2>. QED
    BY <1>1, <1>4, <2>2
<1>. QED
  BY <1>3, <1>4

\* A manager that returns leaves its parent where it was: inside its list.
LEMMA RunningReturn ==
    ASSUME TypeInv, RunningInEveryRound, NEW m \in Managers, AtEnd(m), NEW prog,
           ReturnFrom(m, prog)
    PROVE  RunningInEveryRound'
<1> SUFFICES ASSUME NEW k \in active', frame'[k].it # End(k) PROVE running'[k]
  BY DEF RunningInEveryRound
<1>1. /\ k \in active /\ k \in Managers /\ running' = running
      /\ focus = m /\ mode = "run" /\ m \in active
  BY DEF ReturnFrom, AtEnd, Running, TypeInv, TypeOK, PathOK
<1>2. CASE m = Root
  <2>1. frame' = frame
    BY <1>2 DEF ReturnFrom
  <2>. QED
    BY <1>1, <2>1 DEF RunningInEveryRound
<1>3. CASE m # Root
  <2> DEFINE p == Parent[m]
  <2>1. frame' = [frame EXCEPT ![p] = Completed(p, @, prog, errors)]
    BY <1>3 DEF ReturnFrom
  <2>2. p \in active /\ p \in Managers /\ frame[p].it \in Pos(p)
    BY <1>1, <1>3 DEF TypeInv, TypeOK, PathOK
  <2> HIDE DEF p
  <2>3. running[p]
    BY <2>2, PosNotEnd DEF RunningInEveryRound
  <2>4. CASE k = p
    BY <1>1, <2>3, <2>4
  <2>5. CASE k # p
    <3>1. frame'[k] = frame[k]
      BY <1>1, <2>1, <2>5 DEF TypeInv, TypeOK
    <3>. QED
      BY <1>1, <3>1 DEF RunningInEveryRound
  <2>. QED
    BY <2>4, <2>5
<1>. QED
  BY <1>2, <1>3

\* A nested manager is entered with its own flag set; the position of every
\* other manager, the parent's included, is where it was.
LEMMA RunningEnter ==
    ASSUME TypeInv, RunningInEveryRound, NEW m \in Managers, EnterManager(m)
    PROVE  RunningInEveryRound'
<1> SUFFICES ASSUME NEW k \in active', frame'[k].it # End(k) PROVE running'[k]
  BY DEF RunningInEveryRound
<1> DEFINE c == Current(m)
<1>1. /\ AtPass(m) /\ c \in Managers /\ active' = active \union {c}
      /\ frame' = [frame EXCEPT ![m] = Invoked(m, @),
                                ![c] = Round(c, frame[m].program, 0, errors)]
      /\ running' = [running EXCEPT ![c] = TRUE]
  BY DEF EnterManager, SetRunning
<1>2. /\ running \in [Managers -> BOOLEAN] /\ active \subseteq Managers
      /\ frame = [j \in Managers |-> frame[j]] /\ TypeOK
  BY DEF TypeInv, TypeOK
<1>3. Invoked(m, frame[m]).it = frame[m].it
  BY <1>1, <1>2, AtPassFacts
<1> HIDE DEF c
<1>4. CASE k = c
  BY <1>1, <1>2, <1>4
<1>5. CASE k # c
  <2>1. k \in active /\ k \in Managers
    BY <1>1, <1>2, <1>5
  <2>2. frame'[k].it = frame[k].it
    BY <1>1, <1>2, <1>3, <1>5, <2>1
  <2>3. running[k]
    BY <2>1, <2>2 DEF RunningInEveryRound
  <2>. QED
    BY <1>1, <1>2, <1>5, <2>1, <2>3
<1>. QED
  BY <1>4, <1>5

\* A step of the focus that leaves the flags alone: the focus was inside its
\* list of passes, so its flag was set and still is.
LEMMA RunningInside ==
    ASSUME TypeInv, RunningInEveryRound, NEW m \in Managers, frame[m].it \in Pos(m),
           active' \subseteq active, running' = running,
           \A k \in active \ {m} : frame'[k].it = frame[k].it
    PROVE  RunningInEveryRound'
<1> SUFFICES ASSUME NEW k \in active', frame'[k].it # End(k) PROVE running'[k]
  BY DEF RunningInEveryRound
<1>1. CASE k = m
  BY <1>1, PosNotEnd DEF RunningInEveryRound
<1>2. CASE k # m
  BY <1>2 DEF RunningInEveryRound
<1>. QED
  BY <1>1, <1>2

\* What a pass does, and a skipped conditional group.
LEMMA RunningPass ==
    ASSUME TypeInv, RunningInEveryRound, NEW m \in Managers,
           LeafReturns(m) \/ LeafThrows(m) \/ SkipManager(m)
    PROVE  RunningInEveryRound'
<1>1. AtPass(m) /\ active' = active /\ active \subseteq Managers /\ TypeOK
  BY DEF LeafReturns, LeafThrows, SkipManager, TypeInv, TypeOK
<1>2. frame[m].it \in Pos(m) /\ frame = [k \in Managers |-> frame[k]]
  BY <1>1, AtPassFacts DEF TypeOK
<1>3. CASE LeafReturns(m)
  <2>1. PICK prog \in MaybeProgram, e \in {0, 1}, X \in ExitCalls :
           LET fr == WithEarlyExit([frame EXCEPT ![m] = Invoked(m, @)], X)
           IN  frame' = [fr EXCEPT ![m] = Completed(m, @, prog, errors + e)]
    BY <1>3 DEF LeafReturns
  <2> DEFINE fr == WithEarlyExit([frame EXCEPT ![m] = Invoked(m, @)], X)
  <2>2. fr = [k \in Managers |-> fr[k]] /\ \A k \in Managers : fr[k].it = frame[k].it
    BY <1>1, InvokedFrames
  <2>3. frame' = [fr EXCEPT ![m] = Completed(m, fr[m], prog, errors + e)]
    BY <2>1
  <2> HIDE DEF fr
  <2>4. \A k \in active \ {m} : frame'[k].it = frame[k].it
    BY <1>1, <2>2, <2>3
  <2>5. running' = running
    BY <1>3 DEF LeafReturns
  <2>. QED
    BY <1>1, <1>2, <2>4, <2>5, RunningInside
<1>4. CASE LeafThrows(m)
  <2>1. PICK X \in ExitCalls : frame' = WithEarlyExit([frame EXCEPT ![m] = Invoked(m, @)], X)
    BY <1>4 DEF LeafThrows
  <2>2. \A k \in active \ {m} : frame'[k].it = frame[k].it
    BY <1>1, <2>1, InvokedFrames
  <2>3. running' = running
    BY <1>4 DEF LeafThrows
  <2>. QED
    BY <1>1, <1>2, <2>2, <2>3, RunningInside
<1>5. CASE SkipManager(m)
  <2> SUFFICES ASSUME NEW k \in active', frame'[k].it # End(k) PROVE running'[k]
    BY DEF RunningInEveryRound
  <2>1. /\ Current(m) \in Managers /\ running' = [running EXCEPT ![Current(m)] = TRUE]
        /\ frame' = [frame EXCEPT ![m] = Completed(m, Invoked(m, @), frame[m].program, errors)]
    BY <1>5 DEF SkipManager, SetRunning
  <2>2. k \in active /\ k \in Managers /\ running \in [Managers -> BOOLEAN]
    BY <1>1 DEF TypeInv, TypeOK
  <2>3. running[k]
    <3>1. CASE k = m
      BY <1>2, <2>2, <3>1, PosNotEnd DEF RunningInEveryRound
    <3>2. CASE k # m
      <4>1. frame'[k] = frame[k]
        BY <1>2, <2>1, <2>2, <3>2
      <4>. QED
        BY <2>2, <4>1 DEF RunningInEveryRound
    <3>. QED
      BY <3>1, <3>2
  <2>. QED
    BY <2>1, <2>2, <2>3
<1>. QED
  BY <1>3, <1>4, <1>5

\* The catch block moves the focus within its list, or leaves the manager.
LEMMA RunningCatch ==
    ASSUME TypeInv, RunningInEveryRound, NEW m \in Managers,
           PopEntry(m) \/ AskHandler(m) \/ Rethrow(m)
    PROVE  RunningInEveryRound'
<1>1. frame[m].it \in Pos(m) /\ active \subseteq Managers /\ frame = [k \in Managers |-> frame[k]]
  BY DEF PopEntry, AskHandler, Rethrow, Unwinding, TypeInv, TypeOK, PathOK
<1>2. active' \subseteq active /\ running' = running
  BY DEF PopEntry, AskHandler, Rethrow
<1>3. \A k \in active \ {m} : frame'[k].it = frame[k].it
  BY <1>1 DEF PopEntry, AskHandler, Rethrow
<1>. QED
  BY <1>1, <1>2, <1>3, RunningInside

\* running is set again before every round.
LEMMA RunningStep == TypeInv /\ RunningInEveryRound /\ [Next]_vars => RunningInEveryRound'
<1> SUFFICES ASSUME TypeInv, RunningInEveryRound, [Next]_vars PROVE RunningInEveryRound'
  OBVIOUS
<1>1. CASE UNCHANGED vars
  BY <1>1 DEF vars, RunningInEveryRound
<1>2. ASSUME NEW m \in Managers, NullProgram(m) PROVE RunningInEveryRound'
  BY <1>2 DEF NullProgram, RunningInEveryRound
<1>3. ASSUME NEW m \in Managers, FinishOnce(m) \/ FinishRepeated(m) \/ FinishUntil(m)
      PROVE  RunningInEveryRound'
  <2>1. AtEnd(m)
    BY <1>3 DEF FinishOnce, FinishRepeated, FinishUntil, LoopEnded
  <2>2. \/ ReturnFrom(m, frame[m].program) \/ ReturnFrom(m, frame[m].start)
        \/ NextRound(m, RoundsAfter(m)) \/ NextRound(m, 0)
    BY <1>3 DEF FinishOnce, FinishRepeated, FinishUntil
  <2>. QED
    BY <2>1, <2>2, RunningReturn, RunningNextRound
<1>4. ASSUME NEW m \in Managers, Step(m) PROVE RunningInEveryRound'
  BY <1>2, <1>3, <1>4, RunningPass, RunningEnter, RunningEndLoop, RunningCatch DEF Step
<1>. QED
  BY <1>1, <1>4 DEF Next

(***************************************************************************)
(* BUG_CHECK(running, "not calling apply properly") never fires: each round*)
(* clears the flag, and whoever starts a round has set it again.  It rests *)
(* on the stack being a path: a manager that is not the innermost, or that *)
(* unwinds, is inside its list of passes, where its flag is still set.     *)
(***************************************************************************)
THEOREM RunningTheorem == Spec => []RunningInEveryRound
<1>1. Init => RunningInEveryRound
  <2> SUFFICES ASSUME Init PROVE running[Root]
    BY DEF Init, RunningInEveryRound
  <2>. QED
    BY TreeAssumption, Zenon DEF Init
<1>. QED
  BY <1>1, TypeInit, TypeStep, RunningStep, PTL DEF Spec

-----------------------------------------------------------------------------
(* The backup stacks.                                                        *)

BackupOK(m, f) == Covers(m, f) /\ Ordered(f) /\ RestoresInput(f)

\* A pass that is on the stack already is about to be invoked with what it
\* was given before.
Resumable(f) == f.it \in Saved(f) => f.program = f.given[f.it]

SavedHere(m, f) == CanCatch(Passes[m][f.it]) => f.it \in Saved(f)

(***************************************************************************)
(* The strengthening: also while the catch block runs, and for the         *)
(* managers that wait for a nested one, the stack holds what is needed.    *)
(***************************************************************************)
BackupInv ==
    /\ \A m \in active : BackupOK(m, frame[m])
    /\ \A m \in active \ {focus} : SavedHere(m, frame[m])
    /\ mode = "run" => Resumable(frame[focus])
    /\ mode = "unwind" =>
          /\ frame[focus].it <= origin
          /\ \A i \in frame[focus].it .. origin - 1 : ~Accepts(Passes[focus][i], trig)

\* A round begins with an empty stack.
LEMMA RoundBackup ==
    ASSUME NEW m \in Managers, NEW prog, NEW r, NEW base
    PROVE  BackupOK(m, Round(m, prog, r, base)) /\ Resumable(Round(m, prog, r, base))
  BY DEF BackupOK, Covers, Ordered, RestoresInput, Resumable, Saved, Round, Pos

\* What Save does to the stack, entry by entry.
LEMMA SaveEntries ==
    ASSUME NEW m \in Managers, NEW f \in Frame(m), f.it \in Pos(m), f.program \in Program
    PROVE  /\ CanCatch(Passes[m][f.it]) =>
                 /\ DOMAIN Save(m, f) = 1 .. Len(f.backup) + 1
                 /\ \A i \in DOMAIN f.backup : Save(m, f)[i] = f.backup[i]
                 /\ Save(m, f)[Len(f.backup) + 1] = [pos |-> f.it, prog |-> f.program]
           /\ ~CanCatch(Passes[m][f.it]) => Save(m, f) = f.backup
           /\ DOMAIN f.backup = 1 .. Len(f.backup) /\ Len(f.backup) \in Nat
<1>1. f.backup \in Seq(Entry(m)) /\ [pos |-> f.it, prog |-> f.program] \in Entry(m)
  BY DEF Frame, Entry
<1>. QED
  BY <1>1 DEF Save

\* Entries are typed.
LEMMA EntryFacts ==
    ASSUME NEW m \in Managers, NEW f \in Frame(m), NEW i \in DOMAIN f.backup
    PROVE  /\ f.backup[i].pos \in Pos(m) /\ f.backup[i].pos \in Nat
           /\ i \in Nat /\ i <= Len(f.backup)
<1>1. f.backup \in Seq(Entry(m))
  BY DEF Frame
<1>2. f.backup[i] \in Entry(m) /\ i \in 1 .. Len(f.backup) /\ Len(f.backup) \in Nat
  BY <1>1
<1>. QED
  BY <1>2 DEF Entry, Pos

\* Saving the input of a pass keeps the stack in order and faithful.
LEMMA InvokedBackup ==
    ASSUME NEW m \in Managers, NEW f \in Frame(m), f.it \in Pos(m), f.program \in Program,
           BackupOK(m, f), Resumable(f)
    PROVE  BackupOK(m, Invoked(m, f)) /\ SavedHere(m, Invoked(m, f))
<1> DEFINE g == Invoked(m, f)
<1> DEFINE n == Len(f.backup)
<1>1. /\ g.it = f.it /\ g.early = f.early /\ g.backup = Save(m, f)
      /\ g.given = [f.given EXCEPT ![f.it] = f.program]
      /\ f.given \in [Pos(m) -> Program \union {NotYet}] /\ f.it \in Nat
  BY DEF Invoked, Frame, Pos
<1> HIDE DEF g
<1>2. \A i \in DOMAIN f.backup : f.backup[i].prog = g.given[f.backup[i].pos]
  <2> SUFFICES ASSUME NEW i \in DOMAIN f.backup
               PROVE  f.backup[i].prog = g.given[f.backup[i].pos]
    OBVIOUS
  <2>1. f.backup[i].pos \in Pos(m) /\ f.backup[i].prog = f.given[f.backup[i].pos]
    BY EntryFacts DEF BackupOK, RestoresInput
  <2>2. CASE f.backup[i].pos = f.it
    BY <1>1, <2>1, <2>2 DEF Resumable, Saved
  <2>3. CASE f.backup[i].pos # f.it
    BY <1>1, <2>1, <2>3
  <2>. QED
    BY <2>2, <2>3
<1>3. CASE CanCatch(Passes[m][f.it])
  <2>1. /\ DOMAIN g.backup = 1 .. n + 1 /\ DOMAIN f.backup = 1 .. n /\ n \in Nat
        /\ \A i \in 1 .. n : g.backup[i] = f.backup[i]
        /\ g.backup[n + 1] = [pos |-> f.it, prog |-> f.program]
    BY <1>1, <1>3, SaveEntries
  <2>2. \A i \in 1 .. n : f.backup[i].pos <= f.it /\ f.backup[i].pos \in Nat
    BY <2>1, EntryFacts DEF BackupOK, Ordered
  <2> HIDE DEF n
  <2>3. Ordered(g)
    <3>1. ASSUME NEW i \in 1 .. n + 1, NEW j \in 1 .. n + 1, i <= j
          PROVE  g.backup[i].pos <= g.backup[j].pos
      <4>1. CASE j = n + 1 /\ i # n + 1
        <5>1. g.backup[j].pos = f.it
          BY <2>1, <4>1
        <5>2. i \in 1 .. n /\ g.backup[i] = f.backup[i]
          BY <2>1, <4>1
        <5>. QED
          BY <2>2, <5>1, <5>2
      <4>2. CASE j # n + 1
        <5>1. i \in DOMAIN f.backup /\ j \in DOMAIN f.backup
          BY <2>1, <3>1, <4>2
        <5>2. f.backup[i].pos <= f.backup[j].pos
          BY <3>1, <5>1 DEF BackupOK, Ordered
        <5>. QED
          BY <2>1, <5>1, <5>2
      <4>3. CASE j = n + 1 /\ i = n + 1
        BY <2>1, <1>1, <4>3
      <4>. QED
        BY <4>1, <4>2, <4>3
    <3>2. \A i \in 1 .. n + 1 : g.backup[i].pos <= g.it
      BY <1>1, <2>1, <2>2
    <3>. QED
      BY <2>1, <3>1, <3>2 DEF Ordered
  <2>4. RestoresInput(g)
    <3>1. g.backup[n + 1].prog = g.given[g.backup[n + 1].pos]
      BY <1>1, <2>1
    <3>. QED
      BY <1>2, <2>1, <3>1 DEF RestoresInput
  <2>5. Saved(f) \subseteq Saved(g) /\ f.it \in Saved(g)
    BY <2>1 DEF Saved
  <2>6. Covers(m, g)
    BY <1>1, <2>5 DEF BackupOK, Covers
  <2>. QED
    BY <1>1, <2>3, <2>4, <2>5, <2>6 DEF BackupOK, SavedHere, g
<1>4. CASE ~CanCatch(Passes[m][f.it])
  <2>1. g.backup = f.backup
    BY <1>1, <1>4, SaveEntries
  <2>2. Ordered(g) /\ RestoresInput(g) /\ Covers(m, g)
    BY <1>1, <1>2, <2>1 DEF BackupOK, Ordered, RestoresInput, Covers, Saved
  <2>. QED
    BY <1>1, <1>4, <2>2 DEF BackupOK, SavedHere, g
<1>. QED
  BY <1>3, <1>4

\* Completing a pass moves on or ends the loop; a pass that comes next is not
\* on the stack.
LEMMA CompletedBackup ==
    ASSUME NEW m \in Managers, NEW f \in Frame(m), f.it \in Pos(m),
           NEW prog \in MaybeProgram, NEW errs \in Nat,
           BackupOK(m, f), SavedHere(m, f)
    PROVE  LET g == Completed(m, f, prog, errs)
           IN  BackupOK(m, g) /\ Resumable(g)
<1> DEFINE g == Completed(m, f, prog, errs)
<1>1. Len(Passes[m]) \in Nat /\ f.it \in Nat /\ f.it <= Len(Passes[m])
  BY TreeAssumption DEF Pos
<1>2. Breaks(m, f, prog, errs) \in BOOLEAN
  BY ParameterAssumption DEF Breaks, Frame
<1>3. /\ g.backup = f.backup /\ g.given = f.given
      /\ g.early = Breaks(m, f, prog, errs)
      /\ g.it = IF Breaks(m, f, prog, errs) THEN End(m) ELSE f.it + 1
  BY DEF Completed, NextPos, Frame
<1> HIDE DEF g
<1>4. g.it > f.it /\ g.it \in Nat /\ (~g.early => g.it = f.it + 1) /\ (g.early => g.it = End(m))
  BY <1>1, <1>2, <1>3 DEF End
<1>5. \A i \in DOMAIN f.backup : f.backup[i].pos <= f.it /\ f.backup[i].pos \in Nat
  BY EntryFacts DEF BackupOK, Ordered
<1>6. Ordered(g)
  BY <1>1, <1>3, <1>4, <1>5 DEF BackupOK, Ordered
<1>7. RestoresInput(g)
  BY <1>3 DEF BackupOK, RestoresInput
<1>8. Saved(g) = Saved(f)
  BY <1>3 DEF Saved
<1>9. Covers(m, g)
  <2> SUFFICES ASSUME g.it # End(m) \/ ~g.early,
                      NEW i \in Pos(m), i < g.it, CanCatch(Passes[m][i])
               PROVE  i \in Saved(f)
    BY <1>8 DEF Covers
  <2>1. ~g.early /\ i <= f.it
    BY <1>1, <1>4 DEF Pos
  <2>2. CASE i = f.it
    BY <2>2 DEF SavedHere
  <2>3. CASE i # f.it
    <3>1. i < f.it /\ f.it # End(m)
      BY <1>1, <2>1, <2>3 DEF Pos, End
    <3>. QED
      BY <3>1 DEF BackupOK, Covers
  <2>. QED
    BY <2>2, <2>3
<1>10. g.it \notin Saved(g)
  <2>1. \A i \in DOMAIN f.backup : f.backup[i].pos # g.it
    BY <1>1, <1>4, <1>5
  <2>. QED
    BY <1>8, <2>1 DEF Saved
<1>. QED
  BY <1>6, <1>7, <1>9, <1>10 DEF BackupOK, Resumable, g

\* early_exit() makes no promise about the stack stronger.
LEMMA EarlyExitBackup ==
    ASSUME NEW m \in Managers, NEW f \in Frame(m), BackupOK(m, f)
    PROVE  LET g == [f EXCEPT !.early = TRUE]
           IN  /\ BackupOK(m, g)
               /\ SavedHere(m, f) => SavedHere(m, g)
<1> DEFINE g == [f EXCEPT !.early = TRUE]
<1>1. g.backup = f.backup /\ g.given = f.given /\ g.it = f.it /\ g.early = TRUE
  BY DEF Frame
<1> HIDE DEF g
<1>2. Ordered(g) /\ RestoresInput(g) /\ Saved(g) = Saved(f)
  BY <1>1 DEF BackupOK, Ordered, RestoresInput, Saved
<1>3. Covers(m, g)
  BY <1>1, <1>2 DEF BackupOK, Covers
<1>. QED
  BY <1>1, <1>2, <1>3 DEF BackupOK, SavedHere, g

\* Dropping the last entry, which belongs to the current position, loses
\* nothing before that position.
LEMMA FrontBackup ==
    ASSUME NEW m \in Managers, NEW f \in Frame(m), BackupOK(m, f),
           f.backup # << >>, Last(f.backup).pos = f.it
    PROVE  BackupOK(m, [f EXCEPT !.backup = Front(@)])
<1> DEFINE g == [f EXCEPT !.backup = Front(@)]
<1> DEFINE n == Len(f.backup)
<1>1. f.backup \in Seq(Entry(m)) /\ n \in Nat /\ n # 0 /\ DOMAIN f.backup = 1 .. n
  BY DEF Frame
<1>2. /\ g.given = f.given /\ g.it = f.it /\ g.early = f.early
      /\ DOMAIN g.backup = 1 .. n - 1
      /\ \A i \in 1 .. n - 1 : g.backup[i] = f.backup[i]
  BY <1>1 DEF Frame, Front
<1>3. f.backup[n].pos = f.it
  BY DEF Last
<1> HIDE DEF g, n
<1>4. Ordered(g) /\ RestoresInput(g)
  <2>1. Ordered(g)
    <3>1. /\ \A i, j \in 1 .. n : i <= j => f.backup[i].pos <= f.backup[j].pos
          /\ \A i \in 1 .. n : f.backup[i].pos <= f.it
      BY <1>1 DEF BackupOK, Ordered
    <3>2. \A i \in 1 .. n - 1 : i \in 1 .. n
      BY <1>1
    <3>3. /\ \A i, j \in 1 .. n - 1 : i <= j => g.backup[i].pos <= g.backup[j].pos
          /\ \A i \in 1 .. n - 1 : g.backup[i].pos <= g.it
      BY <1>2, <3>1, <3>2
    <3>. QED
      BY <1>2, <3>3 DEF Ordered
  <2>2. RestoresInput(g)
    BY <1>1, <1>2 DEF BackupOK, RestoresInput
  <2>. QED
    BY <2>1, <2>2
<1>5. \A i \in Pos(m) : i < f.it /\ i \in Saved(f) => i \in Saved(g)
  <2> SUFFICES ASSUME NEW i \in Pos(m), i < f.it, NEW k \in 1 .. n, f.backup[k].pos = i
               PROVE  i \in Saved(g)
    BY <1>1 DEF Saved
  <2>1. k # n
    BY <1>3 DEF Pos
  <2>2. k \in 1 .. n - 1
    BY <1>1, <2>1
  <2>. QED
    BY <1>2, <2>2 DEF Saved
<1>6. Covers(m, g)
  BY <1>2, <1>5 DEF BackupOK, Covers
<1>. QED
  BY <1>4, <1>6 DEF BackupOK, g

\* Rewinding to the last entry keeps the stack right, and no pass strictly
\* between that entry and the old position can catch anything.
LEMMA RewindBackup ==
    ASSUME NEW m \in Managers, NEW f \in Frame(m), f.it \in Pos(m), BackupOK(m, f),
           ~Exhausted(f), Candidate(f).pos # f.it
    PROVE  LET b == Candidate(f)
               g == Rewind(f, b)
           IN  /\ BackupOK(m, g) /\ Resumable(g)
               /\ b.pos < f.it
               /\ \A i \in b.pos + 1 .. f.it - 1 : ~CanCatch(Passes[m][i])
<1> DEFINE b == Candidate(f)
<1> DEFINE g == Rewind(f, b)
<1> DEFINE n == Len(f.backup)
<1>1. f.backup \in Seq(Entry(m)) /\ n \in Nat /\ n # 0 /\ DOMAIN f.backup = 1 .. n
  BY DEF Frame, Exhausted
<1>2. b = f.backup[n] /\ b.pos \in Pos(m) /\ b.pos \in Nat /\ f.it \in Nat
  BY <1>1, EntryFacts DEF Candidate, Last, Pos
<1>3. g.backup = f.backup /\ g.given = f.given /\ g.it = b.pos /\ g.program = b.prog
      /\ g.early = f.early
  BY DEF Rewind, Frame
<1> HIDE DEF g, b, n
<1>4. \A i \in 1 .. n : f.backup[i].pos <= b.pos
  BY <1>1, <1>2 DEF BackupOK, Ordered
<1>5. b.pos < f.it
  <2>1. b.pos <= f.it
    BY <1>1, <1>2 DEF BackupOK, Ordered
  <2>. QED
    BY <1>2, <2>1 DEF b
<1>6. Saved(g) = Saved(f)
  BY <1>3 DEF Saved
<1>7. Ordered(g) /\ RestoresInput(g) /\ Resumable(g)
  BY <1>1, <1>2, <1>3, <1>4 DEF BackupOK, Ordered, RestoresInput, Resumable
<1>8. f.it # End(m)
  BY TreeAssumption DEF Pos, End
<1>9. Covers(m, g)
  BY <1>2, <1>3, <1>5, <1>6, <1>8 DEF BackupOK, Covers, Pos
<1>10. ASSUME NEW i \in b.pos + 1 .. f.it - 1 PROVE ~CanCatch(Passes[m][i])
  <2>1. i \in Pos(m) /\ i < f.it /\ i > b.pos
    BY <1>2 DEF Pos
  <2>2. i \notin Saved(f)
    <3> SUFFICES ASSUME NEW k \in 1 .. n, f.backup[k].pos = i PROVE FALSE
      BY <1>1 DEF Saved
    <3>. QED
      BY <1>2, <1>4, <2>1
  <2>. QED
    BY <1>8, <2>1, <2>2 DEF BackupOK, Covers
<1>. QED
  BY <1>5, <1>7, <1>9, <1>10 DEF BackupOK, g, b

\* The stacks of all active managers while the pass of m executes.
LEMMA InvokedBackups ==
    ASSUME TypeInv, BackupInv, NEW m \in Managers, AtPass(m), NEW X
    PROVE  LET fr == WithEarlyExit([frame EXCEPT ![m] = Invoked(m, @)], X)
           IN  \A k \in active : BackupOK(k, fr[k]) /\ SavedHere(k, fr[k])
<1> DEFINE g == [frame EXCEPT ![m] = Invoked(m, @)]
<1>1. /\ TypeOK /\ focus = m /\ mode = "run" /\ m \in active /\ active \subseteq Managers
      /\ frame[m] \in Frame(m) /\ frame[m].it \in Pos(m) /\ frame[m].program \in Program
  BY AtPassFacts DEF TypeInv, TypeOK, PathOK
<1>2. BackupOK(m, frame[m]) /\ Resumable(frame[m])
  BY <1>1 DEF BackupInv
<1>3. /\ BackupOK(m, Invoked(m, frame[m])) /\ SavedHere(m, Invoked(m, frame[m]))
      /\ Invoked(m, frame[m]) \in Frame(m)
  BY <1>1, <1>2, InvokedBackup, InvokedType
<1>4. \A k \in active : g[k] \in Frame(k) /\ BackupOK(k, g[k]) /\ SavedHere(k, g[k])
  <2> SUFFICES ASSUME NEW k \in active
               PROVE  g[k] \in Frame(k) /\ BackupOK(k, g[k]) /\ SavedHere(k, g[k])
    OBVIOUS
  <2>1. CASE k = m
    <3>1. g[k] = Invoked(m, frame[m])
      BY <1>1, <2>1 DEF TypeOK
    <3>. QED
      BY <1>3, <2>1, <3>1
  <2>2. CASE k # m
    <3>1. g[k] = frame[k] /\ frame[k] \in Frame(k)
      BY <1>1, <2>2 DEF TypeOK
    <3>. QED
      BY <1>1, <2>2, <3>1 DEF BackupInv
  <2>. QED
    BY <2>1, <2>2
<1> HIDE DEF g
<1>5. ASSUME NEW k \in active
      PROVE  BackupOK(k, WithEarlyExit(g, X)[k]) /\ SavedHere(k, WithEarlyExit(g, X)[k])
  <2>1. WithEarlyExit(g, X)[k] \in {g[k], [g[k] EXCEPT !.early = TRUE]}
    BY <1>1, <1>4, EarlyExitFrame
  <2>. QED
    BY <1>1, <1>4, <2>1, EarlyExitBackup
<1>. QED
  BY <1>5 DEF g

\* Initially there is nothing to recover.
LEMMA BackupInit == Init => BackupInv
<1> SUFFICES ASSUME Init PROVE BackupInv
  OBVIOUS
<1>1. PICK prog \in Program :
         frame = [k \in Managers |-> Round(k, IF k = Root THEN prog ELSE Null, 0, 0)]
  BY DEF Init
<1>2. BackupOK(Root, frame[Root]) /\ Resumable(frame[Root])
  BY <1>1, TreeAssumption, RoundBackup
<1>. QED
  BY <1>2 DEF Init, BackupInv

\* A pass that returns leaves a backup entry behind if it can catch triggers.
LEMMA BackupLeafReturns ==
    ASSUME TypeInv, BackupInv, NEW m \in Managers, LeafReturns(m) PROVE BackupInv'
<1>1. PICK prog \in MaybeProgram, e \in {0, 1}, X \in ExitCalls :
         LET fr == WithEarlyExit([frame EXCEPT ![m] = Invoked(m, @)], X)
         IN  frame' = [fr EXCEPT ![m] = Completed(m, @, prog, errors + e)]
  BY DEF LeafReturns
<1> DEFINE fr == WithEarlyExit([frame EXCEPT ![m] = Invoked(m, @)], X)
<1>2. /\ AtPass(m) /\ TypeOK /\ UNCHANGED <<active, focus, mode>> /\ errors + e \in Nat
      /\ active \subseteq Managers
  BY DEF LeafReturns, TypeInv, TypeOK
<1>3. focus = m /\ mode = "run" /\ m \in active /\ frame[m].it \in Pos(m)
  BY <1>2, AtPassFacts DEF TypeInv, PathOK
<1>4. /\ fr = [k \in Managers |-> fr[k]]
      /\ fr[m] \in Frame(m) /\ fr[m].it \in Pos(m)
  BY <1>2, <1>3, InvokedFrames
<1>5. \A k \in active : BackupOK(k, fr[k]) /\ SavedHere(k, fr[k])
  BY <1>2, InvokedBackups
<1>6. frame' = [fr EXCEPT ![m] = Completed(m, fr[m], prog, errors + e)]
  BY <1>1
<1> HIDE DEF fr
<1>7. frame'[m] = Completed(m, fr[m], prog, errors + e) /\ \A k \in active \ {m} : frame'[k] = fr[k]
  BY <1>2, <1>4, <1>6
<1>8. BackupOK(m, frame'[m]) /\ Resumable(frame'[m])
  BY <1>2, <1>3, <1>4, <1>5, <1>7, CompletedBackup
<1>. QED
  BY <1>2, <1>3, <1>5, <1>7, <1>8 DEF BackupInv

\* So does one that throws.
LEMMA BackupLeafThrows ==
    ASSUME TypeInv, BackupInv, NEW m \in Managers, LeafThrows(m) PROVE BackupInv'
<1>1. PICK X \in ExitCalls :
         frame' = WithEarlyExit([frame EXCEPT ![m] = Invoked(m, @)], X)
  BY DEF LeafThrows
<1>2. /\ AtPass(m) /\ TypeOK /\ UNCHANGED <<active, focus>> /\ mode' = "unwind"
      /\ origin' = frame[m].it
  BY DEF LeafThrows, TypeInv
<1>3. focus = m /\ frame'[m].it = frame[m].it /\ frame[m].it \in Nat
  <2>1. focus = m /\ frame[m].it \in Pos(m)
    BY <1>2, AtPassFacts
  <2>2. frame'[m].it = frame[m].it
    BY <1>1, <1>2, InvokedFrames
  <2>. QED
    BY <2>1, <2>2 DEF Pos
<1>4. \A k \in active : BackupOK(k, frame'[k]) /\ SavedHere(k, frame'[k])
  BY <1>1, <1>2, InvokedBackups
<1>. QED
  BY <1>2, <1>3, <1>4 DEF BackupInv

\* A nested manager starts with an empty stack of its own.
LEMMA BackupEnterManager ==
    ASSUME TypeInv, BackupInv, NEW m \in Managers, EnterManager(m) PROVE BackupInv'
<1> DEFINE c == Current(m)
<1>1. /\ AtPass(m) /\ c \in Managers /\ TypeOK
      /\ frame' = [frame EXCEPT ![m] = Invoked(m, @), ![c] = Round(c, frame[m].program, 0, errors)]
      /\ active' = active \union {c} /\ focus' = c /\ mode' = mode
  BY DEF EnterManager, TypeInv
<1>2. /\ focus = m /\ mode = "run" /\ frame[m].it \in Pos(m) /\ active \subseteq Managers
      /\ frame[m] \in Frame(m) /\ frame[m].program \in Program /\ m \in active
  BY <1>1, AtPassFacts DEF TypeOK, TypeInv, PathOK
<1>3. c # m
  BY <1>1, <1>2, TreeAssumption DEF Current
<1>4. BackupOK(m, Invoked(m, frame[m])) /\ SavedHere(m, Invoked(m, frame[m]))
  BY <1>2, InvokedBackup DEF BackupInv
<1>5. BackupOK(c, Round(c, frame[m].program, 0, errors)) /\ Resumable(Round(c, frame[m].program, 0, errors))
  BY <1>1, RoundBackup
<1> HIDE DEF c
<1>6. /\ frame'[m] = Invoked(m, frame[m]) /\ frame'[c] = Round(c, frame[m].program, 0, errors)
      /\ \A k \in active \ {m, c} : frame'[k] = frame[k]
  BY <1>1, <1>2, <1>3 DEF TypeOK
<1>. QED
  BY <1>1, <1>2, <1>4, <1>5, <1>6 DEF BackupInv

\* A conditional group that is skipped has been saved too.
LEMMA BackupSkipManager ==
    ASSUME TypeInv, BackupInv, NEW m \in Managers, SkipManager(m) PROVE BackupInv'
<1>1. /\ AtPass(m) /\ TypeOK /\ UNCHANGED <<active, focus, mode>> /\ active \subseteq Managers
      /\ frame' = [frame EXCEPT ![m] = Completed(m, Invoked(m, @), frame[m].program, errors)]
  BY DEF SkipManager, TypeInv, TypeOK
<1>2. /\ focus = m /\ mode = "run" /\ frame[m].it \in Pos(m) /\ m \in active
      /\ frame[m] \in Frame(m) /\ frame[m].program \in Program /\ errors \in Nat
      /\ frame[m].program \in MaybeProgram
  BY <1>1, AtPassFacts DEF TypeOK, TypeInv, PathOK, MaybeProgram
<1> DEFINE g == Invoked(m, frame[m])
<1>3. BackupOK(m, g) /\ SavedHere(m, g) /\ g \in Frame(m) /\ g.it \in Pos(m)
  BY <1>2, InvokedBackup, InvokedType DEF BackupInv
<1>4. frame'[m] = Completed(m, g, frame[m].program, errors) /\ \A k \in active \ {m} : frame'[k] = frame[k]
  BY <1>1, <1>2 DEF TypeOK
<1> HIDE DEF g
<1>5. BackupOK(m, frame'[m]) /\ Resumable(frame'[m])
  BY <1>2, <1>3, <1>4, CompletedBackup
<1>. QED
  BY <1>1, <1>2, <1>4, <1>5 DEF BackupInv

\* The parent moves on to the next pass with its stack intact.
LEMMA BackupReturn ==
    ASSUME TypeInv, BackupInv, NEW m \in Managers, AtEnd(m),
           NEW prog \in MaybeProgram, ReturnFrom(m, prog)
    PROVE  BackupInv'
<1>1. /\ focus = m /\ mode = "run" /\ m \in active /\ active \subseteq Managers /\ errors \in Nat
      /\ active' = active \ {m}
  BY DEF AtEnd, Running, TypeInv, PathOK, TypeOK, ReturnFrom
<1>2. CASE m = Root
  BY <1>1, <1>2 DEF ReturnFrom, BackupInv
<1>3. CASE m # Root
  <2> DEFINE p == Parent[m]
  <2>1. /\ focus' = p /\ mode' = mode
        /\ frame' = [frame EXCEPT ![p] = Completed(p, @, prog, errors)]
    BY <1>3 DEF ReturnFrom
  <2>2. /\ p \in active /\ p \in Managers /\ frame[p] \in Frame(p)
        /\ frame[p].it \in Pos(p) /\ p # m
    <3>1. p \in active /\ frame[p].it \in Pos(p) /\ Passes[p][frame[p].it] = m
      BY <1>1, <1>3 DEF TypeInv, PathOK
    <3>. QED
      BY <1>1, <3>1, TreeAssumption DEF TypeInv, TypeOK
  <2> HIDE DEF p
  <2>3. BackupOK(p, frame[p]) /\ SavedHere(p, frame[p])
    BY <1>1, <2>2 DEF BackupInv
  <2>4. /\ frame'[p] = Completed(p, frame[p], prog, errors)
        /\ \A k \in active \ {p} : frame'[k] = frame[k]
    BY <1>1, <2>1, <2>2 DEF TypeInv, TypeOK
  <2>5. BackupOK(p, frame'[p]) /\ Resumable(frame'[p])
    BY <1>1, <2>2, <2>3, <2>4, CompletedBackup
  <2>. QED
    BY <1>1, <2>1, <2>4, <2>5 DEF BackupInv
<1>. QED
  BY <1>2, <1>3

\* A new round starts with an empty stack.
LEMMA BackupNextRound ==
    ASSUME TypeInv, BackupInv, NEW m \in Managers, AtEnd(m), NEW r, NextRound(m, r)
    PROVE  BackupInv'
<1>1. /\ focus = m /\ mode = "run" /\ active \subseteq Managers
      /\ frame' = [frame EXCEPT ![m] = Round(m, frame[m].program, r, frame[m].applyBase)]
      /\ UNCHANGED <<active, focus, mode>>
  BY DEF AtEnd, Running, NextRound, TypeInv, TypeOK
<1>2. /\ frame'[m] = Round(m, frame[m].program, r, frame[m].applyBase)
      /\ \A k \in active \ {m} : frame'[k] = frame[k]
  BY <1>1 DEF TypeInv, TypeOK
<1>3. BackupOK(m, frame'[m]) /\ Resumable(frame'[m])
  BY <1>2, RoundBackup
<1>. QED
  BY <1>1, <1>2, <1>3 DEF BackupInv

\* Hence the end of a loop, of any kind.
LEMMA BackupFinish ==
    ASSUME TypeInv, BackupInv, NEW m \in Managers,
           FinishOnce(m) \/ FinishRepeated(m) \/ FinishUntil(m)
    PROVE  BackupInv'
<1>1. AtEnd(m) /\ frame[m] \in Frame(m)
  BY DEF FinishOnce, FinishRepeated, FinishUntil, LoopEnded, TypeInv, TypeOK
<1>2. frame[m].program \in MaybeProgram /\ frame[m].start \in MaybeProgram
  BY <1>1 DEF Frame
<1>3. \/ ReturnFrom(m, frame[m].program) \/ ReturnFrom(m, frame[m].start)
      \/ NextRound(m, RoundsAfter(m)) \/ NextRound(m, 0)
  BY DEF FinishOnce, FinishRepeated, FinishUntil
<1>. QED
  BY <1>1, <1>2, <1>3, BackupReturn, BackupNextRound

\* Only an entry of the pass that threw or refused is discarded.
LEMMA BackupPopEntry ==
    ASSUME TypeInv, BackupInv, NEW m \in Managers, PopEntry(m) PROVE BackupInv'
<1>1. /\ focus = m /\ mode = "unwind" /\ m \in active /\ active \subseteq Managers
      /\ frame[m] \in Frame(m) /\ frame[m].backup # << >>
      /\ Last(frame[m].backup).pos = frame[m].it
      /\ frame' = [frame EXCEPT ![m] = [frame[m] EXCEPT !.backup = Front(@)]]
      /\ UNCHANGED <<active, focus, mode, trig, origin>>
  BY DEF PopEntry, Unwinding, Exhausted, Candidate, TypeInv, TypeOK, PathOK
<1>2. BackupOK(m, [frame[m] EXCEPT !.backup = Front(@)])
  BY <1>1, FrontBackup DEF BackupInv
<1>3. /\ frame'[m] = [frame[m] EXCEPT !.backup = Front(@)]
      /\ frame'[m].it = frame[m].it
      /\ \A k \in active \ {m} : frame'[k] = frame[k]
  BY <1>1 DEF TypeInv, TypeOK, Frame
<1>. QED
  BY <1>1, <1>2, <1>3 DEF BackupInv

\* What one round of the search in the catch block achieves.
LEMMA AskFacts ==
    ASSUME TypeInv, BackupInv, NEW m \in Managers, AskHandler(m)
    PROVE  LET p == Candidate(frame[m]).pos
           IN  /\ focus = m /\ mode = "unwind" /\ m \in active /\ p \in Pos(m)
               /\ p < frame[m].it /\ frame[m].it <= origin
               /\ frame'[m] = Rewind(frame[m], Candidate(frame[m]))
               /\ frame'[m].it = p
               /\ frame'[m].program = frame[m].given[p]
               /\ \A k \in active \ {m} : frame'[k] = frame[k]
               /\ BackupOK(m, frame'[m]) /\ Resumable(frame'[m])
               /\ \A i \in p + 1 .. origin - 1 : ~Accepts(Passes[m][i], trig)
               /\ mode' = IF Accepts(Passes[m][p], trig) THEN "run" ELSE "unwind"
               /\ UNCHANGED <<active, focus, trig, origin>>
<1> DEFINE b == Candidate(frame[m])
<1>1. /\ focus = m /\ mode = "unwind" /\ m \in active /\ active \subseteq Managers
      /\ frame[m] \in Frame(m) /\ ~Exhausted(frame[m]) /\ b.pos # frame[m].it
      /\ frame[m].it \in Pos(m) /\ origin \in Nat
      /\ frame' = [frame EXCEPT ![m] = Rewind(@, b)]
      /\ mode' = IF Accepts(Passes[m][b.pos], trig) THEN "run" ELSE "unwind"
      /\ UNCHANGED <<active, focus, trig, origin>>
  BY DEF AskHandler, Unwinding, TypeInv, TypeOK, PathOK
<1>2. b \in Entry(m) /\ b.pos \in Pos(m) /\ b.pos \in Nat /\ frame[m].it \in Nat
  BY <1>1, RewindType DEF Entry, Pos
<1>3. BackupOK(m, frame[m])
  BY <1>1 DEF BackupInv
<1>4. /\ BackupOK(m, Rewind(frame[m], b)) /\ Resumable(Rewind(frame[m], b))
      /\ b.pos < frame[m].it
      /\ \A i \in b.pos + 1 .. frame[m].it - 1 : ~CanCatch(Passes[m][i])
  BY <1>1, <1>3, RewindBackup
<1>5. /\ frame'[m] = Rewind(frame[m], b) /\ \A k \in active \ {m} : frame'[k] = frame[k]
  BY <1>1 DEF TypeInv, TypeOK
<1>6. /\ frame'[m].it = b.pos /\ frame'[m].program = b.prog
  BY <1>1, <1>5, RewindFields
<1>7. b.prog = frame[m].given[b.pos]
  <2>1. frame[m].backup \in Seq(Entry(m)) /\ frame[m].backup # << >>
    BY <1>1 DEF Frame, Exhausted
  <2>2. Len(frame[m].backup) \in DOMAIN frame[m].backup
    BY <2>1
  <2>. QED
    BY <1>3, <2>2 DEF BackupOK, RestoresInput, Candidate, Last
<1>8. /\ frame[m].it <= origin
      /\ \A i \in frame[m].it .. origin - 1 : ~Accepts(Passes[m][i], trig)
  BY <1>1 DEF BackupInv
<1> HIDE DEF b
<1>9. ASSUME NEW i \in b.pos + 1 .. origin - 1 PROVE ~Accepts(Passes[m][i], trig)
  <2>1. CASE i < frame[m].it
    <3>1. ~CanCatch(Passes[m][i])
      BY <1>2, <1>4, <2>1
    <3>. QED
      BY <3>1 DEF CanCatch, Accepts
  <2>2. CASE i >= frame[m].it
    BY <1>1, <1>2, <1>8, <2>2
  <2>. QED
    BY <1>2, <2>1, <2>2
<1>. QED
  BY <1>1, <1>2, <1>4, <1>5, <1>6, <1>7, <1>8, <1>9 DEF b

\* Moving back to a candidate keeps what lies before it.
LEMMA BackupAskHandler ==
    ASSUME TypeInv, BackupInv, NEW m \in Managers, AskHandler(m) PROVE BackupInv'
<1> DEFINE p == Candidate(frame[m]).pos
<1>1. /\ focus = m /\ p \in Nat /\ origin \in Nat /\ frame[m].it \in Nat
      /\ p < frame[m].it /\ frame[m].it <= origin /\ frame'[m].it = p
      /\ \A k \in active \ {m} : frame'[k] = frame[k]
      /\ BackupOK(m, frame'[m]) /\ Resumable(frame'[m])
      /\ \A i \in p + 1 .. origin - 1 : ~Accepts(Passes[m][i], trig)
      /\ mode' = IF Accepts(Passes[m][p], trig) THEN "run" ELSE "unwind"
      /\ UNCHANGED <<active, focus, trig, origin>>
  <2>1. focus = m /\ mode = "unwind" /\ p \in Pos(m)
    BY AskFacts
  <2>2. frame[m].it \in Pos(m) /\ origin \in Nat
    BY <2>1 DEF TypeInv, TypeOK, PathOK
  <2>3. frame[m].it \in Nat /\ p \in Nat
    BY <2>1, <2>2 DEF Pos
  <2>. QED
    BY <2>2, <2>3, AskFacts
<1> HIDE DEF p
<1>2. ASSUME mode' = "unwind"
      PROVE  p <= origin /\ \A i \in p .. origin - 1 : ~Accepts(Passes[m][i], trig)
  BY <1>1, <1>2
<1>. QED
  BY <1>1, <1>2 DEF BackupInv

\* A manager that gives up has nothing left to cover.
LEMMA BackupRethrow ==
    ASSUME TypeInv, BackupInv, NEW m \in Managers, Rethrow(m) PROVE BackupInv'
<1>1. /\ focus = m /\ mode = "unwind" /\ m \in active /\ active' = active \ {m}
      /\ UNCHANGED <<frame, trig>>
  BY DEF Rethrow, Unwinding, TypeInv, PathOK
<1>2. CASE m = Root
  BY <1>1, <1>2 DEF Rethrow, BackupInv
<1>3. CASE m # Root
  <2> DEFINE p == Parent[m]
  <2>1. /\ focus' = p /\ origin' = frame[p].it /\ mode' = mode
    BY <1>3 DEF Rethrow
  <2>2. frame[p].it \in Nat
    BY <1>1, <1>3 DEF TypeInv, PathOK, Pos
  <2>. QED
    BY <1>1, <2>1, <2>2 DEF BackupInv
<1>. QED
  BY <1>2, <1>3

\* The recovery points of all active managers are invariant.
LEMMA BackupStep == TypeInv /\ BackupInv /\ [Next]_vars => BackupInv'
<1> SUFFICES ASSUME TypeInv, BackupInv, [Next]_vars PROVE BackupInv'
  OBVIOUS
<1>1. CASE UNCHANGED vars
  BY <1>1 DEF vars, BackupInv
<1>2. ASSUME NEW m \in Managers, NullProgram(m) PROVE BackupInv'
  BY <1>2 DEF NullProgram, BackupInv
<1>3. ASSUME NEW m \in Managers, EndLoop(m) PROVE BackupInv'
  BY <1>3 DEF EndLoop, BackupInv
<1>4. ASSUME NEW m \in Managers, Step(m) PROVE BackupInv'
  BY <1>2, <1>3, <1>4, BackupLeafReturns, BackupLeafThrows, BackupEnterManager, BackupSkipManager,
     BackupFinish, BackupPopEntry, BackupAskHandler, BackupRethrow DEF Step
<1>. QED
  BY <1>1, <1>4 DEF Next

(***************************************************************************)
(* No recovery point is ever lost, and what it would restore is right.     *)
(***************************************************************************)
THEOREM BackupTheorem == Spec => [](BackupCovers /\ BackupOrdered /\ BackupRestoresInput)
<1>1. BackupInv => BackupCovers /\ BackupOrdered /\ BackupRestoresInput
  BY DEF BackupInv, BackupOK, BackupCovers, BackupOrdered, BackupRestoresInput
<1>. QED
  BY <1>1, TypeInit, TypeStep, BackupInit, BackupStep, PTL DEF Spec

(***************************************************************************)
(* Each entry of the backup stack restores the program its pass was last   *)
(* given, so a restart at it continues from there.                         *)
(***************************************************************************)
THEOREM RestoresTheorem == Spec => []BackupRestoresInput
BY BackupTheorem, PTL

(***************************************************************************)
(* A caught trigger restarts the nearest accepting pass before the thrower *)
(* with the input that pass had, and an escaping trigger was offered to    *)
(* every such pass: for every tree, every number of triggers and errors.   *)
(***************************************************************************)
CaughtStep ==
    mode = "unwind" /\ mode' = "run" =>
        LET m == focus
            p == frame'[m].it
        IN  /\ focus' = m
            /\ p < origin
            /\ Accepts(Passes[m][p], trig)
            /\ \A i \in p + 1 .. origin - 1 : ~Accepts(Passes[m][i], trig)
            /\ frame'[m].program = frame[m].given[p]

\* Where a trigger is caught, in one step.
LEMMA CaughtLemma == TypeInv /\ BackupInv /\ Next => CaughtStep
<1> SUFFICES ASSUME TypeInv, BackupInv, NEW m \in Managers, Step(m),
                    mode = "unwind", mode' = "run"
             PROVE  CaughtStep
  BY DEF Next, CaughtStep
<1>1. AskHandler(m)
  BY DEF Step, LeafReturns, LeafThrows, EnterManager, SkipManager, NullProgram, EndLoop, FinishOnce,
         FinishRepeated, FinishUntil, LoopEnded, AtPass, AtEnd, Running, PopEntry, Rethrow
<1> DEFINE p == Candidate(frame[m]).pos
<1>2. /\ focus = m /\ focus' = focus /\ frame'[m].it = p /\ p < frame[m].it /\ frame[m].it <= origin
      /\ frame'[m].program = frame[m].given[p]
      /\ \A i \in p + 1 .. origin - 1 : ~Accepts(Passes[m][i], trig)
      /\ mode' = IF Accepts(Passes[m][p], trig) THEN "run" ELSE "unwind"
      /\ p \in Pos(m)
  BY <1>1, AskFacts
<1>3. p \in Nat /\ frame[m].it \in Nat /\ origin \in Nat
  BY <1>2 DEF TypeInv, TypeOK, PathOK, Pos
<1> HIDE DEF p
<1>4. Accepts(Passes[m][p], trig) /\ p < origin
  BY <1>2, <1>3
<1>. QED
  BY <1>2, <1>4 DEF CaughtStep

(***************************************************************************)
(* A trigger is handled by the nearest earlier pass that accepts it, and   *)
(* that pass is given its own last input again.                            *)
(***************************************************************************)
THEOREM CaughtTheorem == Spec => TriggerCaughtByNearest
<1>1. TypeInv /\ BackupInv /\ [Next]_vars => [CaughtStep]_vars
  BY CaughtLemma
<1>. QED
  BY <1>1, TypeInit, TypeStep, BackupInit, BackupStep, PTL
     DEF Spec, TriggerCaughtByNearest, CaughtStep

EscapedStep ==
    mode = "unwind" /\ focus \notin active' =>
        \A i \in 1 .. origin - 1 : ~Accepts(Passes[focus][i], trig)

\* When a trigger escapes, in one step.
LEMMA EscapedLemma == TypeInv /\ BackupInv /\ Next => EscapedStep
<1> SUFFICES ASSUME TypeInv, BackupInv, NEW m \in Managers, Step(m),
                    mode = "unwind", focus \notin active',
                    NEW i \in 1 .. origin - 1
             PROVE  ~Accepts(Passes[focus][i], trig)
  BY DEF Next, EscapedStep
<1>1. focus \in active
  BY DEF TypeInv, PathOK
<1>2. Rethrow(m)
  BY <1>1 DEF Step, LeafReturns, LeafThrows, EnterManager, SkipManager, NullProgram, EndLoop,
         FinishOnce, FinishRepeated, FinishUntil, LoopEnded, AtPass, AtEnd, Running, PopEntry, AskHandler
<1>3. /\ focus = m /\ frame[m].backup = << >> /\ frame[m].it \in Pos(m) /\ m \in active
      /\ frame[m].it \in Nat /\ origin \in Nat
  BY <1>2 DEF Rethrow, Unwinding, Exhausted, TypeInv, TypeOK, PathOK, Pos
<1>4. CASE i >= frame[m].it
  BY <1>3, <1>4 DEF BackupInv
<1>5. CASE i < frame[m].it
  <2>1. frame[m].it # End(m) /\ i \in Pos(m)
    BY <1>3, <1>5, TreeAssumption DEF Pos, End
  <2>2. Saved(frame[m]) = {}
    BY <1>3 DEF Saved
  <2>3. ~CanCatch(Passes[m][i])
    BY <1>3, <1>5, <2>1, <2>2 DEF BackupInv, BackupOK, Covers
  <2>. QED
    BY <1>3, <2>3 DEF CanCatch, Accepts
<1>. QED
  BY <1>3, <1>4, <1>5

(***************************************************************************)
(* A trigger leaves a manager only if no pass before the thrower accepts.  *)
(***************************************************************************)
THEOREM EscapedTheorem == Spec => TriggerEscapesOnlyUnhandled
<1>1. TypeInv /\ BackupInv /\ [Next]_vars => [EscapedStep]_vars
  BY EscapedLemma
<1>. QED
  BY <1>1, TypeInit, TypeStep, BackupInit, BackupStep, PTL
     DEF Spec, TriggerEscapesOnlyUnhandled, EscapedStep

-----------------------------------------------------------------------------
(* What is invoked next: never a pass of a stopped manager, unless it has    *)
(* just accepted a trigger, and never with a null program.                   *)

\* A loop that is about to invoke a pass has a program and was not stopped.
Fresh(m, f, errs) ==
    f.it # End(m) =>
        /\ f.program # Null
        /\ ~f.early
        /\ ~(Stop[m] /\ errs > f.errBase)

\* A completed pass leaves the loop at its end, or free to go on.
LEMMA CompletedFresh ==
    ASSUME NEW m \in Managers, NEW f \in Frame(m), NEW prog \in MaybeProgram, NEW errs \in Nat
    PROVE  Fresh(m, Completed(m, f, prog, errs), errs)
<1> DEFINE c == Completed(m, f, prog, errs)
<1>1. /\ c.program = prog /\ c.early = Breaks(m, f, prog, errs) /\ c.errBase = f.errBase
      /\ c.it = NextPos(m, f, Breaks(m, f, prog, errs))
  BY DEF Completed, Frame
<1>2. CASE Breaks(m, f, prog, errs)
  <2>1. c.it = End(m)
    BY <1>1, <1>2 DEF NextPos
  <2>. QED
    BY <2>1 DEF Fresh
<1>3. CASE ~Breaks(m, f, prog, errs)
  <2>1. prog # Null /\ ~(Stop[m] /\ errs > f.errBase)
    BY <1>3 DEF Breaks
  <2>. QED
    BY <1>1, <1>3, <2>1, Zenon DEF Fresh
<1>. QED
  BY <1>2, <1>3

\* So does a round that begins with a program.
LEMMA RoundFresh ==
    ASSUME NEW m \in Managers, NEW prog, prog # Null, NEW r, NEW base, errors \in Nat
    PROVE  Fresh(m, Round(m, prog, r, base), errors)
  BY DEF Round, Fresh

\* Initially the outermost manager has a program.
LEMMA FreshInit == Init => Fresh(focus, frame[focus], errors)
<1> SUFFICES ASSUME Init PROVE Fresh(focus, frame[focus], errors)
  OBVIOUS
<1>1. PICK prog \in Program :
         frame = [k \in Managers |-> Round(k, IF k = Root THEN prog ELSE Null, 0, 0)]
  BY DEF Init
<1>2. frame[Root] = Round(Root, prog, 0, 0) /\ prog # Null
  BY <1>1, TreeAssumption, ParameterAssumption
<1>3. Fresh(Root, Round(Root, prog, 0, 0), errors)
  BY <1>2, TreeAssumption, RoundFresh DEF Init
<1>. QED
  BY <1>2, <1>3 DEF Init

\* Returning to the parent's loop, or to the caller.
LEMMA FreshReturn ==
    ASSUME TypeInv, NEW m \in Managers, AtEnd(m),
           NEW prog \in MaybeProgram, ReturnFrom(m, prog), mode' = "run"
    PROVE  Fresh(focus', frame'[focus'], errors')
<1>1. focus = m /\ mode = "run" /\ m \in active /\ errors \in Nat
  BY DEF AtEnd, Running, TypeInv, PathOK, TypeOK
<1>2. m # Root
  BY DEF ReturnFrom
<1> DEFINE p == Parent[m]
<1>3. /\ focus' = p /\ errors' = errors
      /\ frame' = [frame EXCEPT ![p] = Completed(p, @, prog, errors)]
  BY <1>2 DEF ReturnFrom
<1>4. p \in Managers /\ frame[p] \in Frame(p)
  BY <1>1, <1>2 DEF TypeInv, PathOK, TypeOK
<1> HIDE DEF p
<1>5. frame'[p] = Completed(p, frame[p], prog, errors)
  BY <1>3, <1>4 DEF TypeInv, TypeOK
<1>. QED
  BY <1>1, <1>3, <1>4, <1>5, CompletedFresh

\* What the next pass to be invoked finds, whatever step came before it.
LEMMA FreshStep ==
    ASSUME TypeInv, NEW m \in Managers, Step(m), mode' = "run"
    PROVE  \/ Fresh(focus', frame'[focus'], errors')
           \/ AskHandler(m)
           \/ FinishUntil(m) /\ NextRound(m, 0)
<1>1. CASE LeafReturns(m)
  <2>1. PICK prog \in MaybeProgram, e \in {0, 1}, X \in ExitCalls :
           LET fr == WithEarlyExit([frame EXCEPT ![m] = Invoked(m, @)], X)
           IN  /\ errors' = errors + e
               /\ frame' = [fr EXCEPT ![m] = Completed(m, @, prog, errors + e)]
    BY <1>1 DEF LeafReturns
  <2>2. AtPass(m) /\ TypeOK /\ focus' = focus /\ errors + e \in Nat
    BY <1>1 DEF LeafReturns, TypeInv, TypeOK
  <2> DEFINE fr == WithEarlyExit([frame EXCEPT ![m] = Invoked(m, @)], X)
  <2>3. fr = [k \in Managers |-> fr[k]] /\ fr[m] \in Frame(m)
    BY <2>2, InvokedFrames
  <2>4. frame' = [fr EXCEPT ![m] = Completed(m, fr[m], prog, errors + e)]
    BY <2>1
  <2> HIDE DEF fr
  <2>5. frame'[m] = Completed(m, fr[m], prog, errors + e)
    BY <2>3, <2>4
  <2>6. focus' = m
    BY <2>2 DEF AtPass, Running
  <2>7. Fresh(m, Completed(m, fr[m], prog, errors + e), errors + e)
    BY <2>2, <2>3, CompletedFresh
  <2>. QED
    BY <2>1, <2>5, <2>6, <2>7
<1>2. CASE LeafThrows(m)
  BY <1>2 DEF LeafThrows
<1>3. CASE EnterManager(m)
  <2> DEFINE c == Current(m)
  <2>1. /\ AtPass(m) /\ c \in Managers /\ TypeOK /\ errors \in Nat
        /\ frame' = [frame EXCEPT ![m] = Invoked(m, @), ![c] = Round(c, frame[m].program, 0, errors)]
        /\ focus' = c /\ errors' = errors
    BY <1>3 DEF EnterManager, TypeInv, TypeOK
  <2>2. frame[m].program # Null
    BY <2>1 DEF AtPass
  <2>3. Fresh(c, Round(c, frame[m].program, 0, errors), errors)
    BY <2>1, <2>2, RoundFresh
  <2> HIDE DEF c
  <2>4. frame'[c] = Round(c, frame[m].program, 0, errors)
    BY <2>1 DEF TypeOK
  <2>. QED
    BY <2>1, <2>3, <2>4
<1>4. CASE SkipManager(m)
  <2>1. /\ AtPass(m) /\ TypeOK /\ errors \in Nat /\ UNCHANGED <<focus, errors>>
        /\ frame' = [frame EXCEPT ![m] = Completed(m, Invoked(m, @), frame[m].program, errors)]
    BY <1>4 DEF SkipManager, TypeInv, TypeOK
  <2>2. focus = m /\ Invoked(m, frame[m]) \in Frame(m) /\ frame[m].program \in MaybeProgram
    BY <2>1, AtPassFacts DEF MaybeProgram
  <2>3. frame'[m] = Completed(m, Invoked(m, frame[m]), frame[m].program, errors)
    BY <2>1 DEF TypeOK
  <2>. QED
    BY <2>1, <2>2, <2>3, CompletedFresh
<1>5. CASE FinishOnce(m)
  <2>1. AtEnd(m) /\ ReturnFrom(m, frame[m].program) /\ frame[m].program \in MaybeProgram
    BY <1>5 DEF FinishOnce, LoopEnded, TypeInv, TypeOK, Frame
  <2>. QED
    BY <2>1, FreshReturn
<1>6. CASE FinishRepeated(m)
  <2>1. /\ AtEnd(m) /\ frame[m] \in Frame(m) /\ errors \in Nat
        /\ frame[m].program \in MaybeProgram /\ frame[m].start \in MaybeProgram
    BY <1>6 DEF FinishRepeated, LoopEnded, TypeInv, TypeOK, Frame
  <2>2. CASE ReturnFrom(m, frame[m].program) \/ ReturnFrom(m, frame[m].start)
    BY <2>1, <2>2, FreshReturn
  <2>3. CASE NextRound(m, RoundsAfter(m)) /\ ~Converged(frame[m])
    <3>1. /\ focus = m /\ UNCHANGED <<focus, errors>> /\ frame[m].program # Null
          /\ frame'[m] = Round(m, frame[m].program, RoundsAfter(m), frame[m].applyBase)
      BY <2>1, <2>3 DEF AtEnd, Running, NextRound, Converged, TypeInv, TypeOK
    <3>. QED
      BY <2>1, <3>1, RoundFresh
  <2>. QED
    BY <1>6, <2>2, <2>3 DEF FinishRepeated
<1>7. CASE FinishUntil(m)
  <2>1. AtEnd(m) /\ frame[m].program \in MaybeProgram
    BY <1>7 DEF FinishUntil, LoopEnded, TypeInv, TypeOK, Frame
  <2>. QED
    BY <1>7, <2>1, FreshReturn DEF FinishUntil
<1>8. CASE NullProgram(m) \/ PopEntry(m) \/ Rethrow(m)
  BY <1>8 DEF NullProgram, PopEntry, Rethrow, Unwinding
<1>9. CASE EndLoop(m)
  BY <1>9 DEF EndLoop, AtEnd, Running, Fresh
<1>. QED
  BY <1>1, <1>2, <1>3, <1>4, <1>5, <1>6, <1>7, <1>8, <1>9 DEF Step

\* A pass that has accepted a trigger is invoked again with its own entry on
\* top of the stack, and with the program of that entry.
LEMMA AskedEntry ==
    ASSUME TypeInv, NEW m \in Managers, AskHandler(m)
    PROVE  /\ focus' = m /\ frame'[m].backup # << >> /\ frame'[m].program # Null
           /\ Last(frame'[m].backup).pos = frame'[m].it
<1> DEFINE b == Candidate(frame[m])
<1>1. /\ focus' = m /\ frame[m] \in Frame(m) /\ frame[m].backup # << >>
      /\ frame' = [frame EXCEPT ![m] = Rewind(@, b)]
  BY DEF AskHandler, Unwinding, Exhausted, TypeInv, TypeOK
<1>2. b \in Entry(m) /\ b = Last(frame[m].backup)
  BY <1>1, RewindType DEF Candidate, Exhausted
<1>3. b.prog # Null
  BY <1>2, ParameterAssumption DEF Entry
<1> HIDE DEF b
<1>4. frame'[m] = Rewind(frame[m], b)
  BY <1>1 DEF TypeInv, TypeOK
<1>5. frame'[m].it = b.pos /\ frame'[m].program = b.prog /\ frame'[m].backup = frame[m].backup
  BY <1>1, <1>4, RewindFields
<1>. QED
  BY <1>1, <1>2, <1>3, <1>5, Zenon

(***************************************************************************)
(* A manager that was told to stop invokes nothing more, except the pass   *)
(* that has just accepted a trigger: in every tree, whatever errors,       *)
(* early exits, rounds and restarts came before.                           *)
(***************************************************************************)
THEOREM StopsTheorem == Spec => []StopsUnlessRestarted
<1>1. Init => StopsUnlessRestarted
  BY FreshInit DEF StopsUnlessRestarted, Fresh
<1>2. TypeInv /\ StopsUnlessRestarted /\ [Next]_vars => StopsUnlessRestarted'
  <2> SUFFICES ASSUME TypeInv, StopsUnlessRestarted, [Next]_vars PROVE StopsUnlessRestarted'
    OBVIOUS
  <2>1. CASE UNCHANGED vars
    BY <2>1 DEF vars, StopsUnlessRestarted
  <2>2. ASSUME NEW m \in Managers, Step(m), mode' = "run" PROVE StopsUnlessRestarted'
    <3>1. CASE Fresh(focus', frame'[focus'], errors')
      BY <3>1 DEF Fresh, StopsUnlessRestarted
    <3>2. CASE AskHandler(m)
      <4>1. frame'[focus'].backup # << >> /\ Last(frame'[focus'].backup).pos = frame'[focus'].it
        BY <3>2, AskedEntry
      <4>. QED
        BY <4>1 DEF StopsUnlessRestarted
    <3>3. CASE NextRound(m, 0) /\ FinishUntil(m)
      <4>1. /\ focus' = m /\ errors' = errors /\ errors \in Nat
            /\ frame'[m] = Round(m, frame[m].program, 0, frame[m].applyBase)
        BY <3>3 DEF FinishUntil, LoopEnded, AtEnd, Running, NextRound, TypeInv, TypeOK
      <4>2. ~frame'[m].early /\ frame'[m].errBase = errors
        BY <4>1 DEF Round
      <4>. QED
        BY <4>1, <4>2 DEF StopsUnlessRestarted
    <3>. QED
      BY <2>2, <3>1, <3>2, <3>3, FreshStep
  <2>3. CASE mode' # "run"
    BY <2>3 DEF StopsUnlessRestarted
  <2>. QED
    BY <2>1, <2>2, <2>3 DEF Next
<1>. QED
  BY <1>1, <1>2, TypeInit, TypeStep, PTL DEF Spec

\* A pass that is about to be invoked has a program.
HasProgram ==
    /\ mode # "crashed"
    /\ mode = "run" /\ frame[focus].it # End(focus) => frame[focus].program # Null

(***************************************************************************)
(* No pass is ever applied to a null program in a tree without a           *)
(* PassRepeatUntil: a null result ends each enclosing loop, a repeated one *)
(* included, and what a trigger restores is never null.                    *)
(***************************************************************************)
THEOREM NullTheorem ==
    ASSUME \A m \in Managers : Kind[m] # "until"
    PROVE  Spec => []NoNullApply
<1>1. Init => HasProgram
  BY FreshInit DEF HasProgram, Fresh, Init
<1>2. TypeInv /\ HasProgram /\ [Next]_vars => HasProgram'
  <2> SUFFICES ASSUME TypeInv, HasProgram, [Next]_vars PROVE HasProgram'
    OBVIOUS
  <2>1. CASE UNCHANGED vars
    BY <2>1 DEF vars, HasProgram
  <2>2. ASSUME NEW m \in Managers, Step(m) PROVE HasProgram'
    <3>1. ~NullProgram(m) /\ ~FinishUntil(m)
      BY DEF NullProgram, Running, HasProgram, FinishUntil
    <3>2. mode' # "crashed"
      BY <2>2, <3>1 DEF HasProgram, Step, LeafReturns, LeafThrows, EnterManager, SkipManager,
         EndLoop, FinishOnce, FinishRepeated, ReturnFrom, NextRound, PopEntry, AskHandler, Rethrow
    <3>3. CASE mode' = "run"
      <4>1. Fresh(focus', frame'[focus'], errors') \/ AskHandler(m)
        BY <2>2, <3>1, <3>3, FreshStep
      <4>2. CASE Fresh(focus', frame'[focus'], errors')
        BY <3>2, <4>2 DEF Fresh, HasProgram
      <4>3. CASE AskHandler(m)
        <5>1. frame'[focus'].program # Null
          BY <4>3, AskedEntry
        <5>. QED
          BY <3>2, <5>1 DEF HasProgram
      <4>. QED
        BY <4>1, <4>2, <4>3
    <3>. QED
      BY <3>2, <3>3 DEF HasProgram
  <2>. QED
    BY <2>1, <2>2 DEF Next
<1>3. HasProgram => NoNullApply
  BY DEF HasProgram, NoNullApply
<1>. QED
  BY <1>1, <1>2, <1>3, TypeInit, TypeStep, PTL DEF Spec
=============================================================================
