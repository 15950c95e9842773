------------------------- MODULE PassManagerRefines -------------------------
(***************************************************************************)
(* PassManager implements RecoveryBlocks.  A manager that unwinds already  *)
(* stands, for the abstract specification, where the trigger will take it: *)
(* the steps of the catch block are invisible.                             *)
(***************************************************************************)
EXTENDS PassManager

CONSTANT Inside     \* manager -> the managers nested in it, at any depth

ASSUME NestAssumption ==
    /\ Inside \in [Managers -> SUBSET Managers]
    /\ \A a, b \in Managers : a \in Inside[b] => b \notin Inside[a]
    /\ \A m \in Managers : Root \notin Inside[m]
    /\ \A m \in Managers, c \in Managers \ {Root} :
          c \in Inside[m] <=> (Parent[c] = m \/ Parent[c] \in Inside[m])

TakesOf == [p \in Pass |-> { t \in Triggers : Accepts(p, t) }]

\* The position of m that the trigger comes from, and who may catch it there.
Thrower(m) == IF m = focus THEN origin ELSE frame[m].it
Candidates(m) == { i \in 1 .. Thrower(m) - 1 : trig \in TakesOf[Passes[m][i]] }
NearestCandidate(m) == CHOOSE i \in Candidates(m) : \A j \in Candidates(m) : j <= i

\* The managers that have a candidate, and the innermost of them.
Catching == { m \in active : Candidates(m) # {} }
Catcher == CHOOSE c \in Catching : Catching \intersect Inside[c] = {}

Doomed == mode = "unwind" /\ Catching = {}
Restoring == mode = "unwind" /\ Catching # {}

AbsOpen ==
    IF Doomed THEN {} ELSE IF Restoring THEN active \ Inside[Catcher] ELSE active
AbsFocus ==
    IF Doomed THEN Root ELSE IF Restoring THEN Catcher ELSE focus
AbsStatus ==
    IF Doomed THEN "aborted" ELSE IF Restoring THEN "run" ELSE mode

View(f) == [at |-> f.it, value |-> f.program, input |-> f.given]
Restored(m, f) ==
    [at |-> NearestCandidate(m), value |-> f.given[NearestCandidate(m)], input |-> f.given]

AbsBlock ==
    [m \in Managers |->
        IF m \notin AbsOpen THEN [at |-> 0, value |-> Null, input |-> << >>]
        ELSE IF Restoring /\ m = Catcher THEN Restored(m, frame[m]) ELSE View(frame[m])]

Promise == INSTANCE RecoveryBlocks WITH
    Blocks <- Managers, Steps <- Passes, Faults <- Triggers, Value <- Program,
    Takes <- TakesOf,
    block <- AbsBlock, open <- AbsOpen, focus <- AbsFocus, status <- AbsStatus

(***************************************************************************)
(* apply_visitor, with its backup stack, catch block, nesting and loops,   *)
(* does nothing but what RecoveryBlocks allows: in particular a trigger    *)
(* has the effect of one atomic return to the nearest accepting pass.      *)
(***************************************************************************)
ImplementsPromise == Promise!Spec
=============================================================================
