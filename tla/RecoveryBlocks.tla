--------------------------- MODULE RecoveryBlocks ---------------------------
(***************************************************************************)
(* What a pass manager promises, without its stack of backups and without  *)
(* its catch block: nested lists of steps over one value, in which a fault *)
(* takes everything back, at once, to the nearest earlier step that        *)
(* accepts it, in the innermost list that has one.  The lists inside that  *)
(* one are abandoned, the lists around it do not notice.  Only a fault     *)
(* that no earlier step of any open list accepts reaches the caller.       *)
(***************************************************************************)
EXTENDS Integers, Sequences

CONSTANTS
    Blocks,     \* the lists
    Root,       \* the outermost
    Steps,      \* block -> its steps, some of them blocks
    Parent,     \* inner block -> the block it is a step of
    Inside,     \* block -> the blocks nested in it, at any depth
    Faults,
    Takes,      \* step -> the faults it accepts
    Value,
    Null,       \* the value that nothing can be applied to
    NotYet      \* the input of a step that has not been applied

VARIABLES
    block,      \* block -> where it is, its value, the inputs of its steps
    open,       \* the blocks that have been entered and not left
    focus,      \* the innermost of them
    status      \* "run", or how it ended

vars == <<block, open, focus, status>>

End(b) == Len(Steps[b]) + 1
Untouched(b) == [i \in 1 .. Len(Steps[b]) |-> NotYet]
Closed == [at |-> 0, value |-> Null, input |-> << >>]
Fresh(b, v) == [at |-> 1, value |-> v, input |-> Untouched(b)]

Init ==
    /\ \E v \in Value : block = [b \in Blocks |-> IF b = Root THEN Fresh(b, v) ELSE Closed]
    /\ open = {Root}
    /\ focus = Root
    /\ status = "run"

AtStep(b) ==
    /\ status = "run" /\ focus = b
    /\ block[b].at # End(b)
    /\ block[b].value # Null

\* The step about to be applied is given the value.
Given(b) == [block[b] EXCEPT !.input[block[b].at] = block[b].value]

\* It has returned v; the block goes on behind it or ends early.
Continued(b, rec, v, early) ==
    [at |-> IF early THEN End(b) ELSE rec.at + 1, value |-> v, input |-> rec.input]

Apply(b) ==
    /\ AtStep(b)
    /\ \E v \in Value \union {Null}, early \in BOOLEAN :
          block' = [block EXCEPT ![b] = Continued(b, Given(b), v, early)]
    /\ UNCHANGED <<open, focus, status>>

Enter(b) ==
    /\ AtStep(b)
    /\ LET c == Steps[b][block[b].at] IN
          /\ c \in Blocks
          /\ block' = [block EXCEPT ![b] = Given(b), ![c] = Fresh(c, block[b].value)]
          /\ open' = open \union {c}
          /\ focus' = c
    /\ UNCHANGED status

AtEnd(b) == status = "run" /\ focus = b /\ block[b].at = End(b)

Again(b) ==
    /\ AtEnd(b)
    /\ block' = [block EXCEPT ![b] = Fresh(b, block[b].value)]
    /\ UNCHANGED <<open, focus, status>>

Leave(b) ==
    /\ AtEnd(b)
    /\ open' = open \ {b}
    /\ IF b = Root
       THEN /\ block' = [block EXCEPT ![b] = Closed]
            /\ focus' = Root
            /\ status' = "done"
       ELSE /\ \E v \in Value \union {Null}, early \in BOOLEAN :
                  block' = [block EXCEPT
                      ![b] = Closed,
                      ![Parent[b]] = Continued(Parent[b], @, v, early)]
            /\ focus' = Parent[b]
            /\ UNCHANGED status

\* Applying a step to Null.
Crash(b) ==
    /\ status = "run" /\ focus = b
    /\ block[b].at # End(b) /\ block[b].value = Null
    /\ status' = "crashed"
    /\ UNCHANGED <<block, open, focus>>

AcceptsBefore(b, at, t) == { i \in 1 .. at - 1 : t \in Takes[Steps[b][i]] }
Catchers(t) == { b \in open : AcceptsBefore(b, block[b].at, t) # {} }
Nearest(b, at, t) ==
    CHOOSE i \in AcceptsBefore(b, at, t) : \A j \in AcceptsBefore(b, at, t) : j <= i

\* c starts again at its nearest accepting step, with that step's own input.
Restarted(c, rec, t) ==
    LET i == Nearest(c, rec.at, t) IN [at |-> i, value |-> rec.input[i], input |-> rec.input]

Recover(b, c, t) ==
    /\ open' = open \ Inside[c]
    /\ focus' = c
    /\ block' = [k \in Blocks |->
                    IF k \in Inside[c] THEN Closed
                    ELSE LET rec == IF k = b THEN Given(b) ELSE block[k]
                         IN  IF k = c THEN Restarted(c, rec, t) ELSE rec]
    /\ UNCHANGED status

Abort ==
    /\ open' = {}
    /\ focus' = Root
    /\ block' = [k \in Blocks |-> Closed]
    /\ status' = "aborted"

Throw(b) ==
    /\ AtStep(b)
    /\ Steps[b][block[b].at] \notin Blocks
    /\ \E t \in Faults :
          \/ \E c \in Catchers(t) : Catchers(t) \intersect Inside[c] = {} /\ Recover(b, c, t)
          \/ Catchers(t) = {} /\ Abort

Step(b) == Apply(b) \/ Enter(b) \/ Again(b) \/ Leave(b) \/ Crash(b) \/ Throw(b)
Next == \E b \in Blocks : Step(b)
Spec == Init /\ [][Next]_vars
=============================================================================
