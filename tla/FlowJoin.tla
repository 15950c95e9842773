------------------------------ MODULE FlowJoin ------------------------------
(***************************************************************************)
(* ControlFlowVisitor and SplitFlowVisit (ir/visitor.h, ir/visitor.cpp):   *)
(* an Inspector that walks the IR in the order of the control flow.  The   *)
(* alternatives of a branch (SplitFlowVisit) are visited by clones of the  *)
(* visitor, merged afterwards.  A node with several parents is a join      *)
(* point: it waits until all of them have reached it, and while it waits   *)
(* the pending alternatives of the branches in progress are visited from   *)
(* within join_flows, "coroutine-like" on one call stack.                  *)
(*                                                                         *)
(* The variable stack holds the calls in progress: apply_visitor of a node *)
(* and join_flows of one that waits.  What a visitor has gathered is       *)
(* abstracted to the nodes that may have been executed before: clone       *)
(* copies it, flow_merge is the union and flow_copy the assignment, as in  *)
(* any analysis of what may have happened.                                 *)
(***************************************************************************)
EXTENDS Integers, Sequences, FiniteSets, FiniteSetsExt, Functions

CONSTANT Walks      \* IRs to walk, with the settings of the visitor

\* Nodes are numbered so that children come after their parents: no loops.
\* An IR is what its root reaches.
ASSUME WalkAssumption ==
    \A w \in Walks :
        /\ w.kids \in Seq(Seq(Nat)) /\ Len(w.kids) > 0
        /\ \A n \in DOMAIN w.kids :
              \A i \in DOMAIN w.kids[n] : w.kids[n][i] \in n + 1 .. Len(w.kids)
        /\ \A n \in 2 .. Len(w.kids) : \E m \in DOMAIN w.kids : n \in Range(w.kids[m])
        /\ w.splits \subseteq DOMAIN w.kids     \* nodes whose children are alternatives
        /\ w.filtered \subseteq DOMAIN w.kids   \* filter_join_point
        /\ w.visitDagOnce \in BOOLEAN
        /\ w.broken \in BOOLEAN                 \* BackwardsCompatibleBroken

VARIABLES
    self,       \* the visitor's settings, and the IR it is applied to
    points,     \* flow_join_points
    tracker,    \* the Tracker: node -> "busy" or "done"
    flows,      \* the visitor and its clones: what each has gathered
    stack,      \* the calls in progress, the innermost last
    status,     \* "run", "done", or the BUG that stopped the walk
    met,        \* history: node -> what its visitors had gathered at preorder
    times       \* history: node -> how often it was preordered

history == <<met, times>>
vars == <<self, points, tracker, flows, stack, status, history>>

Node == DOMAIN self.kids
Absent == {}        \* the null vclone; what is gathered has at least the root

With(f, x, y) == [z \in DOMAIN f \union {x} |-> IF z = x THEN y ELSE f[z]]

----------------------------------------------------------------------------
(* Join points.                                                            *)

\* SetupJoinPoints visits every node once and counts how often it is met.
Edges(kids) == UNION { { <<n, i>> : i \in DOMAIN kids[n] } : n \in DOMAIN kids }
Parents(kids, n) == { e \in Edges(kids) : kids[e[1]][e[2]] = n }

SharedNodes(w) == { n \in DOMAIN w.kids : Cardinality(Parents(w.kids, n)) > 1 }
JoinPoints(w) ==
    [n \in SharedNodes(w) \ w.filtered |->
        [vclone |-> Absent, count |-> Cardinality(Parents(w.kids, n)) - 1, done |-> FALSE]]

IsJoin(n) == n \in DOMAIN points

AccumulatedFirst(point, flow) ==        \* mutant: later flows are not merged
    IF point.vclone = Absent THEN flow ELSE point.vclone
Accumulated(point, flow) ==
    point.vclone \union flow       \* clone() or flow_merge

----------------------------------------------------------------------------
(* Calls.                                                                  *)

Top == stack[Len(stack)]
Pop == SubSeq(stack, 1, Len(stack) - 1)

Call(n, v, waits, vs) ==
    [node |-> n, vis |-> v,
     waits |-> waits,       \* in join_flows, and not in the visit of the node
     vs |-> vs,             \* the visitor for each child
     at |-> 1]              \* the child to visit next

More(f) == ~f.waits /\ f.at <= Len(self.kids[f.node])

\* SplitFlowVisit: the visitor itself, and clones of it.
ClonesOfNone(n, v, count) == [i \in 1 .. Len(self.kids[n]) |-> v]   \* mutant: no clone
Visitors(n, v, count) ==
    [i \in 1 .. Len(self.kids[n]) |->
        IF n \in self.splits /\ i > 1 THEN count + i - 1 ELSE v]
ClonesButOne(n, flow) ==        \* mutant: one alternative gets none
    [i \in 1 .. IF n \in self.splits THEN Len(self.kids[n]) - 2 ELSE 0 |-> flow]
Clones(n, flow) ==
    [i \in 1 .. IF n \in self.splits THEN Len(self.kids[n]) - 1 ELSE 0 |-> flow]

\* split_link: the innermost branch that has an alternative left.
ReadyInnermost ==       \* mutant: prev is not followed
    LET splits == { i \in DOMAIN stack : ~stack[i].waits /\ stack[i].node \in self.splits }
    IN  { i \in splits : More(stack[i]) /\ i = Max(splits) }
Ready ==
    LET ready == { i \in DOMAIN stack : More(stack[i]) /\ stack[i].node \in self.splits }
    IN  { i \in ready : i = Max(ready) }

Waiting == Top.waits /\ points[Top.node].count >= 0

\* The call whose next child is visited now.
Caller ==
    IF More(Top) THEN {Len(stack)}
    ELSE IF Waiting THEN Ready
    ELSE {}

Child(c) == self.kids[stack[c].node][stack[c].at]
Visitor(c) == stack[c].vs[stack[c].at]
Called(c) == [stack EXCEPT ![c].at = @ + 1]

----------------------------------------------------------------------------
Init ==
    \E w \in Walks :
        /\ self = w
        /\ points = JoinPoints(w)
        /\ tracker = With(<< >>, 1, "busy")
        /\ flows = << {1} >> \o Clones(1, {1})
        /\ stack = << Call(1, 1, FALSE, Visitors(1, 1, 1)) >>
        /\ status = "run"
        /\ met = [n \in DOMAIN w.kids |-> {}]
        /\ times = [n \in DOMAIN w.kids |-> IF n = 1 THEN 1 ELSE 0]

Walking == status = "run"

(* join_flows: not all parents have been here.  The old behaviour does not   *)
(* wait, but goes on without what is gathered at the join point.            *)
PendsButOne(n) == IsJoin(n) /\ points[n].count > 1      \* mutant: one parent too few
Pends(n) == IsJoin(n) /\ points[n].count > 0

WaitAt(c) ==
    LET n == Child(c)
        v == Visitor(c)
    IN  /\ Pends(n)
        /\ points' = [points EXCEPT ![n].vclone = Accumulated(points[n], flows[v]),
                                    ![n].count = @ - 1]
        /\ stack' = IF self.broken THEN Called(c)
                    ELSE Append(Called(c), Call(n, v, TRUE, << >>))
        /\ UNCHANGED <<self, tracker, flows, status, history>>

\* All have: the last of them takes over what the others gathered.
Joined(n, v) == IF IsJoin(n) THEN flows[v] \union points[n].vclone ELSE flows[v]
Counted(n) == IF IsJoin(n) THEN [points EXCEPT ![n].count = @ - 1] ELSE points

\* try_start says New or Revisit.
Fresh(n) == n \in DOMAIN tracker => tracker[n] = "done" /\ ~self.visitDagOnce

Begin(c) ==
    LET n == Child(c)
        v == Visitor(c)
        flow == Joined(n, v) \union {n}
    IN  /\ ~Pends(n) /\ Fresh(n)
        /\ points' = Counted(n)
        /\ tracker' = With(tracker, n, "busy")
        /\ flows' = [flows EXCEPT ![v] = flow] \o Clones(n, flow)
        /\ stack' = Append(Called(c), Call(n, v, FALSE, Visitors(n, v, Len(flows))))
        /\ met' = [met EXCEPT ![n] = @ \union Joined(n, v)]
        /\ times' = [times EXCEPT ![n] = @ + 1]
        /\ UNCHANGED <<self, status>>

\* post_join_flows, in pts, and its BUG "flow join point visited more than once!"
Left(pts, n, flow) ==
    IF IsJoin(n) THEN [pts EXCEPT ![n].done = TRUE, ![n].vclone = flow] ELSE pts
LeftTwice(pts, n) == IsJoin(n) /\ pts[n].done /\ pts[n].count >= -1

\* Done: revisit.
Revisit(c) ==
    LET n == Child(c)
        v == Visitor(c)
    IN  /\ ~Pends(n) /\ ~Fresh(n) /\ tracker[n] = "done"
        /\ points' = Left(Counted(n), n, Joined(n, v))
        /\ flows' = [flows EXCEPT ![v] = Joined(n, v)]
        /\ stack' = Called(c)
        /\ status' = IF LeftTwice(Counted(n), n) THEN "twice" ELSE status
        /\ UNCHANGED <<self, tracker, history>>

\* Busy: loop_revisit, BUG("IR loop detected").
LoopFound(c) ==
    /\ ~Pends(Child(c)) /\ ~Fresh(Child(c)) /\ tracker[Child(c)] = "busy"
    /\ status' = "loop"
    /\ UNCHANGED <<self, points, tracker, flows, stack, history>>

\* The children have been visited: run_visit merges the alternatives.
Finish ==
    LET n == Top.node
        flow == flows[Top.vis] \union UNION { flows[Top.vs[i]] : i \in DOMAIN Top.vs }
    IN  /\ Walking /\ ~Top.waits /\ ~More(Top)
        /\ flows' = [flows EXCEPT ![Top.vis] = flow]
        /\ tracker' = [tracker EXCEPT ![n] = "done"]
        /\ points' = Left(points, n, flow)
        /\ stack' = Pop
        /\ status' = IF LeftTwice(points, n) THEN "twice"
                     ELSE IF Pop = << >> THEN "done"
                     ELSE status
        /\ UNCHANGED <<self, history>>

\* join_flows returns: the node has been visited meanwhile.
Resumed(f) == points[f.node].vclone
StillWaiting == stack                   \* mutant: join_flows does not return
AfterWait == Pop
Resume ==
    /\ Walking /\ Top.waits /\ ~Waiting
    /\ flows' = [flows EXCEPT ![Top.vis] = Resumed(Top)]
    /\ status' = IF points[Top.node].done THEN status ELSE "unfinished"
    /\ stack' = AfterWait
    /\ UNCHANGED <<self, points, tracker, history>>

\* BUG_CHECK "SplitFlow::do_visit failed to finish node".
GiveUp ==
    /\ Walking /\ Waiting /\ Ready = {}
    /\ status' = "unfinished"
    /\ UNCHANGED <<self, points, tracker, flows, stack, history>>

VisitChild ==
    /\ Walking
    /\ \E c \in Caller :
          \/ WaitAt(c)
          \/ Begin(c)
          \/ Revisit(c)
          \/ LoopFound(c)

Next == VisitChild \/ Finish \/ Resume \/ GiveUp

Spec == Init /\ [][Next]_vars

\* A walk is a function call of a single thread.
FairSpec == Spec /\ WF_vars(Next)

----------------------------------------------------------------------------
(* What the walk is to compute: the control flow, as a relation.  A node is *)
(* entered and left; alternatives are entered from where their branch is    *)
(* entered, other children one after the other.                            *)

In(n) == n
Out(n) == -n

FlowsInto(w, n) ==      \* In(n)
    UNION { { IF e[1] \in w.splits \/ e[2] = 1 THEN In(e[1]) ELSE Out(w.kids[e[1]][e[2] - 1]) }
            : e \in Parents(w.kids, n) }
FlowsOutOf(w, n) ==     \* into Out(n)
    LET kids == w.kids[n] IN
    IF kids = << >> THEN {In(n)}
    ELSE IF n \in w.splits THEN { Out(k) : k \in Range(kids) }
    ELSE {Out(kids[Len(kids)])}

Points(w) == { In(n) : n \in DOMAIN w.kids } \union { Out(n) : n \in DOMAIN w.kids }
FlowsTo(w) == [p \in Points(w) |-> IF p > 0 THEN FlowsInto(w, p) ELSE FlowsOutOf(w, -p)]

\* What can be reached from set in at most k steps.
Reached(next, set) ==
    LET reached[k \in Nat] ==
            IF k = 0 THEN set
            ELSE LET r == reached[k - 1] IN r \union UNION { next[x] : x \in r }
    IN  reached

\* The nodes that may be executed before n.
BeforeIn(w) ==
    LET flowsTo == FlowsTo(w)
        back(n) == Reached(flowsTo, flowsTo[In(n)])[2 * Len(w.kids)]
    IN  [n \in DOMAIN w.kids |-> { m \in DOMAIN w.kids \ {n} : In(m) \in back(n) }]

\* No node but join points has several parents.
AllJoin(w) == SharedNodes(w) \intersect w.filtered = {}

----------------------------------------------------------------------------
(* Properties.                                                             *)

Flow == SUBSET Node
Frame == [node : Node, vis : DOMAIN flows, waits : BOOLEAN, vs : Seq(DOMAIN flows),
          at : Nat \ {0}]

\* Types of the join points, the visitors and the calls.
TypeOK ==
    /\ \A n \in DOMAIN points :
          points[n] \in [vclone : Flow, count : Int, done : BOOLEAN]
    /\ DOMAIN tracker \subseteq Node /\ Range(tracker) \subseteq {"busy", "done"}
    /\ flows \in Seq(Flow)
    /\ stack \in Seq(Frame)
    /\ status \in {"run", "done", "loop", "twice", "unfinished"}

(***************************************************************************)
(* No visitor gathers what was not before it: what the clones gather in    *)
(* one alternative, or while another call waits below them on the stack,   *)
(* does not leak into the flows they do not join.  (But for shared nodes   *)
(* that are no join points and are visited each time: a join point below   *)
(* them is reached more often than counted, and given its own results.)    *)
(***************************************************************************)
OnlyWhatIsBefore ==
    status = "done" /\ (AllJoin(self) \/ self.visitDagOnce) =>
        LET before == BeforeIn(self) IN \A n \in Node : met[n] \ {n} \subseteq before[n]

(***************************************************************************)
(* Where all shared nodes are join points, every node is visited, and with *)
(* all that may have been before it, by whichever of its parents, in       *)
(* whatever order the pending alternatives were visited.  (The old         *)
(* behaviour gathers less.)                                                *)
(***************************************************************************)
AllThatIsBefore ==
    status = "done" /\ AllJoin(self) =>
        /\ \A n \in Node : times[n] > 0
        /\ ~self.broken =>
              LET before == BeforeIn(self) IN \A n \in Node : before[n] \subseteq met[n]

(***************************************************************************)
(* The BUG "flow join point visited more than once!", and that of an IR    *)
(* loop: where all shared nodes are join points none is visited twice, and *)
(* none is met while it is visited.                                        *)
(***************************************************************************)
JoinedOnce ==
    AllJoin(self) => status \notin {"twice", "loop"} /\ \A n \in Node : times[n] <= 1

\* Join points come last in what is executed in sequence (parser states and
\* their transitions).
Below(w, n) == Reached([m \in DOMAIN w.kids |-> Range(w.kids[m])], {n})[Len(w.kids)]
JoinsLast(w) ==
    \A n \in DOMAIN w.kids \ w.splits :
        \A i \in 1 .. Len(w.kids[n]) - 1 :
            Below(w, w.kids[n][i]) \intersect DOMAIN JoinPoints(w) = {}

(***************************************************************************)
(* If nothing follows a join point in sequence, then whoever waits for     *)
(* one of its parents finds it among the alternatives that are pending.    *)
(***************************************************************************)
TailsFinish ==
    status = "unfinished" => ~(JoinsLast(self) /\ AllJoin(self))

(***************************************************************************)
(* The walk ends.                                                          *)
(***************************************************************************)
WalkEnds == <>(status # "run")

(***************************************************************************)
(* visitor.cpp:716, the assertion "SplitFlow::do_visit failed to finish    *)
(* node": whoever waits at a join point of an IR without loops waits until *)
(* the node has been visited.                                              *)
(***************************************************************************)
SplitsFinish == status # "unfinished"
=============================================================================
