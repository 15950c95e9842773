---------------------------- MODULE TreeVisitor ----------------------------
(***************************************************************************)
(* Transform and Modifier (ir/visitor.cpp): the recursive walk that        *)
(* rewrites the IR, a graph of immutable nodes in which a node may have    *)
(* several parents.  Each node is cloned, the clone is given to preorder,  *)
(* its children are visited, it is given to postorder, and the             *)
(* ChangeTracker remembers what became of it, so that every other parent   *)
(* gets the same answer; a node that came out unchanged is kept, and its   *)
(* clone dropped.                                                          *)
(*                                                                         *)
(* The recursion of apply_visitor is the variable stack.  A node is a      *)
(* label (its class and the fields that are no children) and its children, *)
(* an IR::Vector, which drops the children that are removed.  What the     *)
(* visitor does in preorder and postorder is left open: it may change the  *)
(* clone, visit its children itself, prune, or return null, a child, or a  *)
(* node it has just made.                                                  *)
(***************************************************************************)
EXTENDS Integers, Sequences, FiniteSets, SequencesExt

CONSTANTS
    Visits,         \* IRs to visit, with the settings of the visitor; an IR is a
                    \* sequence of nodes, of which the first is the root
    Label,
    Again,          \* labels for which the visitor calls visitAgain()
    MaxEdits        \* bound on what the visitor changes

Null == 0

ASSUME GraphAssumption ==
    /\ \A x \in Visits :
          /\ x.ir \in Seq([label : Label, kids : Seq(1 .. Len(x.ir))]) /\ Len(x.ir) > 0
          /\ x.transform \in BOOLEAN         \* a Transform, or a Modifier
          /\ x.visitDagOnce \in BOOLEAN /\ x.forceClone \in BOOLEAN
          /\ x.forward \in BOOLEAN           \* ~dontForwardChildrenBeforePreorder
    /\ Again \subseteq Label
    /\ MaxEdits \in Nat

VARIABLES
    self,       \* the visitor's settings, and the IR it is applied to
    heap,       \* all nodes, the clones and the new ones included
    visited,    \* the ChangeTracker
    stack,      \* the activations of apply_visitor, the innermost last
    pruneFlag,  \* Transform::prune_flag
    status,     \* "run", "done" or "bug"
    out,        \* what the outermost apply_visitor returned
    edits,      \* changes made so far (bound only)
    last,       \* history: node -> what apply_visitor last returned for it
    pruned,     \* history: results whose children the visitor chose to skip
    looped,     \* history: nodes that were met while being visited
    dirty       \* history: nodes during whose visit something changed

history == <<last, pruned, looped, dirty>>
vars == <<self, heap, visited, stack, pruneFlag, status, out, edits, history>>

----------------------------------------------------------------------------
(* The ChangeTracker.                                                      *)

Known(v, n) == n \in DOMAIN v
Busy(v, n) == Known(v, n) /\ v[n].busy
Done(v, n) == Known(v, n) /\ ~v[n].busy /\ v[n].once
FinalResult(v, n) == IF Done(v, n) THEN v[n].result ELSE Null

Info(busy, once, result) == [busy |-> busy, once |-> once, result |-> result]
With(v, n, info) == [x \in DOMAIN v \union {n} |-> IF x = n THEN info ELSE v[x]]
Overwritten(v, n, info) == With(v, n, info)     \* mutant: what is known is lost
Emplaced(v, n, info) == IF Known(v, n) THEN v ELSE With(v, n, info)

\* try_start, for a node that is New or to be visited again.
StillMarked(v, n, once) ==      \* mutant: a second visit is not marked
    Emplaced(v, n, Info(TRUE, once, n))
Started(v, n, once) ==
    With(v, n, IF Known(v, n) THEN Info(TRUE, v[n].once, v[n].result) ELSE Info(TRUE, once, n))

\* finish: is the node changed, removed or coalesced with another?
Replaces(h, n, final) == self.forceClone \/ (final # n /\ h[final] # h[n])
ChangesAlways(v, h, n, final) ==    \* mutant: pointers are compared, not nodes
    final = Null \/ final # n
Changes(v, h, n, final) == final = Null \/ Replaces(h, n, final) \/ Known(v, final)

Marked(v, h, n, final) ==
    With(v, n, Info(FALSE, v[n].once, IF Changes(v, h, n, final) THEN final ELSE v[n].result))
FinishedAlone(v, h, n, final) == Marked(v, h, n, final)     \* mutant: only n is marked
Finished(v, h, n, final) ==
    IF final # Null /\ Replaces(h, n, final)
    THEN Emplaced(Marked(v, h, n, final), final, Info(FALSE, v[n].once, final))
    ELSE Marked(v, h, n, final)

\* Children that have been visited are replaced before preorder sees the clone.
ForwardedBlindly(v, kids) ==        \* mutant: the null of an unvisited child too
    [i \in DOMAIN kids |-> IF self.forward THEN FinalResult(v, kids[i]) ELSE kids[i]]
Forwarded(v, kids) ==
    [i \in DOMAIN kids |->
        IF self.forward /\ FinalResult(v, kids[i]) # Null
        THEN FinalResult(v, kids[i]) ELSE kids[i]]

----------------------------------------------------------------------------
(* Activations.                                                            *)

Top == Last(stack)
Depth == Len(stack)
OnStack == { stack[i].node : i \in DOMAIN stack }
Kids(h, f) == h[f.copy].kids

Activation(n, copy) ==
    [node |-> n, copy |-> copy,
     pre |-> copy,          \* preorder_result
     extra |-> FALSE,       \* extra_clone
     saved |-> pruneFlag,   \* save_prune_flag
     skips |-> FALSE,       \* history: prune() was called
     at |-> 1,              \* the child to visit next
     step |-> "pre"]

Enter(n) ==
    /\ visited' = Started(visited, n, self.visitDagOnce)
    /\ heap' = Append(heap, [heap[n] EXCEPT !.kids = Forwarded(visited', @)])
    /\ stack' = Append(stack, Activation(n, Len(heap) + 1))
    /\ pruneFlag' = FALSE

\* A child, or a removal, put back by visit_children.
PutBack(h, f, r) ==
    [h EXCEPT ![f.copy].kids =
        IF r = Null THEN RemoveAt(@, f.at) ELSE ReplaceAt(@, f.at, r)]
Advanced(f, r) == IF r = Null THEN f ELSE [f EXCEPT !.at = @ + 1]

\* The visit of f ends with final: finish, and back to the caller.
FlagRestored(f) == f.saved

\* What preorder returned instead of the clone has been visited as well.
LeftMarked(w, h, f, final) == w     \* mutant: it stays marked
FinishedExtra(w, h, f, final) == IF f.extra THEN Finished(w, h, f.pre, final) ELSE w

Return(f, h, v, final0) ==
    LET final == IF final0 = f.copy /\ h[final0] = h[f.pre] THEN f.pre ELSE final0
        r == IF Changes(v, h, f.node, final) THEN final ELSE f.node
        w == Finished(v, h, f.node, final)
        below == Front(stack)
    IN  /\ visited' = FinishedExtra(w, h, f, final)
        /\ last' = With(last, f.node, r)
        /\ pruned' = IF f.skips THEN pruned \union {r} ELSE pruned
        /\ pruneFlag' = FlagRestored(f)
        /\ IF below = << >>
           THEN /\ stack' = << >> /\ heap' = h
                /\ status' = "done" /\ out' = r
           ELSE /\ heap' = PutBack(h, Last(below), r)
                /\ stack' = Append(Front(below), Advanced(Last(below), r))
                /\ UNCHANGED <<status, out>>

Edited(k) ==
    /\ edits + k <= MaxEdits
    /\ edits' = edits + k
    /\ dirty' = IF k = 0 THEN dirty ELSE dirty \union OnStack

----------------------------------------------------------------------------
Init ==
    \E x \in Visits :
        /\ self = x
        /\ heap = Append(x.ir, x.ir[1])
        /\ visited = With(<< >>, 1, Info(TRUE, x.visitDagOnce, 1))
        /\ pruneFlag = FALSE
        /\ stack = << Activation(1, Len(x.ir) + 1) >>
        /\ status = "run"
        /\ out = Null
        /\ edits = 0
        /\ last = << >>
        /\ pruned = {}
        /\ looped = {}
        /\ dirty = {}

In(step) == status = "run" /\ Top.step = step
More == Top.at <= Len(Kids(heap, Top))
Child == Kids(heap, Top)[Top.at]

(* A child is visited, by visit_children or by preorder itself.            *)

VisitNew ==
    /\ status = "run" /\ More
    /\ ~Busy(visited, Child) /\ ~Done(visited, Child)
    /\ Enter(Child)
    /\ dirty' = IF Kids(heap', Last(stack')) = heap[Child].kids THEN dirty
                ELSE dirty \union OnStack \union {Child}
    /\ UNCHANGED <<self, status, out, edits, last, pruned, looped>>

ResultOf(v, n) == v[n].result
VisitDone ==
    /\ status = "run" /\ More
    /\ Done(visited, Child)
    /\ LET r == ResultOf(visited, Child) IN
          /\ heap' = PutBack(heap, Top, r)
          /\ stack' = Append(Front(stack), Advanced(Top, r))
          /\ dirty' = IF r = Child THEN dirty ELSE dirty \union OnStack
    /\ UNCHANGED <<self, visited, pruneFlag, status, out, edits, last, pruned, looped>>

\* loop_revisit; the child stays what it was.
AfterLoopAgain(f) == f          \* mutant: the child is tried once more
AfterLoop(f) == [f EXCEPT !.at = @ + 1]
VisitBusy ==
    /\ status = "run" /\ More
    /\ Busy(visited, Child)
    /\ stack' = Append(Front(stack), AfterLoop(Top))
    /\ looped' = looped \union {Child}
    /\ UNCHANGED <<self, heap, visited, pruneFlag, status, out, edits, last, pruned, dirty>>

----------------------------------------------------------------------------
(* preorder.                                                               *)

Prune ==
    /\ In("pre") /\ ~pruneFlag
    /\ pruneFlag' = TRUE
    /\ stack' = Append(Front(stack), [Top EXCEPT !.skips = TRUE])
    /\ UNCHANGED <<self, heap, visited, status, out, edits, history>>

\* visitAgain(), called by the preorder of some classes.
MarkedAgain(v, n) ==
    IF heap[n].label \in Again THEN With(v, n, Info(v[n].busy, FALSE, v[n].result)) ELSE v

Relabelled(h, n, l) == [h EXCEPT ![n].label = l]

\* On to the children, unless they are pruned.
Descend(f, h, v) ==
    IF pruneFlag
    THEN Return(f, h, v, f.pre)
    ELSE /\ heap' = h
         /\ visited' = v
         /\ stack' = Append(Front(stack), [f EXCEPT !.at = 1, !.step = "kids"])
         /\ UNCHANGED <<pruneFlag, status, out, last, pruned>>

PreorderKeeps ==
    /\ In("pre")
    /\ \E l \in Label :
          /\ Edited(IF l = heap[Top.copy].label THEN 0 ELSE 1)
          /\ Descend(Top, Relabelled(heap, Top.copy, l), MarkedAgain(visited, Top.node))
    /\ UNCHANGED <<self, looped>>

PreorderRemoves ==
    /\ In("pre") /\ self.transform
    /\ Edited(1)
    /\ Return(Top, heap, MarkedAgain(visited, Top.node), Null)
    /\ UNCHANGED <<self, looped>>

\* Another node p in a heap h: it is visited in its turn, but preorder is not
\* called on it.
ReplacedBy(p, h) ==
    LET v == MarkedAgain(visited, Top.node) IN
    \/ Done(v, p) /\ Return(Top, h, v, v[p].result)
    \/ /\ Busy(v, p)
       /\ status' = "bug"           \* BUG("IR loop detected ")
       /\ UNCHANGED <<heap, visited, stack, pruneFlag, out, last, pruned>>
    \/ /\ ~Done(v, p) /\ ~Busy(v, p)
       /\ Descend([Top EXCEPT !.pre = p, !.copy = Len(h) + 1, !.extra = TRUE],
                  Append(h, h[p]), Started(v, p, v[Top.node].once))

PreorderReturnsChild ==
    /\ In("pre") /\ self.transform
    /\ Edited(1)
    /\ \E i \in DOMAIN Kids(heap, Top) : ReplacedBy(Kids(heap, Top)[i], heap)
    /\ UNCHANGED <<self, looped>>

\* new X(...), with the children of the clone.
PreorderReturnsNew ==
    /\ In("pre") /\ self.transform
    /\ Edited(1)
    /\ \E l \in Label :
          ReplacedBy(Len(heap) + 1, Append(heap, [heap[Top.copy] EXCEPT !.label = l]))
    /\ UNCHANGED <<self, looped>>

----------------------------------------------------------------------------
(* postorder.                                                              *)

AtPostorder == In("kids") /\ ~More

PostorderKeeps ==
    /\ AtPostorder
    /\ \E l \in Label :
          /\ Edited(IF l = heap[Top.copy].label THEN 0 ELSE 1)
          /\ Return(Top, Relabelled(heap, Top.copy, l), visited, Top.copy)
    /\ UNCHANGED <<self, looped>>

PostorderRemoves ==
    /\ AtPostorder /\ self.transform
    /\ Edited(1)
    /\ Return(Top, heap, visited, Null)
    /\ UNCHANGED <<self, looped>>

PostorderReturnsChild ==
    /\ AtPostorder /\ self.transform
    /\ Edited(1)
    /\ \E i \in DOMAIN Kids(heap, Top) : Return(Top, heap, visited, Kids(heap, Top)[i])
    /\ UNCHANGED <<self, looped>>

PostorderReturnsNew ==
    /\ AtPostorder /\ self.transform
    /\ Edited(1)
    /\ \E l \in Label :
          Return(Top, Append(heap, [heap[Top.copy] EXCEPT !.label = l]), visited,
                 Len(heap) + 1)
    /\ UNCHANGED <<self, looped>>

----------------------------------------------------------------------------
VisitChild == VisitNew \/ VisitDone \/ VisitBusy
Preorder ==
    \/ Prune
    \/ PreorderKeeps
    \/ PreorderRemoves
    \/ PreorderReturnsChild
    \/ PreorderReturnsNew
Postorder ==
    \/ PostorderKeeps
    \/ PostorderRemoves
    \/ PostorderReturnsChild
    \/ PostorderReturnsNew

Next == VisitChild \/ Preorder \/ Postorder

Spec == Init /\ [][Next]_vars

\* A walk is a function call of a single thread.
FairSpec == Spec /\ WF_vars(Next)

----------------------------------------------------------------------------
(* Properties.                                                             *)

Node == 1 .. Len(heap)
Entry == [busy : BOOLEAN, once : BOOLEAN, result : Node \union {Null}]
Frame == [node : Node, copy : Node, pre : Node, extra : BOOLEAN, saved : BOOLEAN, skips : BOOLEAN,
          at : Nat \ {0}, step : {"pre", "kids"}]

\* Types of the tracker, the activations and the nodes.
TypeOK ==
    /\ self \in Visits
    /\ heap \in Seq([label : Label, kids : Seq(Node)])
    /\ DOMAIN visited \subseteq Node /\ \A n \in DOMAIN visited : visited[n] \in Entry
    /\ stack \in Seq(Frame) /\ (stack = << >> <=> status = "done")
    /\ pruneFlag \in BOOLEAN
    /\ status \in {"run", "done", "bug"}
    /\ out \in Node \union {Null}
    /\ edits \in 0 .. MaxEdits
    /\ DOMAIN last \subseteq Node
    /\ pruned \subseteq Node \union {Null} /\ looped \subseteq Node /\ dirty \subseteq Node

(***************************************************************************)
(* The nodes marked as being visited are those on the stack of activations *)
(* and what their preorder returned, each once: whatever was pruned,       *)
(* removed, coalesced or visited again, no mark is left behind, and none   *)
(* is missing.  (A mark left behind makes a later visit an "IR loop"; one  *)
(* that is missing makes the walk of a cyclic IR endless.)                 *)
(***************************************************************************)
InProgress ==
    OnStack \union { stack[i].pre : i \in { j \in DOMAIN stack : stack[j].extra } }

MarkedIffOnStack ==
    /\ { n \in DOMAIN visited : visited[n].busy } = InProgress
    /\ \A i, j \in DOMAIN stack : stack[i].node = stack[j].node => i = j

(***************************************************************************)
(* No stale reference: where a node's children have been visited, what it  *)
(* became refers only to what they became, however many parents they have  *)
(* and in whatever order they were reached.  Excepted are children the     *)
(* visitor pruned, nodes that are being visited when met (a cyclic IR),    *)
(* and nodes it wants to visit at every occurrence.                        *)
(***************************************************************************)
Settled(k) ==
    \/ Known(visited, k) /\ (visited[k].result = k \/ ~visited[k].once)
    \/ k \in looped

ResultsSettled ==
    \A n \in { x \in DOMAIN last : ~Busy(visited, x) } :
        /\ last[n] \notin pruned \union looped \union {Null} =>
              \A i \in DOMAIN heap[last[n]].kids : Settled(heap[last[n]].kids[i])
        /\ visited[n].once => visited[n].result = last[n]

(***************************************************************************)
(* Nothing is copied for nothing: a node during whose visit nothing was    *)
(* changed, below it and in its other parents, comes back as the same      *)
(* pointer.  PassRepeated takes the pointer of the program to mean that    *)
(* there is nothing left to do.                                            *)
(***************************************************************************)
UntouchedKept ==
    ~self.forceClone => \A n \in DOMAIN last : n \notin dirty => last[n] = n

(***************************************************************************)
(* Once all parents may rely on a result it is never replaced.             *)
(***************************************************************************)
ResultsStand ==
    [][ \A n \in DOMAIN visited :
            Done(visited, n) => Done(visited', n) /\ visited'[n] = visited[n] ]_vars

\* The nodes of g can be numbered so that every child comes after its parents.
Acyclic(g) ==
    \E number \in [DOMAIN g -> DOMAIN g] :
        \A n \in DOMAIN g : \A i \in DOMAIN g[n].kids : number[n] < number[g[n].kids[i]]
AcyclicIRs == { g \in { x.ir : x \in Visits } : Acyclic(g) }

(***************************************************************************)
(* BUG("IR loop detected ") and loop_revisit: in an IR without cycles no   *)
(* node is met while it is being visited, although preorder may return a   *)
(* node that is shared with, or has been replaced in, other parts of it.   *)
(***************************************************************************)
NoLoopFound == self.ir \in AcyclicIRs => status # "bug" /\ looped = {}

(***************************************************************************)
(* The walk ends, also in a cyclic IR.                                     *)
(***************************************************************************)
WalkEnds == <>(status # "run")
=============================================================================
