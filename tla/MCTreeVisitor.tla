--------------------------- MODULE MCTreeVisitor ---------------------------
(* Small IRs: a node with two parents, a node that occurs twice in one       *)
(* parent and is visited each time, and a cycle.                            *)
EXTENDS TreeVisitor

CONSTANTS a, b      \* labels

N(l, kids) == [label |-> l, kids |-> kids]

Shared == << N(a, <<2, 3>>), N(a, <<3>>), N(a, << >>) >>
Twice == << N(a, <<2, 2>>), N(b, <<3>>), N(a, << >>) >>
Loop == << N(a, <<2>>), N(a, <<2, 1>>) >>

Visit(ir) == [ir |-> ir, transform |-> TRUE, visitDagOnce |-> TRUE, forceClone |-> FALSE,
              forward |-> TRUE]

MCVisits ==
    { Visit(ir) : ir \in {Shared, Twice, Loop} }
        \union { [Visit(ir) EXCEPT !.visitDagOnce = FALSE] : ir \in {Shared, Loop} }
        \union { [Visit(Twice) EXCEPT !.forward = FALSE], [Visit(Twice) EXCEPT !.transform = FALSE],
                 [Visit(Shared) EXCEPT !.forceClone = TRUE] }
============================================================================
