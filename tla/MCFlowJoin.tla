----------------------------- MODULE MCFlowJoin -----------------------------
(* All IRs of four nodes, and many of five, whose root is a branch of up to   *)
(* three alternatives and whose other nodes have up to two children.        *)
EXTENDS FlowJoin

Kids(n, size, widths) == UNION { [1 .. k -> n + 1 .. size] : k \in widths }

Graphs4 == { << a, b, c, << >> >> :
                a \in Kids(1, 4, 1 .. 3), b \in Kids(2, 4, 0 .. 2), c \in Kids(3, 4, 0 .. 2) }
Graphs5 == { << a, b, c, d, << >> >> :
                a \in Kids(1, 5, {3}), b \in Kids(2, 5, {2}), c \in Kids(3, 5, 1 .. 2),
                d \in Kids(4, 5, 0 .. 1) }

Connected(gs) ==
    { g \in gs : 2 .. Len(g) \subseteq UNION { Range(g[n]) : n \in DOMAIN g } }

\* Which nodes with several children are branches: the root always.
Splits(g) == { {1} \union s : s \in SUBSET { n \in 2 .. Len(g) : Len(g[n]) > 1 } }

Walk(g, splits) ==
    [kids |-> g, splits |-> splits, filtered |-> {}, visitDagOnce |-> FALSE, broken |-> FALSE]

\* All shared nodes are join points.
Joining == UNION { { Walk(g, s) : s \in Splits(g) } : g \in Connected(Graphs4 \union Graphs5) }

\* Some are not, and the visitor's other settings.
Others ==
    UNION { UNION { { [w EXCEPT !.filtered = f, !.visitDagOnce = once, !.broken = broken] :
                         f \in SUBSET (SharedNodes(w) \ {4}), once \in BOOLEAN, broken \in BOOLEAN }
                    : w \in { Walk(g, s) : s \in Splits(g) } }
            : g \in Connected(Graphs4) }

AllWalks == Joining \union Others

\* switch { 1: { j; k }  2: { k }  3: { j } }: j always comes before k.
CrossedWalks == { Walk(<< <<2, 4, 3>>, <<3, 4>>, << >>, << >> >>, {1}) }
=============================================================================
