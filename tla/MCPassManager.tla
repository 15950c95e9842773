--------------------------- MODULE MCPassManager ---------------------------
(* A manager with a handler before and inside a nested group, so that       *)
(* triggers are caught in the group, by the group as a whole, by the outer  *)
(* handler, or not at all.                                                  *)
EXTENDS PassManagerRefines, TLC

CONSTANTS outer, group, loop,       \* managers
          catchFirst, catchInner,   \* handlers
          work, check, tail,        \* other passes
          t1, t2                    \* trigger types

MCLeaves == {catchFirst, catchInner, work, check, tail}
MCHandlers == {catchFirst, catchInner}

\* A repeated group with the inner handler between two passes that may throw.
FlatManagers == {outer, group}
FlatPasses == outer :> <<catchFirst, group, tail>> @@ group :> <<work, catchInner, check>>
FlatParent == group :> outer
FlatInside == outer :> {group} @@ group :> {}
FlatKind == outer :> "plain" @@ group :> "repeated"
FlatRepeats == outer :> 0 @@ group :> 1
FlatStop == [m \in FlatManagers |-> TRUE]
FlatTakes == [h \in MCHandlers |-> {t1}]

\* A conditional group that goes on after errors and holds a loop.
DeepManagers == {outer, group, loop}
DeepPasses == outer :> <<catchFirst, group, tail>> @@ group :> <<catchInner, loop>>
                @@ loop :> <<work>>
DeepParent == group :> outer @@ loop :> group
DeepInside == outer :> {group, loop} @@ group :> {loop} @@ loop :> {}
DeepKind == outer :> "plain" @@ group :> "if" @@ loop :> "until"
DeepRepeats == [m \in DeepManagers |-> 0]
DeepStop == [m \in DeepManagers |-> m # group]
DeepTakes == catchFirst :> {t1, t2} @@ catchInner :> {t1}
============================================================================
