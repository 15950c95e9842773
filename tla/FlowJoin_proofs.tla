-------------------------- MODULE FlowJoin_proofs --------------------------
(* Theorems about the visitors that follow the control flow, for every IR. *)
EXTENDS FlowJoin, FiniteSetTheorems, WellFoundedInduction, TLAPS

(***************************************************************************)
(* The types, with what they need to be inductive: every call is one of a  *)
(* visitor that exists, and has one for each child of its node.            *)
(***************************************************************************)
FrameOK(f, w, pts) ==
    IF f.waits THEN f.node \in DOMAIN pts
               ELSE Len(f.vs) = Len(w.kids[f.node])

TypeInv ==
    /\ self \in Walks
    /\ DOMAIN points = SharedNodes(self) \ self.filtered
    /\ TypeOK
    /\ times \in [Node -> Nat]
    /\ \A i \in DOMAIN stack : FrameOK(stack[i], self, points)
    /\ status = "run" => stack # << >>
    /\ stack # << >> => ~stack[1].waits

----------------------------------------------------------------------------
(* The IR.                                                                 *)

LEMMA KidsFacts ==
    ASSUME NEW w \in Walks
    PROVE  /\ w.kids \in Seq(Seq(Nat)) /\ Len(w.kids) \in Nat \ {0}
           /\ DOMAIN w.kids = 1 .. Len(w.kids)
           /\ \A n \in DOMAIN w.kids :
                 /\ w.kids[n] \in Seq(Nat) /\ Len(w.kids[n]) \in Nat
                 /\ DOMAIN w.kids[n] = 1 .. Len(w.kids[n])
                 /\ \A i \in DOMAIN w.kids[n] :
                       w.kids[n][i] \in DOMAIN w.kids /\ w.kids[n][i] > n
<1>1. w.kids \in Seq(Seq(Nat)) /\ Len(w.kids) > 0
  BY WalkAssumption
<1>2. \A n \in DOMAIN w.kids : \A i \in DOMAIN w.kids[n] : w.kids[n][i] \in n + 1 .. Len(w.kids)
  BY WalkAssumption
<1>3. Len(w.kids) \in Nat \ {0} /\ DOMAIN w.kids = 1 .. Len(w.kids)
  BY <1>1
<1>4. \A n \in DOMAIN w.kids :
        w.kids[n] \in Seq(Nat) /\ Len(w.kids[n]) \in Nat /\ DOMAIN w.kids[n] = 1 .. Len(w.kids[n])
  BY <1>1
<1>. QED
  BY <1>1, <1>2, <1>3, <1>4

LEMMA IntervalFinite ==
    ASSUME NEW n \in Nat
    PROVE  IsFiniteSet(1 .. n)
<1>1. 1 \in Int /\ n \in Int
  OBVIOUS
<1>. QED
  BY <1>1, FS_Interval, Zenon

\* The set of values of a function on a finite set.
LEMMA ImageFinite ==
    ASSUME NEW S, IsFiniteSet(S), NEW f
    PROVE  IsFiniteSet({ f[x] : x \in S })
<1> DEFINE g == [x \in S |-> f[x]]
<1>1. g \in Surjection(S, { f[x] : x \in S })
  BY DEF Surjection
<1>. QED
  BY <1>1, FS_Surjection

\* A node has finitely many parents.
LEMMA ParentsFinite ==
    ASSUME NEW w \in Walks, NEW n
    PROVE  IsFiniteSet(Parents(w.kids, n))
<1> DEFINE K == DOMAIN w.kids
           of == [m \in K |-> { <<m, i>> : i \in DOMAIN w.kids[m] }]
<1>1. IsFiniteSet(K)
  BY KidsFacts, IntervalFinite
<1>2. \A m \in K : IsFiniteSet(of[m])
  <2>. SUFFICES ASSUME NEW m \in K PROVE IsFiniteSet(of[m])
    OBVIOUS
  <2> DEFINE pair == [i \in DOMAIN w.kids[m] |-> <<m, i>>]
  <2>1. IsFiniteSet(DOMAIN w.kids[m])
    BY KidsFacts, IntervalFinite
  <2>2. pair \in Surjection(DOMAIN w.kids[m], of[m])
    BY DEF Surjection
  <2>. QED
    BY <2>1, <2>2, FS_Surjection
<1>3. IsFiniteSet({ of[m] : m \in K })
  <2>. HIDE DEF of, K
  <2>. QED
    BY <1>1, ImageFinite
<1>4. IsFiniteSet(UNION { of[m] : m \in K })
  <2>1. \A T \in { of[m] : m \in K } : IsFiniteSet(T)
    BY <1>2, Zenon
  <2>. QED
    BY <1>3, <2>1, FS_UNION
<1>5. Parents(w.kids, n) \in SUBSET UNION { of[m] : m \in K }
  BY DEF Parents, Edges
<1>. QED
  BY <1>4, <1>5, FS_Subset

LEMMA CardInt ==
    ASSUME NEW S, IsFiniteSet(S)
    PROVE  Cardinality(S) \in Nat
BY FS_CardinalityType

----------------------------------------------------------------------------
(* Types.                                                                  *)

\* The call that goes on is one with a child left.
LEMMA CallerFacts ==
    ASSUME TypeInv, Walking, NEW c \in Caller
    PROVE  /\ c \in DOMAIN stack /\ stack[c] \in Frame /\ ~stack[c].waits
           /\ stack[c].node \in Node
           /\ stack[c].at \in DOMAIN self.kids[stack[c].node]
           /\ Child(c) \in Node
           /\ Visitor(c) \in DOMAIN flows
<1>1. stack \in Seq(Frame) /\ stack # << >>
  BY DEF TypeInv, TypeOK, Walking
<1>2. Len(stack) \in DOMAIN stack
  BY <1>1
<1>3. c \in DOMAIN stack /\ More(stack[c])
  BY <1>2 DEF Caller, Ready, Top
<1>4. stack[c] \in Frame
  BY <1>1, <1>3
<1>5. /\ ~stack[c].waits
      /\ stack[c].node \in Node
      /\ stack[c].at \in Nat \ {0} /\ stack[c].at <= Len(self.kids[stack[c].node])
  BY <1>3, <1>4 DEF More, Frame
<1>6. stack[c].at \in DOMAIN self.kids[stack[c].node]
  BY <1>5, KidsFacts DEF TypeInv, Node
<1>7. Child(c) \in Node
  BY <1>5, <1>6, KidsFacts DEF TypeInv, Node, Child
<1>8. stack[c].vs \in Seq(DOMAIN flows) /\ Len(stack[c].vs) = Len(self.kids[stack[c].node])
  BY <1>3, <1>4, <1>5 DEF Frame, TypeInv, FrameOK
<1>9. Visitor(c) \in DOMAIN flows
  BY <1>5, <1>8 DEF Visitor
<1>. QED
  BY <1>3, <1>4, <1>5, <1>6, <1>7, <1>9

\* The visitors of a branch are new ones, and as many as it has alternatives.
LEMMA ClonesFacts ==
    ASSUME self \in Walks, NEW n \in Node, NEW flow \in Flow
    PROVE  /\ Clones(n, flow) \in Seq(Flow)
           /\ Len(self.kids[n]) \in Nat
           /\ Len(Clones(n, flow)) = IF n \in self.splits /\ Len(self.kids[n]) > 0
                                     THEN Len(self.kids[n]) - 1 ELSE 0
<1> DEFINE l == Len(self.kids[n])
           k == IF n \in self.splits /\ l > 0 THEN l - 1 ELSE 0
<1>1. l \in Nat
  BY KidsFacts DEF Node
<1>2. k \in Nat /\ (1 .. k) = 1 .. IF n \in self.splits THEN l - 1 ELSE 0
  BY <1>1
<1>3. Clones(n, flow) = [i \in 1 .. k |-> flow]
  BY <1>2, Zenon DEF Clones
<1>. HIDE DEF k, Flow
<1>4. [i \in 1 .. k |-> flow] \in Seq(Flow) /\ Len([i \in 1 .. k |-> flow]) = k
  BY <1>2
<1>. QED
  BY <1>1, <1>3, <1>4 DEF k

LEMMA VisitorsFacts ==
    ASSUME self \in Walks, NEW n \in Node, NEW S, NEW v \in S, NEW count \in Nat,
           \A x \in Nat : x > count /\ x < count + Len(self.kids[n]) /\ n \in self.splits => x \in S
    PROVE  Visitors(n, v, count) \in Seq(S) /\ Len(Visitors(n, v, count)) = Len(self.kids[n])
<1> DEFINE l == Len(self.kids[n])
           f == [i \in 1 .. l |-> IF n \in self.splits /\ i > 1 THEN count + i - 1 ELSE v]
<1>1. l \in Nat
  BY KidsFacts DEF Node
<1>2. \A i \in 1 .. l : f[i] \in S
  <2>. SUFFICES ASSUME NEW i \in 1 .. l PROVE f[i] \in S
    OBVIOUS
  <2>1. CASE n \in self.splits /\ i > 1
    <3>1. count + i - 1 \in Nat /\ count + i - 1 > count /\ count + i - 1 < count + l
      BY <1>1, <2>1
    <3>. QED
      BY <2>1, <3>1
  <2>2. CASE ~(n \in self.splits /\ i > 1)
    BY <2>2
  <2>. QED
    BY <2>1, <2>2
<1>3. f = [i \in 1 .. l |-> f[i]]
  OBVIOUS
<1>4. f = Visitors(n, v, count)
  BY DEF Visitors
<1>. HIDE DEF f, l
<1>5. f \in Seq(S) /\ Len(f) = l
  BY <1>1, <1>2, <1>3
<1>. QED
  BY <1>4, <1>5 DEF l

LEMMA TypeInit == Init => TypeInv
<1>. SUFFICES ASSUME Init PROVE TypeInv
  OBVIOUS
<1>1. self \in Walks
  BY DEF Init
<1>2. /\ points = JoinPoints(self)
      /\ tracker = With(<< >>, 1, "busy")
      /\ flows = << {1} >> \o Clones(1, {1})
      /\ stack = << Call(1, 1, FALSE, Visitors(1, 1, 1)) >>
      /\ status = "run"
      /\ times = [n \in Node |-> IF n = 1 THEN 1 ELSE 0]
  BY DEF Init, Node
<1>3. 1 \in Node
  BY <1>1, KidsFacts DEF Node
<1>4. DOMAIN points = SharedNodes(self) \ self.filtered
  BY <1>2 DEF JoinPoints
<1>5. \A n \in DOMAIN points : points[n] \in [vclone : Flow, count : Int, done : BOOLEAN]
  <2>. SUFFICES ASSUME NEW n \in DOMAIN points
                PROVE  points[n] \in [vclone : Flow, count : Int, done : BOOLEAN]
    OBVIOUS
  <2>1. points[n] = [vclone |-> {}, count |-> Cardinality(Parents(self.kids, n)) - 1, done |-> FALSE]
    BY <1>2, <1>4 DEF JoinPoints, Absent
  <2>2. Cardinality(Parents(self.kids, n)) \in Nat
    BY <1>1, ParentsFinite, CardInt
  <2>. QED
    BY <2>1, <2>2 DEF Flow
<1>6. DOMAIN tracker \subseteq Node /\ Range(tracker) \subseteq {"busy", "done"}
  BY <1>2, <1>3 DEF With, Range
<1> DEFINE k == IF 1 \in self.splits THEN Len(self.kids[1]) - 1 ELSE 0
<1>7. /\ Clones(1, {1}) \in Seq(Flow)
      /\ Len(self.kids[1]) \in Nat
      /\ Len(Clones(1, {1})) = IF 1 \in self.splits /\ Len(self.kids[1]) > 0
                               THEN Len(self.kids[1]) - 1 ELSE 0
  BY <1>1, <1>3, ClonesFacts DEF Flow
<1>8. /\ flows \in Seq(Flow)
      /\ Len(flows) = 1 + Len(Clones(1, {1}))
      /\ DOMAIN flows = 1 .. Len(flows)
  BY <1>2, <1>3, <1>7 DEF Flow
<1>9. Visitors(1, 1, 1) \in Seq(DOMAIN flows) /\ Len(Visitors(1, 1, 1)) = Len(self.kids[1])
  <2>1. 1 \in DOMAIN flows /\ 1 \in Nat
    BY <1>7, <1>8
  <2>2. \A x \in Nat : x > 1 /\ x < 1 + Len(self.kids[1]) /\ 1 \in self.splits => x \in DOMAIN flows
    BY <1>7, <1>8
  <2>. QED
    BY <1>1, <1>3, <2>1, <2>2, VisitorsFacts
<1>10. Call(1, 1, FALSE, Visitors(1, 1, 1)) \in Frame
  BY <1>3, <1>8, <1>9 DEF Call, Frame
<1>11. stack \in Seq(Frame) /\ stack # << >> /\ Len(stack) = 1
  <2>. HIDE DEF Frame
  <2> DEFINE f == Call(1, 1, FALSE, Visitors(1, 1, 1))
  <2>1. f \in Frame /\ stack = << f >>
    BY <1>2, <1>10
  <2>. HIDE DEF f
  <2>. QED
    BY <2>1
<1>12. \A i \in DOMAIN stack : FrameOK(stack[i], self, points)
  <2>1. DOMAIN stack = {1} /\ stack[1] = Call(1, 1, FALSE, Visitors(1, 1, 1))
    BY <1>2, <1>11
  <2>. QED
    BY <2>1, <1>9 DEF FrameOK, Call
<1>14. ~stack[1].waits
  BY <1>2 DEF Call
<1>13. times \in [Node -> Nat]
  BY <1>2
<1>. QED
  BY <1>1, <1>2, <1>4, <1>5, <1>6, <1>8, <1>11, <1>12, <1>13, <1>14 DEF TypeInv, TypeOK
\* What a call of a child changes of the stack.
LEMMA CalledFacts ==
    ASSUME TypeInv, Walking, NEW c \in Caller
    PROVE  /\ Called(c) \in Seq(Frame) /\ Called(c) # << >>
           /\ Len(Called(c)) = Len(stack) /\ Len(stack) \in Nat \ {0}
           /\ DOMAIN Called(c) = 1 .. Len(stack) /\ DOMAIN stack = 1 .. Len(stack)
           /\ \A i \in DOMAIN stack :
                 Called(c)[i] = IF i = c THEN [stack[i] EXCEPT !.at = @ + 1] ELSE stack[i]
           /\ \A i \in DOMAIN stack : FrameOK(Called(c)[i], self, points)
           /\ ~Called(c)[1].waits
<1>1. stack \in Seq(Frame) /\ stack # << >>
  BY DEF TypeInv, TypeOK, Walking
<1>2. c \in DOMAIN stack /\ stack[c] \in Frame
  BY CallerFacts
<1> DEFINE f == [stack[c] EXCEPT !.at = @ + 1]
<1>3. f \in Frame
  BY <1>2 DEF Frame
<1>4. Called(c) = [stack EXCEPT ![c] = f]
  BY DEF Called
<1>5. \A i \in DOMAIN stack : FrameOK(stack[i], self, points)
  BY DEF TypeInv
<1>6. FrameOK(f, self, points)
  BY <1>2, <1>5 DEF FrameOK, Frame
<1>. HIDE DEF f
<1>7. [stack EXCEPT ![c] = f] \in Seq(Frame)
  BY <1>1, <1>2, <1>3
<1>8. /\ Len(Called(c)) = Len(stack) /\ Len(stack) \in Nat \ {0}
      /\ DOMAIN Called(c) = 1 .. Len(stack) /\ DOMAIN stack = 1 .. Len(stack)
  BY <1>1, <1>2, <1>4, <1>7
<1>9. \A i \in DOMAIN stack : Called(c)[i] = IF i = c THEN f ELSE stack[i]
  BY <1>4
<1>10. \A i \in DOMAIN stack : FrameOK(Called(c)[i], self, points)
  BY <1>5, <1>6, <1>9
<1>11. Called(c) # << >>
  BY <1>8
<1>12. ~Called(c)[1].waits
  <2>1. ~stack[1].waits /\ stack[1] \in Frame
    BY <1>1, <1>8 DEF TypeInv
  <2>2. f.waits = stack[c].waits
    BY <1>2 DEF f, Frame
  <2>. QED
    BY <2>1, <2>2, <1>8, <1>9
<1>. QED
  BY <1>4, <1>7, <1>8, <1>9, <1>10, <1>11, <1>12 DEF f

LEMMA WaitType ==
    ASSUME TypeInv, Walking, NEW c \in Caller, WaitAt(c)
    PROVE  TypeInv'
<1> DEFINE n == Child(c)
           v == Visitor(c)
           f == Call(n, v, TRUE, << >>)
           acc == Accumulated(points[n], flows[v])
<1>1. n \in Node /\ v \in DOMAIN flows
  BY CallerFacts
<1>2. /\ n \in DOMAIN points
      /\ points' = [points EXCEPT ![n].vclone = acc, ![n].count = @ - 1]
      /\ stack' = IF self.broken THEN Called(c) ELSE Append(Called(c), f)
      /\ UNCHANGED <<self, tracker, flows, status, times>>
  BY DEF WaitAt, Pends, IsJoin, history
<1>3. acc \in Flow
  BY <1>1, <1>2 DEF Accumulated, TypeInv, TypeOK, Flow
<1>. HIDE DEF acc
<1>4. /\ DOMAIN points' = DOMAIN points
      /\ \A m \in DOMAIN points : points'[m] \in [vclone : Flow, count : Int, done : BOOLEAN]
  <2>1. PICK p : p = [points[n] EXCEPT !.vclone = acc, !.count = @ - 1]
    OBVIOUS
  <2>2. \A m \in DOMAIN points : points[m] \in [vclone : Flow, count : Int, done : BOOLEAN]
    BY DEF TypeInv, TypeOK
  <2>3. p \in [vclone : Flow, count : Int, done : BOOLEAN]
    BY <1>2, <1>3, <2>1, <2>2
  <2>4. points' = [points EXCEPT ![n] = p]
    BY <1>2, <2>1
  <2>. QED
    BY <2>2, <2>3, <2>4
<1>5. f \in Frame /\ FrameOK(f, self, points)
  BY <1>1, <1>2 DEF Call, Frame, FrameOK
<1>. HIDE DEF f
<1>6. stack' \in Seq(Frame) /\ stack' # << >> /\ ~stack'[1].waits
  BY <1>2, <1>5, CalledFacts
<1>7. \A i \in DOMAIN stack' : FrameOK(stack'[i], self, points)
  <2>1. CASE self.broken
    BY <1>2, <2>1, CalledFacts
  <2>2. CASE ~self.broken
    <3>1. stack' = Append(Called(c), f)
      BY <1>2, <2>2
    <3>2. \A i \in DOMAIN stack' : i \in DOMAIN stack \/ stack'[i] = f
      BY <3>1, <1>5, CalledFacts
    <3>3. \A i \in DOMAIN stack : stack'[i] = Called(c)[i]
      BY <3>1, <1>5, CalledFacts
    <3>. QED
      BY <1>5, <3>2, <3>3, CalledFacts
  <2>. QED
    BY <2>1, <2>2
<1>8. \A i \in DOMAIN stack' : FrameOK(stack'[i], self', points')
  <2>. SUFFICES ASSUME NEW i \in DOMAIN stack' PROVE FrameOK(stack'[i], self', points')
    OBVIOUS
  <2>1. FrameOK(stack'[i], self, points) /\ self' = self /\ DOMAIN points' = DOMAIN points
    BY <1>2, <1>4, <1>7
  <2>. QED
    BY <2>1 DEF FrameOK
<1>9. Flow' = Flow /\ Node' = Node /\ Frame' = Frame
  BY <1>2 DEF Flow, Node, Frame
<1>. QED
  BY <1>2, <1>4, <1>6, <1>8, <1>9 DEF TypeInv, TypeOK
\* What a visitor has after a join, and the join points before and after a visit.
LEMMA JoinFacts ==
    ASSUME TypeInv, NEW n \in Node, NEW v \in DOMAIN flows
    PROVE  /\ Joined(n, v) \in Flow
           /\ DOMAIN Counted(n) = DOMAIN points
           /\ \A m \in DOMAIN points :
                 Counted(n)[m] \in [vclone : Flow, count : Int, done : BOOLEAN]
<1>1. flows[v] \in Flow
  BY DEF TypeInv, TypeOK
<1>2. n \in DOMAIN points => points[n].vclone \in Flow
  BY DEF TypeInv, TypeOK
<1>3. Joined(n, v) \in Flow
  BY <1>1, <1>2 DEF Joined, IsJoin, Flow
<1>4. DOMAIN Counted(n) = DOMAIN points
  BY DEF Counted
<1>5. \A m \in DOMAIN points : points[m] \in [vclone : Flow, count : Int, done : BOOLEAN]
  BY DEF TypeInv, TypeOK
<1>6. \A m \in DOMAIN points : Counted(n)[m] \in [vclone : Flow, count : Int, done : BOOLEAN]
  <2>. HIDE DEF Flow
  <2>. QED
    BY <1>5 DEF Counted, IsJoin
<1>. QED
  BY <1>3, <1>4, <1>6

LEMMA LeftFacts ==
    ASSUME NEW pts, NEW n, NEW flow \in Flow, DOMAIN pts = DOMAIN points,
           \A m \in DOMAIN pts : pts[m] \in [vclone : Flow, count : Int, done : BOOLEAN]
    PROVE  /\ DOMAIN Left(pts, n, flow) = DOMAIN points
           /\ \A m \in DOMAIN points :
                 Left(pts, n, flow)[m] \in [vclone : Flow, count : Int, done : BOOLEAN]
<1>. HIDE DEF Flow
<1>. QED
  BY DEF Left, IsJoin

LEMMA BeginType ==
    ASSUME TypeInv, Walking, NEW c \in Caller, Begin(c)
    PROVE  TypeInv'
<1> DEFINE n == Child(c)
           v == Visitor(c)
           flow == Joined(n, v) \union {n}
           f == Call(n, v, FALSE, Visitors(n, v, Len(flows)))
           set == [flows EXCEPT ![v] = flow]
<1>1. n \in Node /\ v \in DOMAIN flows
  BY CallerFacts
<1>2. /\ points' = Counted(n)
      /\ tracker' = With(tracker, n, "busy")
      /\ flows' = set \o Clones(n, flow)
      /\ stack' = Append(Called(c), f)
      /\ times' = [times EXCEPT ![n] = @ + 1]
      /\ UNCHANGED <<self, status>>
  BY DEF Begin
<1>3. Flow' = Flow /\ Node' = Node
  BY <1>2 DEF Flow, Node
<1>4. /\ DOMAIN points' = DOMAIN points
      /\ \A m \in DOMAIN points' : points'[m] \in [vclone : Flow, count : Int, done : BOOLEAN]
  BY <1>1, <1>2, JoinFacts
<1>5. DOMAIN tracker' \subseteq Node /\ Range(tracker') \subseteq {"busy", "done"}
  BY <1>1, <1>2 DEF With, Range, TypeInv, TypeOK
<1>6. self \in Walks /\ flows \in Seq(Flow)
  BY DEF TypeInv, TypeOK
<1>7. flow \in Flow
  BY <1>1, JoinFacts DEF Flow
<1>. HIDE DEF flow
<1>8. /\ Clones(n, flow) \in Seq(Flow) /\ Len(self.kids[n]) \in Nat
      /\ Len(Clones(n, flow)) = IF n \in self.splits /\ Len(self.kids[n]) > 0
                                THEN Len(self.kids[n]) - 1 ELSE 0
  <2>. HIDE DEF n
  <2>. QED
    BY <1>1, <1>6, <1>7, ClonesFacts
<1>9. set \in Seq(Flow) /\ Len(set) = Len(flows) /\ Len(flows) \in Nat
      /\ DOMAIN flows = 1 .. Len(flows)
  <2>. HIDE DEF Flow, v
  <2>. QED
    BY <1>1, <1>6, <1>7
<1>10. /\ flows' \in Seq(Flow)
       /\ Len(flows') = Len(flows) + Len(Clones(n, flow))
       /\ DOMAIN flows' = 1 .. Len(flows')
  <2> DEFINE clones == Clones(n, flow)
  <2>. HIDE DEF clones, set, Flow
  <2>1. flows' = set \o clones /\ clones \in Seq(Flow)
    BY <1>2, <1>8 DEF clones
  <2>2. flows' \in Seq(Flow) /\ Len(flows') = Len(set) + Len(clones)
    <3>1. set \in Seq(Flow)
      BY <1>9
    <3>2. set \o clones \in Seq(Flow) /\ Len(set \o clones) = Len(set) + Len(clones)
      BY <2>1, <3>1
    <3>. QED
      BY <2>1, <3>2
  <2>. QED
    BY <2>2, <1>9 DEF clones
<1>11. DOMAIN flows \subseteq DOMAIN flows'
  BY <1>8, <1>9, <1>10
<1>12. Visitors(n, v, Len(flows)) \in Seq(DOMAIN flows')
       /\ Len(Visitors(n, v, Len(flows))) = Len(self.kids[n])
  <2>1. v \in DOMAIN flows' /\ Len(flows) \in Nat
    BY <1>1, <1>9, <1>11
  <2>2. \A x \in Nat : x > Len(flows) /\ x < Len(flows) + Len(self.kids[n]) /\ n \in self.splits
            => x \in DOMAIN flows'
    BY <1>8, <1>9, <1>10
  <2>. HIDE DEF n, v
  <2>. QED
    BY <1>1, <1>6, <2>1, <2>2, VisitorsFacts
<1>13. f \in Frame' /\ FrameOK(f, self', points')
  BY <1>1, <1>2, <1>3, <1>11, <1>12 DEF Call, Frame, FrameOK
<1>. HIDE DEF f
<1>14. Called(c) \in Seq(Frame')
  <2>1. Frame \subseteq Frame'
    <3>1. Seq(DOMAIN flows) \subseteq Seq(DOMAIN flows')
      BY <1>11
    <3>. QED
      BY <1>3, <1>11, <3>1 DEF Frame
  <2>2. Called(c) \in Seq(Frame)
    BY CalledFacts
  <2>. HIDE DEF Frame
  <2>. QED
    BY <2>1, <2>2
<1>15. stack' \in Seq(Frame') /\ stack' # << >> /\ ~stack'[1].waits
  BY <1>2, <1>13, <1>14, CalledFacts
<1>16. \A i \in DOMAIN stack' : FrameOK(stack'[i], self', points')
  <2>. SUFFICES ASSUME NEW i \in DOMAIN stack' PROVE FrameOK(stack'[i], self', points')
    OBVIOUS
  <2>1. \/ i \in DOMAIN stack /\ stack'[i] = Called(c)[i]
        \/ stack'[i] = f
    BY <1>2, <1>13, <1>14, CalledFacts
  <2>2. CASE stack'[i] = f
    BY <1>13, <2>2
  <2>3. CASE i \in DOMAIN stack /\ stack'[i] = Called(c)[i]
    <3>1. FrameOK(stack'[i], self, points)
      BY <2>3, CalledFacts
    <3>. QED
      BY <3>1, <1>2, <1>4 DEF FrameOK
  <2>. QED
    BY <2>1, <2>2, <2>3
<1>17. times' \in [Node -> Nat]
  BY <1>1, <1>2 DEF TypeInv
<1>. QED
  BY <1>2, <1>3, <1>4, <1>5, <1>10, <1>15, <1>16, <1>17 DEF TypeInv, TypeOK
LEMMA RevisitType ==
    ASSUME TypeInv, Walking, NEW c \in Caller, Revisit(c)
    PROVE  TypeInv'
<1> DEFINE n == Child(c)
           v == Visitor(c)
           flow == Joined(n, v)
<1>1. n \in Node /\ v \in DOMAIN flows /\ flow \in Flow
  BY CallerFacts, JoinFacts
<1>2. /\ points' = Left(Counted(n), n, flow)
      /\ flows' = [flows EXCEPT ![v] = flow]
      /\ stack' = Called(c)
      /\ status' \in {"twice", status}
      /\ UNCHANGED <<self, tracker, times>>
  BY DEF Revisit, history
<1>3. Flow' = Flow /\ Node' = Node /\ DOMAIN flows' = DOMAIN flows
  BY <1>2 DEF Flow, Node
<1>4. Frame' = Frame
  BY <1>3 DEF Frame
<1>5. /\ DOMAIN points' = DOMAIN points
      /\ \A m \in DOMAIN points' : points'[m] \in [vclone : Flow, count : Int, done : BOOLEAN]
  <2>1. /\ DOMAIN Counted(n) = DOMAIN points
        /\ \A m \in DOMAIN Counted(n) :
              Counted(n)[m] \in [vclone : Flow, count : Int, done : BOOLEAN]
    BY <1>1, JoinFacts
  <2>. HIDE DEF n, flow
  <2>. QED
    BY <1>1, <1>2, <2>1, LeftFacts
<1>6. flows' \in Seq(Flow)
  <2>1. flows \in Seq(Flow)
    BY DEF TypeInv, TypeOK
  <2>. HIDE DEF flow, v, Flow
  <2>. QED
    BY <1>1, <1>2, <2>1
<1>7. \A i \in DOMAIN stack' : FrameOK(stack'[i], self', points')
  <2>1. \A i \in DOMAIN stack' : FrameOK(stack'[i], self, points)
    BY <1>2, CalledFacts
  <2>. QED
    BY <2>1, <1>2, <1>5 DEF FrameOK
<1>8. stack' \in Seq(Frame) /\ stack' # << >> /\ ~stack'[1].waits
  BY <1>2, CalledFacts
<1>. QED
  BY <1>2, <1>3, <1>4, <1>5, <1>6, <1>7, <1>8 DEF TypeInv, TypeOK

\* The stack without the innermost call.
LEMMA PopFacts ==
    ASSUME TypeInv, Walking
    PROVE  /\ Top \in Frame /\ FrameOK(Top, self, points)
           /\ Len(stack) \in Nat \ {0} /\ DOMAIN stack = 1 .. Len(stack)
           /\ Pop \in Seq(Frame) /\ DOMAIN Pop = 1 .. Len(stack) - 1
           /\ \A i \in DOMAIN Pop : Pop[i] = stack[i] /\ FrameOK(Pop[i], self, points)
           /\ Top.waits => Pop # << >>
           /\ Pop # << >> => ~Pop[1].waits
<1>1. stack \in Seq(Frame) /\ stack # << >>
  BY DEF TypeInv, TypeOK, Walking
<1>. HIDE DEF Frame
<1>2. Len(stack) \in Nat \ {0} /\ DOMAIN stack = 1 .. Len(stack)
  BY <1>1
<1>3. Top \in Frame /\ FrameOK(Top, self, points)
  BY <1>1, <1>2 DEF Top, TypeInv
<1>4. Pop \in Seq(Frame) /\ Len(Pop) = Len(stack) - 1 /\ DOMAIN Pop = 1 .. Len(stack) - 1
      /\ \A i \in DOMAIN Pop : Pop[i] = stack[i]
  BY <1>1, <1>2 DEF Pop
<1>5. \A i \in DOMAIN Pop : FrameOK(Pop[i], self, points)
  BY <1>2, <1>4 DEF TypeInv
<1>6. ~stack[1].waits
  BY <1>1 DEF TypeInv
<1>7. Pop # << >> <=> Len(stack) > 1
  BY <1>2, <1>4
<1>8. Top.waits => Pop # << >>
  BY <1>2, <1>6, <1>7 DEF Top
<1>9. Pop # << >> => ~Pop[1].waits
  BY <1>2, <1>4, <1>6, <1>7
<1>. QED
  BY <1>2, <1>3, <1>4, <1>5, <1>8, <1>9

\* What the visitors of a branch have gathered, merged.
Merged == flows[Top.vis] \union UNION { flows[Top.vs[i]] : i \in DOMAIN Top.vs }

LEMMA FinishType == TypeInv /\ Finish => TypeInv'
<1>. SUFFICES ASSUME TypeInv, Finish PROVE TypeInv'
  OBVIOUS
<1>1. /\ Walking
      /\ flows' = [flows EXCEPT ![Top.vis] = Merged]
      /\ tracker' = [tracker EXCEPT ![Top.node] = "done"]
      /\ points' = Left(points, Top.node, Merged)
      /\ stack' = Pop
      /\ status' = IF LeftTwice(points, Top.node) THEN "twice"
                   ELSE IF Pop = << >> THEN "done"
                   ELSE status
      /\ UNCHANGED <<self, times>>
  BY DEF Finish, Merged, history
<1>2. Top \in Frame /\ flows \in Seq(Flow)
  BY <1>1, PopFacts DEF TypeInv, TypeOK
<1>3. Merged \in Flow
  <2>1. Top.vis \in DOMAIN flows /\ \A i \in DOMAIN Top.vs : Top.vs[i] \in DOMAIN flows
    BY <1>2 DEF Frame
  <2>2. \A j \in DOMAIN flows : flows[j] \subseteq Node
    BY <1>2 DEF Flow
  <2>. QED
    BY <2>1, <2>2 DEF Merged, Flow
<1>4. Flow' = Flow /\ Node' = Node /\ DOMAIN flows' = DOMAIN flows
  BY <1>1 DEF Flow, Node
<1>5. Frame' = Frame
  BY <1>1, <1>4 DEF Frame
<1>6. /\ DOMAIN points' = DOMAIN points
      /\ \A m \in DOMAIN points' : points'[m] \in [vclone : Flow, count : Int, done : BOOLEAN]
  <2>1. \A m \in DOMAIN points : points[m] \in [vclone : Flow, count : Int, done : BOOLEAN]
    BY DEF TypeInv, TypeOK
  <2>. QED
    BY <1>1, <1>3, <2>1, LeftFacts
<1>7. flows' \in Seq(Flow)
  <2>1. Top.vis \in DOMAIN flows
    BY <1>2 DEF Frame
  <2>. HIDE DEF Merged, Flow
  <2>. QED
    BY <1>1, <1>2, <1>3, <2>1
<1>8. DOMAIN tracker' \subseteq Node /\ Range(tracker') \subseteq {"busy", "done"}
  BY <1>1 DEF Range, TypeInv, TypeOK
<1>9. \A i \in DOMAIN stack' : FrameOK(stack'[i], self', points')
  <2>1. \A i \in DOMAIN stack' : FrameOK(stack'[i], self, points)
    BY <1>1, PopFacts
  <2>. QED
    BY <2>1, <1>1, <1>6 DEF FrameOK
<1>10. stack' \in Seq(Frame) /\ (stack' # << >> => ~stack'[1].waits)
  BY <1>1, PopFacts
<1>11. status' \in {"run", "done", "loop", "twice", "unfinished"}
       /\ (status' = "run" => stack' # << >>)
  BY <1>1 DEF TypeInv, TypeOK
<1>. QED
  BY <1>1, <1>4, <1>5, <1>6, <1>7, <1>8, <1>9, <1>10, <1>11 DEF TypeInv, TypeOK

LEMMA ResumeType == TypeInv /\ Resume => TypeInv'
<1>. SUFFICES ASSUME TypeInv, Resume PROVE TypeInv'
  OBVIOUS
<1>1. /\ Walking /\ Top.waits
      /\ flows' = [flows EXCEPT ![Top.vis] = points[Top.node].vclone]
      /\ status' = IF points[Top.node].done THEN status ELSE "unfinished"
      /\ stack' = Pop
      /\ UNCHANGED <<self, points, tracker, times>>
  BY DEF Resume, Resumed, AfterWait, history
<1>2. Top \in Frame /\ flows \in Seq(Flow) /\ Top.node \in DOMAIN points
  BY <1>1, PopFacts DEF TypeInv, TypeOK, FrameOK
<1> DEFINE flow == points[Top.node].vclone
<1>3. flow \in Flow /\ Top.vis \in DOMAIN flows
  BY <1>2 DEF TypeInv, TypeOK, Frame
<1>4. Flow' = Flow /\ Node' = Node /\ DOMAIN flows' = DOMAIN flows
  BY <1>1 DEF Flow, Node
<1>5. Frame' = Frame
  BY <1>1, <1>4 DEF Frame
<1>6. flows' \in Seq(Flow)
  <2>. HIDE DEF flow, Flow
  <2>1. flows' = [flows EXCEPT ![Top.vis] = flow]
    BY <1>1 DEF flow
  <2>. QED
    BY <1>2, <1>3, <2>1
<1>7. stack' \in Seq(Frame) /\ \A i \in DOMAIN stack' : FrameOK(stack'[i], self', points')
  BY <1>1, PopFacts
<1>8. stack' # << >> /\ ~stack'[1].waits
  BY <1>1, PopFacts
<1>. QED
  BY <1>1, <1>4, <1>5, <1>6, <1>7, <1>8 DEF TypeInv, TypeOK
\* Each step keeps the types.
LEMMA TypeStep == TypeInv /\ [Next]_vars => TypeInv'
<1>. SUFFICES ASSUME TypeInv, [Next]_vars PROVE TypeInv'
  OBVIOUS
<1>1. CASE VisitChild
  <2>1. PICK c \in Caller : WaitAt(c) \/ Begin(c) \/ Revisit(c) \/ LoopFound(c)
    BY <1>1 DEF VisitChild
  <2>2. Walking
    BY <1>1 DEF VisitChild
  <2>3. CASE LoopFound(c)
    <3>1. status' = "loop" /\ UNCHANGED <<self, points, tracker, flows, stack, times>>
      BY <2>3 DEF LoopFound, history
    <3>2. Node' = Node /\ Flow' = Flow /\ Frame' = Frame
      BY <3>1 DEF Node, Flow, Frame
    <3>. QED
      BY <3>1, <3>2 DEF TypeInv, TypeOK
  <2>. QED
    BY <2>1, <2>2, <2>3, WaitType, BeginType, RevisitType
<1>2. CASE Finish
  BY <1>2, FinishType
<1>3. CASE Resume
  BY <1>3, ResumeType
<1>4. CASE GiveUp
  <2>1. status' = "unfinished" /\ UNCHANGED <<self, points, tracker, flows, stack, times>>
    BY <1>4 DEF GiveUp, history
  <2>2. Node' = Node /\ Flow' = Flow /\ Frame' = Frame
    BY <2>1 DEF Node, Flow, Frame
  <2>. QED
    BY <2>1, <2>2 DEF TypeInv, TypeOK
<1>5. CASE UNCHANGED vars
  <2>1. UNCHANGED <<self, points, tracker, flows, stack, status, times>>
    BY <1>5 DEF vars, history
  <2>2. Node' = Node /\ Flow' = Flow /\ Frame' = Frame
    BY <2>1 DEF Node, Flow, Frame
  <2>. QED
    BY <2>1, <2>2 DEF TypeInv, TypeOK
<1>. QED
  BY <1>1, <1>2, <1>3, <1>4, <1>5 DEF Next

(***************************************************************************)
(* The join points, the clones and the calls in progress are well typed:   *)
(* every call is one of a visitor that exists, for every IR.               *)
(***************************************************************************)
THEOREM TypeTheorem == Spec => []TypeOK
<1>1. TypeInv => TypeOK
  BY DEF TypeInv
<1>. QED
  BY <1>1, TypeInit, TypeStep, PTL DEF Spec
----------------------------------------------------------------------------
(***************************************************************************)
(* Why no join point is visited twice.  The children of a node are called  *)
(* one after the other, by the one call that visits it: an edge of the IR  *)
(* is used once, and a join point counts the edges to it that are.  It is  *)
(* visited with the last of them, so nobody can come back to it.           *)
(***************************************************************************)
EdgeUsed(e) ==
    /\ e[1] \in DOMAIN tracker
    /\ \/ tracker[e[1]] = "done"
       \/ \E i \in DOMAIN stack :
             ~stack[i].waits /\ stack[i].node = e[1] /\ e[2] < stack[i].at
Used == { e \in Edges(self.kids) : EdgeUsed(e) }
UsedTo(n) == Used \intersect Parents(self.kids, n)

OneVisitEach ==
    /\ \A i \in DOMAIN stack :
          ~stack[i].waits =>
             stack[i].node \in DOMAIN tracker /\ tracker[stack[i].node] = "busy"
    /\ \A i, j \in DOMAIN stack :
          ~stack[i].waits /\ ~stack[j].waits /\ stack[i].node = stack[j].node => i = j
EdgesCounted ==
    \A n \in DOMAIN points :
        /\ points[n].count = Cardinality(Parents(self.kids, n)) - 1 - Cardinality(UsedTo(n))
        /\ points[n].done => n \in DOMAIN tracker /\ tracker[n] = "done"
VisitedLast ==
    /\ \A n \in Node : times[n] = IF n \in DOMAIN tracker THEN 1 ELSE 0
    /\ \A n \in DOMAIN tracker : Parents(self.kids, n) \subseteq Used

JoinInv ==
    OneVisitEach /\ EdgesCounted /\ VisitedLast /\ status \notin {"twice", "loop"}

LEMMA EdgeFacts ==
    ASSUME NEW w \in Walks, NEW e \in Edges(w.kids)
    PROVE  e = <<e[1], e[2]>> /\ e[1] \in DOMAIN w.kids /\ e[2] \in DOMAIN w.kids[e[1]]
           /\ e[2] \in Nat \ {0}
<1>1. PICK n \in DOMAIN w.kids : e \in { <<n, i>> : i \in DOMAIN w.kids[n] }
  BY DEF Edges
<1>2. PICK i \in DOMAIN w.kids[n] : e = <<n, i>>
  BY <1>1
<1>. QED
  BY <1>2, KidsFacts

LEMMA JoinInit == Init => JoinInv
<1>. SUFFICES ASSUME Init PROVE JoinInv
  OBVIOUS
<1>1. TypeInv
  BY TypeInit
<1>2. /\ self \in Walks /\ points = JoinPoints(self)
      /\ tracker = With(<< >>, 1, "busy")
      /\ stack = << Call(1, 1, FALSE, Visitors(1, 1, 1)) >>
      /\ status = "run"
      /\ times = [n \in Node |-> IF n = 1 THEN 1 ELSE 0]
  BY DEF Init, Node
<1>3. DOMAIN tracker = {1} /\ tracker[1] = "busy"
  BY <1>2 DEF With
<1>4. DOMAIN stack = {1} /\ ~stack[1].waits /\ stack[1].node = 1 /\ stack[1].at = 1
  <2> DEFINE f == Call(1, 1, FALSE, Visitors(1, 1, 1))
  <2>1. ~f.waits /\ f.node = 1 /\ f.at = 1
    BY DEF Call
  <2>. HIDE DEF f
  <2>2. stack = << f >>
    BY <1>2 DEF f
  <2>3. DOMAIN stack = {1} /\ stack[1] = f
    BY <2>2
  <2>. QED
    BY <2>1, <2>3
<1>5. Used = {}
  <2>. SUFFICES ASSUME NEW e \in Edges(self.kids), EdgeUsed(e) PROVE FALSE
    BY DEF Used
  <2>1. e[2] \in Nat \ {0}
    BY <1>2, EdgeFacts
  <2>2. e[2] < 1
    BY <1>3, <1>4 DEF EdgeUsed
  <2>. QED
    BY <2>1, <2>2
<1>6. \A n : Parents(self.kids, n) \subseteq Edges(self.kids)
  BY DEF Parents
<1>7. OneVisitEach
  BY <1>3, <1>4 DEF OneVisitEach
<1>8. EdgesCounted
  <2>. SUFFICES ASSUME NEW n \in DOMAIN points
                PROVE  /\ points[n].count = Cardinality(Parents(self.kids, n)) - 1 - Cardinality(UsedTo(n))
                       /\ ~points[n].done
    BY DEF EdgesCounted
  <2>1. points[n].count = Cardinality(Parents(self.kids, n)) - 1 /\ ~points[n].done
    BY <1>2 DEF JoinPoints
  <2>2. UsedTo(n) = {}
    BY <1>5 DEF UsedTo
  <2>3. Cardinality(UsedTo(n)) = 0
    BY <2>2, FS_EmptySet
  <2>4. Cardinality(Parents(self.kids, n)) \in Nat
    BY <1>2, ParentsFinite, CardInt
  <2>. QED
    BY <2>1, <2>3, <2>4
<1>9. Parents(self.kids, 1) = {}
  <2>. SUFFICES ASSUME NEW e \in Edges(self.kids), self.kids[e[1]][e[2]] = 1 PROVE FALSE
    BY DEF Parents
  <2>1. e[1] \in DOMAIN self.kids /\ e[2] \in DOMAIN self.kids[e[1]]
    BY <1>2, EdgeFacts
  <2>. QED
    BY <1>2, <2>1, KidsFacts
<1>10. VisitedLast
  BY <1>2, <1>3, <1>9 DEF VisitedLast
<1>. QED
  BY <1>2, <1>7, <1>8, <1>10 DEF JoinInv

\* The edge along which a child is called has not been used, so neither has the child.
LEMMA CallEdge ==
    ASSUME TypeInv, JoinInv, Walking, NEW c \in Caller, NEW e, e = <<stack[c].node, stack[c].at>>
    PROVE  /\ e \in Parents(self.kids, Child(c)) /\ e \notin Used
           /\ Child(c) \notin DOMAIN tracker
<1>1. /\ c \in DOMAIN stack /\ stack[c] \in Frame /\ ~stack[c].waits
      /\ stack[c].node \in DOMAIN self.kids
      /\ stack[c].at \in DOMAIN self.kids[stack[c].node]
  BY CallerFacts DEF Node
<1>2. e \in Edges(self.kids)
  BY <1>1 DEF Edges
<1>3. e \in Parents(self.kids, Child(c))
  BY <1>2 DEF Parents, Child
<1>4. e \notin Used
  <2>. SUFFICES ASSUME EdgeUsed(e) PROVE FALSE
    BY DEF Used
  <2>1. tracker[stack[c].node] = "busy"
    BY <1>1 DEF JoinInv, OneVisitEach
  <2>2. PICK i \in DOMAIN stack :
            ~stack[i].waits /\ stack[i].node = stack[c].node /\ stack[c].at < stack[i].at
    BY <2>1 DEF EdgeUsed
  <2>3. i = c
    BY <1>1, <2>2 DEF JoinInv, OneVisitEach
  <2>4. stack[c].at \in Nat
    BY <1>1 DEF Frame
  <2>. QED
    BY <2>2, <2>3, <2>4
<1>5. Child(c) \notin DOMAIN tracker
  BY <1>3, <1>4 DEF JoinInv, VisitedLast
<1>. QED
  BY <1>3, <1>4, <1>5
\* The edges used after the call: that one more.
LEMMA UsedAfter ==
    ASSUME TypeInv, JoinInv, Walking, NEW c \in Caller, NEW e, e = <<stack[c].node, stack[c].at>>,
           self' = self,
           \A m \in DOMAIN tracker : m \in DOMAIN tracker' /\ tracker'[m] = tracker[m],
           \A m \in DOMAIN tracker' : m \in DOMAIN tracker \/ tracker'[m] = "busy",
           \A i \in DOMAIN stack : i \in DOMAIN stack' /\ stack'[i] = Called(c)[i],
           \A i \in DOMAIN stack' : i \in DOMAIN stack \/ stack'[i].waits \/ stack'[i].at = 1
    PROVE  Used' = Used \union {e}
<1>1. /\ c \in DOMAIN stack /\ stack[c] \in Frame /\ ~stack[c].waits
      /\ stack[c].node \in DOMAIN self.kids
      /\ stack[c].at \in DOMAIN self.kids[stack[c].node]
  BY CallerFacts DEF Node
<1>2. e \in Edges(self.kids)
  BY <1>1 DEF Edges
<1>3. stack \in Seq(Frame) /\ self \in Walks
  BY DEF TypeInv, TypeOK
<1>4. \A i \in DOMAIN stack :
        /\ stack'[i].waits = stack[i].waits /\ stack'[i].node = stack[i].node
        /\ stack'[i].at = IF i = c THEN stack[i].at + 1 ELSE stack[i].at
        /\ stack[i].at \in Nat
  <2>. SUFFICES ASSUME NEW i \in DOMAIN stack
                PROVE  /\ stack'[i].waits = stack[i].waits /\ stack'[i].node = stack[i].node
                       /\ stack'[i].at = IF i = c THEN stack[i].at + 1 ELSE stack[i].at
                       /\ stack[i].at \in Nat
    OBVIOUS
  <2>1. stack'[i] = IF i = c THEN [stack[i] EXCEPT !.at = @ + 1] ELSE stack[i]
    BY CalledFacts
  <2>2. stack[i] \in Frame
    BY <1>3
  <2>. QED
    BY <2>1, <2>2 DEF Frame
<1>5. Used' = { d \in Edges(self.kids) : EdgeUsed(d)' }
  BY DEF Used
<1>6. \A d \in Edges(self.kids) : EdgeUsed(d)' => EdgeUsed(d) \/ d = e
  <2>. SUFFICES ASSUME NEW d \in Edges(self.kids), EdgeUsed(d)' PROVE EdgeUsed(d) \/ d = e
    OBVIOUS
  <2>0. d = <<d[1], d[2]>> /\ d[2] \in Nat \ {0}
    BY <1>3, EdgeFacts
  <2>1. CASE tracker'[d[1]] = "done"
    <3>1. d[1] \in DOMAIN tracker'
      BY DEF EdgeUsed
    <3>. QED
      BY <2>1, <3>1 DEF EdgeUsed
  <2>2. CASE tracker'[d[1]] # "done"
    <3>1. PICK i \in DOMAIN stack' :
            ~stack'[i].waits /\ stack'[i].node = d[1] /\ d[2] < stack'[i].at
      BY <2>2 DEF EdgeUsed
    <3>2. i \in DOMAIN stack
      BY <2>0, <3>1
    <3>3. ~stack[i].waits /\ stack[i].node = d[1] /\ d[1] \in DOMAIN tracker
      BY <1>4, <3>1, <3>2 DEF JoinInv, OneVisitEach
    <3>4. CASE d[2] < stack[i].at
      BY <3>2, <3>3, <3>4 DEF EdgeUsed
    <3>5. CASE ~(d[2] < stack[i].at)
      <4>1. i = c /\ d[2] = stack[c].at
        BY <1>4, <2>0, <3>1, <3>2, <3>5
      <4>. QED
        BY <2>0, <3>3, <4>1
    <3>. QED
      BY <3>4, <3>5
  <2>. QED
    BY <2>1, <2>2
<1>7. \A d \in Edges(self.kids) : EdgeUsed(d) => EdgeUsed(d)'
  <2>. SUFFICES ASSUME NEW d \in Edges(self.kids), EdgeUsed(d) PROVE EdgeUsed(d)'
    OBVIOUS
  <2>0. d[2] \in Nat \ {0} /\ d[1] \in DOMAIN tracker /\ d[1] \in DOMAIN tracker'
        /\ tracker'[d[1]] = tracker[d[1]]
    BY <1>3, EdgeFacts DEF EdgeUsed
  <2>1. CASE tracker[d[1]] = "done"
    BY <2>0, <2>1 DEF EdgeUsed
  <2>2. CASE tracker[d[1]] # "done"
    <3>1. PICK i \in DOMAIN stack :
            ~stack[i].waits /\ stack[i].node = d[1] /\ d[2] < stack[i].at
      BY <2>2 DEF EdgeUsed
    <3>2. i \in DOMAIN stack' /\ ~stack'[i].waits /\ stack'[i].node = d[1] /\ d[2] < stack'[i].at
      BY <1>4, <2>0, <3>1
    <3>. QED
      BY <2>0, <3>2 DEF EdgeUsed
  <2>. QED
    BY <2>1, <2>2
<1>8. EdgeUsed(e)'
  <2>1. stack[c].node \in DOMAIN tracker
    BY <1>1 DEF JoinInv, OneVisitEach
  <2>2. c \in DOMAIN stack' /\ ~stack'[c].waits /\ stack'[c].node = stack[c].node
        /\ stack[c].at < stack'[c].at
    BY <1>1, <1>4
  <2>3. e[1] = stack[c].node /\ e[2] = stack[c].at
    OBVIOUS
  <2>. QED
    BY <2>1, <2>2, <2>3 DEF EdgeUsed
<1>. QED
  BY <1>2, <1>5, <1>6, <1>7, <1>8 DEF Used

\* One more parent of the child has been here, and of no other node.
LEMMA CountAfter ==
    ASSUME TypeInv, NEW n, NEW e \in Parents(self.kids, n), e \notin Used,
           self' = self, Used' = Used \union {e}, NEW m
    PROVE  /\ Cardinality(UsedTo(m)) \in Nat
           /\ Cardinality(UsedTo(m)') = Cardinality(UsedTo(m)) + IF m = n THEN 1 ELSE 0
<1>1. self \in Walks
  BY DEF TypeInv
<1>2. IsFiniteSet(UsedTo(m))
  <2>1. UsedTo(m) \in SUBSET Parents(self.kids, m)
    BY DEF UsedTo
  <2>. QED
    BY <1>1, <2>1, ParentsFinite, FS_Subset
<1>3. Cardinality(UsedTo(m)) \in Nat
  BY <1>2, CardInt
<1>4. e \in Parents(self.kids, m) <=> m = n
  BY DEF Parents
<1>5. CASE m = n
  <2>1. UsedTo(m)' = UsedTo(m) \union {e} /\ e \notin UsedTo(m)
    BY <1>5 DEF UsedTo
  <2>2. Cardinality(UsedTo(m) \union {e}) = Cardinality(UsedTo(m)) + 1
    BY <1>2, <2>1, FS_AddElement
  <2>. QED
    BY <1>3, <1>5, <2>1, <2>2
<1>6. CASE m # n
  <2>1. UsedTo(m)' = UsedTo(m)
    BY <1>4, <1>6 DEF UsedTo
  <2>. QED
    BY <1>3, <1>6, <2>1
<1>. QED
  BY <1>5, <1>6
\* The calls that are no waits, after a call.
LEMMA CalledOnce ==
    ASSUME TypeInv, Walking, NEW c \in Caller
    PROVE  /\ \A i \in DOMAIN stack :
                 Called(c)[i].waits = stack[i].waits /\ Called(c)[i].node = stack[i].node
           /\ DOMAIN Called(c) = DOMAIN stack /\ DOMAIN stack = 1 .. Len(stack)
           /\ Len(Called(c)) = Len(stack) /\ Len(stack) \in Nat
           /\ \A f : /\ Len(Append(Called(c), f)) = Len(stack) + 1
                     /\ DOMAIN Append(Called(c), f) = 1 .. Len(stack) + 1
                     /\ Append(Called(c), f)[Len(stack) + 1] = f
                     /\ \A i \in DOMAIN stack : Append(Called(c), f)[i] = Called(c)[i]
<1>1. /\ Called(c) \in Seq(Frame) /\ Len(Called(c)) = Len(stack) /\ Len(stack) \in Nat
      /\ DOMAIN Called(c) = DOMAIN stack /\ DOMAIN stack = 1 .. Len(stack)
  BY CalledFacts
<1>2. \A i \in DOMAIN stack :
        Called(c)[i].waits = stack[i].waits /\ Called(c)[i].node = stack[i].node
  <2>. SUFFICES ASSUME NEW i \in DOMAIN stack
                PROVE  Called(c)[i].waits = stack[i].waits /\ Called(c)[i].node = stack[i].node
    OBVIOUS
  <2>1. Called(c)[i] = IF i = c THEN [stack[i] EXCEPT !.at = @ + 1] ELSE stack[i]
    BY CalledFacts
  <2>2. stack[i] \in Frame
    BY DEF TypeInv, TypeOK
  <2>. QED
    BY <2>1, <2>2 DEF Frame
<1>3. ASSUME NEW f
      PROVE  /\ Len(Append(Called(c), f)) = Len(stack) + 1
             /\ DOMAIN Append(Called(c), f) = 1 .. Len(stack) + 1
             /\ Append(Called(c), f)[Len(stack) + 1] = f
             /\ \A i \in DOMAIN stack : Append(Called(c), f)[i] = Called(c)[i]
  <2> DEFINE S == Frame \union {f}
  <2>1. Called(c) \in Seq(S) /\ f \in S
    BY <1>1
  <2>. HIDE DEF S
  <2>. QED
    BY <1>1, <2>1
<1>. QED
  BY <1>1, <1>2, <1>3

LEMMA WaitJoin ==
    ASSUME TypeInv, JoinInv, Walking, NEW c \in Caller, WaitAt(c)
    PROVE  JoinInv' /\ Used' = Used \union {<<stack[c].node, stack[c].at>>}
<1> DEFINE n == Child(c)
           f == Call(n, Visitor(c), TRUE, << >>)
           e == <<stack[c].node, stack[c].at>>
           acc == Accumulated(points[n], flows[Visitor(c)])
<1>1. /\ n \in DOMAIN points
      /\ points' = [points EXCEPT ![n].vclone = acc, ![n].count = @ - 1]
      /\ stack' = IF self.broken THEN Called(c) ELSE Append(Called(c), f)
      /\ UNCHANGED <<self, tracker, status, times>>
  BY DEF WaitAt, Pends, IsJoin, history
<1>. HIDE DEF acc
<1>2. f.waits
  BY DEF Call
<1>. HIDE DEF f
<1>3. /\ \A i \in DOMAIN stack : i \in DOMAIN stack' /\ stack'[i] = Called(c)[i]
      /\ \A i \in DOMAIN stack' : i \in DOMAIN stack \/ stack'[i].waits
  BY <1>1, <1>2, CalledOnce
<1>4. /\ e \in Parents(self.kids, n) /\ e \notin Used /\ n \notin DOMAIN tracker
  BY CallEdge
<1>5. Used' = Used \union {e}
  BY <1>1, <1>3, UsedAfter
<1>. HIDE DEF n, e
<1>6. OneVisitEach'
  <2>1. \A i \in DOMAIN stack' :
          ~stack'[i].waits => /\ i \in DOMAIN stack /\ ~stack[i].waits
                              /\ stack'[i].node = stack[i].node
    BY <1>3, CalledOnce
  <2>. QED
    BY <1>1, <2>1 DEF JoinInv, OneVisitEach
<1>7. EdgesCounted'
  <2>. SUFFICES ASSUME NEW m \in DOMAIN points'
                PROVE  /\ points'[m].count = Cardinality(Parents(self.kids, m)) - 1 - Cardinality(UsedTo(m)')
                       /\ points'[m].done => m \in DOMAIN tracker /\ tracker[m] = "done"
    BY <1>1 DEF EdgesCounted
  <2>1. m \in DOMAIN points /\ points[m] \in [vclone : Flow, count : Int, done : BOOLEAN]
    BY <1>1 DEF TypeInv, TypeOK
  <2>2. /\ points[m].count = Cardinality(Parents(self.kids, m)) - 1 - Cardinality(UsedTo(m))
        /\ points[m].done => m \in DOMAIN tracker /\ tracker[m] = "done"
    BY <2>1 DEF JoinInv, EdgesCounted
  <2>3. /\ points'[m].count = points[m].count - IF m = n THEN 1 ELSE 0
        /\ points'[m].done = points[m].done
    BY <1>1, <2>1
  <2>4. /\ Cardinality(UsedTo(m)) \in Nat
        /\ Cardinality(UsedTo(m)') = Cardinality(UsedTo(m)) + IF m = n THEN 1 ELSE 0
    BY <1>1, <1>4, <1>5, CountAfter
  <2>5. Cardinality(Parents(self.kids, m)) \in Nat
    BY ParentsFinite, CardInt DEF TypeInv
  <2>. QED
    BY <2>2, <2>3, <2>4, <2>5
<1>8. VisitedLast'
  BY <1>1, <1>5 DEF JoinInv, VisitedLast, Node
<1>. QED
  BY <1>1, <1>5, <1>6, <1>7, <1>8 DEF JoinInv, e

\* A node that need not wait is visited by the last of its parents.
LEMMA VisitedByLast ==
    ASSUME TypeInv, JoinInv, AllJoin(self), NEW n \in Node, NEW e \in Parents(self.kids, n),
           e \notin Used, self' = self, Used' = Used \union {e}, ~Pends(n)
    PROVE  Parents(self.kids, n) \subseteq Used'
<1>0. self \in Walks
  BY DEF TypeInv
<1>1. IsFiniteSet(Parents(self.kids, n)) /\ Cardinality(Parents(self.kids, n)) \in Nat
  BY <1>0, ParentsFinite, CardInt
<1>2. UsedTo(n)' \in SUBSET Parents(self.kids, n) /\ e \in UsedTo(n)'
  BY DEF UsedTo
<1>3. IsFiniteSet(UsedTo(n)') /\ Cardinality(UsedTo(n)') <= Cardinality(Parents(self.kids, n))
      /\ (Cardinality(Parents(self.kids, n)) = Cardinality(UsedTo(n)') => Parents(self.kids, n) = UsedTo(n)')
  BY <1>1, <1>2, FS_Subset
<1>4. Cardinality(UsedTo(n)') \in Nat
  BY <1>3, CardInt
<1>5. Cardinality(UsedTo(n)) \in Nat /\ Cardinality(UsedTo(n)') = Cardinality(UsedTo(n)) + 1
  BY CountAfter
<1>6. CASE n \in DOMAIN points
  <2>1. points[n] \in [vclone : Flow, count : Int, done : BOOLEAN] /\ ~(points[n].count > 0)
    BY <1>6 DEF Pends, IsJoin, TypeInv, TypeOK
  <2>2. points[n].count = Cardinality(Parents(self.kids, n)) - 1 - Cardinality(UsedTo(n))
    BY <1>6 DEF JoinInv, EdgesCounted
  <2>3. Cardinality(Parents(self.kids, n)) = Cardinality(UsedTo(n)')
    BY <1>1, <1>3, <1>4, <1>5, <2>1, <2>2
  <2>. QED
    BY <1>3, <2>3 DEF UsedTo
<1>7. CASE n \notin DOMAIN points
  <2>1. n \notin SharedNodes(self)
    BY <1>7 DEF TypeInv, AllJoin
  <2>2. ~(Cardinality(Parents(self.kids, n)) > 1)
    BY <2>1 DEF SharedNodes, Node
  <2>3. Cardinality(Parents(self.kids, n)) = Cardinality(UsedTo(n)')
    BY <1>1, <1>3, <1>4, <1>5, <2>2
  <2>. QED
    BY <1>3, <2>3 DEF UsedTo
<1>. QED
  BY <1>6, <1>7

LEMMA BeginJoin ==
    ASSUME TypeInv, JoinInv, AllJoin(self), Walking, NEW c \in Caller, Begin(c)
    PROVE  JoinInv' /\ Used' = Used \union {<<stack[c].node, stack[c].at>>}
<1> DEFINE n == Child(c)
           f == Call(n, Visitor(c), FALSE, Visitors(n, Visitor(c), Len(flows)))
           e == <<stack[c].node, stack[c].at>>
<1>1. /\ ~Pends(n)
      /\ points' = Counted(n)
      /\ tracker' = With(tracker, n, "busy")
      /\ stack' = Append(Called(c), f)
      /\ times' = [times EXCEPT ![n] = @ + 1]
      /\ UNCHANGED <<self, status>>
  BY DEF Begin
<1>2. ~f.waits /\ f.node = n /\ f.at = 1
  BY DEF Call
<1>. HIDE DEF f
<1>3. e \in Parents(self.kids, n) /\ e \notin Used /\ n \notin DOMAIN tracker
  BY CallEdge
<1>4. n \in Node /\ self \in Walks
  BY CallerFacts DEF TypeInv
<1>5. /\ \A m \in DOMAIN tracker : m \in DOMAIN tracker' /\ tracker'[m] = tracker[m]
      /\ \A m \in DOMAIN tracker' : m \in DOMAIN tracker \/ m = n
      /\ n \in DOMAIN tracker' /\ tracker'[n] = "busy"
  BY <1>1, <1>3 DEF With
<1>6. /\ \A i \in DOMAIN stack : i \in DOMAIN stack' /\ stack'[i] = Called(c)[i]
      /\ \A i \in DOMAIN stack' : i \in DOMAIN stack \/ (i = Len(stack) + 1 /\ stack'[i] = f)
  BY <1>1, CalledOnce
<1>7. Used' = Used \union {e}
  <2>1. \A m \in DOMAIN tracker' : m \in DOMAIN tracker \/ tracker'[m] = "busy"
    BY <1>5
  <2>2. \A i \in DOMAIN stack' : i \in DOMAIN stack \/ stack'[i].waits \/ stack'[i].at = 1
    BY <1>2, <1>6
  <2>. QED
    BY <1>1, <1>5, <1>6, <2>1, <2>2, UsedAfter
<1>. HIDE DEF n, e
<1>8. OneVisitEach'
  <2>1. \A i \in DOMAIN stack' :
          \/ /\ i \in DOMAIN stack /\ stack'[i].waits = stack[i].waits
             /\ stack'[i].node = stack[i].node
          \/ i = Len(stack) + 1 /\ stack'[i].node = n
    BY <1>2, <1>6, CalledOnce
  <2>2. \A i \in DOMAIN stack : ~stack[i].waits =>
            /\ stack[i].node \in DOMAIN tracker /\ tracker[stack[i].node] = "busy"
            /\ stack[i].node # n
    BY <1>3 DEF JoinInv, OneVisitEach
  <2>. QED
    BY <1>5, <2>1, <2>2 DEF JoinInv, OneVisitEach
<1>9. EdgesCounted'
  <2>. SUFFICES ASSUME NEW m \in DOMAIN points'
                PROVE  /\ points'[m].count = Cardinality(Parents(self.kids, m)) - 1 - Cardinality(UsedTo(m)')
                       /\ points'[m].done => m \in DOMAIN tracker' /\ tracker'[m] = "done"
    BY <1>1 DEF EdgesCounted
  <2>1. m \in DOMAIN points /\ points[m] \in [vclone : Flow, count : Int, done : BOOLEAN]
    BY <1>1 DEF TypeInv, TypeOK, Counted
  <2>2. /\ points[m].count = Cardinality(Parents(self.kids, m)) - 1 - Cardinality(UsedTo(m))
        /\ points[m].done => m \in DOMAIN tracker /\ tracker[m] = "done"
    BY <2>1 DEF JoinInv, EdgesCounted
  <2>3. /\ points'[m].count = points[m].count - IF m = n THEN 1 ELSE 0
        /\ points'[m].done = points[m].done
    BY <1>1, <2>1 DEF Counted, IsJoin
  <2>4. /\ Cardinality(UsedTo(m)) \in Nat
        /\ Cardinality(UsedTo(m)') = Cardinality(UsedTo(m)) + IF m = n THEN 1 ELSE 0
    BY <1>1, <1>3, <1>7, CountAfter
  <2>5. Cardinality(Parents(self.kids, m)) \in Nat
    BY <1>4, ParentsFinite, CardInt
  <2>. QED
    BY <1>5, <2>2, <2>3, <2>4, <2>5
<1>10. Parents(self.kids, n) \subseteq Used'
  BY <1>1, <1>3, <1>4, <1>7, VisitedByLast
<1>11. VisitedLast'
  <2>1. \A m \in DOMAIN tracker' : Parents(self.kids, m) \subseteq Used'
    BY <1>5, <1>7, <1>10 DEF JoinInv, VisitedLast
  <2>2. Node' = Node /\ times \in [Node -> Nat]
    BY <1>1 DEF Node, TypeInv
  <2>3. \A m \in Node : times'[m] = IF m \in DOMAIN tracker' THEN 1 ELSE 0
    BY <1>1, <1>3, <1>4, <1>5, <2>2 DEF JoinInv, VisitedLast
  <2>. QED
    BY <1>1, <2>1, <2>2, <2>3 DEF VisitedLast
<1>. QED
  BY <1>1, <1>7, <1>8, <1>9, <1>11 DEF JoinInv, e

\* A visit that ends has used all edges of its node; it is the first to end there.
LEMMA FinishJoin == TypeInv /\ JoinInv /\ Finish => JoinInv' /\ Used' = Used
<1>. SUFFICES ASSUME TypeInv, JoinInv, Finish PROVE JoinInv' /\ Used' = Used
  OBVIOUS
<1> DEFINE n == Top.node
           t == Len(stack)
<1>1. /\ Walking /\ ~Top.waits /\ ~More(Top)
      /\ tracker' = [tracker EXCEPT ![n] = "done"]
      /\ points' = Left(points, n, Merged)
      /\ stack' = Pop
      /\ status' = IF LeftTwice(points, n) THEN "twice"
                   ELSE IF Pop = << >> THEN "done"
                   ELSE status
      /\ UNCHANGED <<self, times>>
  BY DEF Finish, Merged, history
<1>2. /\ Top \in Frame /\ t \in Nat \ {0} /\ DOMAIN stack = 1 .. t
      /\ DOMAIN stack' = 1 .. t - 1 /\ \A i \in DOMAIN stack' : stack'[i] = stack[i]
      /\ self \in Walks
  BY <1>1, PopFacts DEF TypeInv
<1>3. t \in DOMAIN stack /\ stack[t] = Top
  BY <1>2 DEF Top
<1>4. n \in DOMAIN tracker /\ tracker[n] = "busy" /\ n \in Node
  BY <1>1, <1>2, <1>3 DEF JoinInv, OneVisitEach, Frame
<1>5. /\ DOMAIN tracker' = DOMAIN tracker
      /\ tracker'[n] = "done"
      /\ \A m \in DOMAIN tracker : m # n => tracker'[m] = tracker[m]
  BY <1>1, <1>4
<1>6. Top.at > Len(self.kids[n])
  BY <1>1, <1>2, <1>4, KidsFacts DEF More, Frame, Node
<1>. HIDE DEF n, t
<1>7. Used' = Used
  <2>1. \A d \in Edges(self.kids) : EdgeUsed(d)' => EdgeUsed(d)
    <3>. SUFFICES ASSUME NEW d \in Edges(self.kids), EdgeUsed(d)' PROVE EdgeUsed(d)
      OBVIOUS
    <3>1. d[1] \in DOMAIN tracker
      BY <1>5 DEF EdgeUsed
    <3>2. CASE d[1] = n
      <4>1. d[2] \in DOMAIN self.kids[n]
        BY <1>2, <3>2, EdgeFacts
      <4>4. DOMAIN self.kids[n] = 1 .. Len(self.kids[n]) /\ Len(self.kids[n]) \in Nat
        BY <1>2, <1>4, KidsFacts DEF Node
      <4>5. Top.at \in Nat
        BY <1>2 DEF Frame
      <4>2. d[2] < Top.at
        BY <1>6, <4>1, <4>4, <4>5
      <4>3. ~stack[t].waits /\ stack[t].node = n /\ d[2] < stack[t].at
        BY <1>1, <1>3, <4>2 DEF n
      <4>. QED
        BY <1>3, <3>1, <3>2, <4>3 DEF EdgeUsed
    <3>3. CASE d[1] # n /\ tracker'[d[1]] = "done"
      BY <1>5, <3>1, <3>3 DEF EdgeUsed
    <3>4. CASE d[1] # n /\ tracker'[d[1]] # "done"
      <4>1. PICK i \in DOMAIN stack' :
              ~stack'[i].waits /\ stack'[i].node = d[1] /\ d[2] < stack'[i].at
        BY <3>4 DEF EdgeUsed
      <4>2. i \in DOMAIN stack /\ ~stack[i].waits /\ stack[i].node = d[1] /\ d[2] < stack[i].at
        BY <1>2, <4>1
      <4>. QED
        BY <3>1, <4>2 DEF EdgeUsed
    <3>. QED
      BY <3>2, <3>3, <3>4
  <2>2. \A d \in Edges(self.kids) : EdgeUsed(d) => EdgeUsed(d)'
    <3>. SUFFICES ASSUME NEW d \in Edges(self.kids), EdgeUsed(d) PROVE EdgeUsed(d)'
      OBVIOUS
    <3>1. d[1] \in DOMAIN tracker'
      BY <1>5 DEF EdgeUsed
    <3>2. CASE d[1] = n \/ tracker[d[1]] = "done"
      BY <1>5, <3>1, <3>2 DEF EdgeUsed
    <3>3. CASE d[1] # n /\ tracker[d[1]] # "done"
      <4>1. PICK i \in DOMAIN stack :
              ~stack[i].waits /\ stack[i].node = d[1] /\ d[2] < stack[i].at
        BY <3>3 DEF EdgeUsed
      <4>2. i # t
        BY <1>3, <3>3, <4>1 DEF n
      <4>3. i \in DOMAIN stack' /\ stack'[i] = stack[i]
        BY <1>2, <4>2
      <4>. QED
        BY <3>1, <4>1, <4>3 DEF EdgeUsed
    <3>. QED
      BY <3>2, <3>3
  <2>. QED
    BY <1>1, <2>1, <2>2 DEF Used
<1>8. OneVisitEach'
  <2>1. \A i \in DOMAIN stack' : i \in DOMAIN stack /\ i # t /\ stack'[i] = stack[i]
    BY <1>2
  <2>2. \A i \in DOMAIN stack' : ~stack'[i].waits => stack'[i].node # n
    BY <1>1, <1>3, <2>1 DEF JoinInv, OneVisitEach, n
  <2>. QED
    BY <1>5, <2>1, <2>2 DEF JoinInv, OneVisitEach
<1>9. EdgesCounted'
  <2>. SUFFICES ASSUME NEW m \in DOMAIN points'
                PROVE  /\ points'[m].count = Cardinality(Parents(self.kids, m)) - 1 - Cardinality(UsedTo(m))
                       /\ points'[m].done => m \in DOMAIN tracker' /\ tracker'[m] = "done"
    BY <1>1, <1>7 DEF EdgesCounted, UsedTo
  <2>1. m \in DOMAIN points /\ points[m] \in [vclone : Flow, count : Int, done : BOOLEAN]
    BY <1>1 DEF TypeInv, TypeOK, Left
  <2>2. /\ points[m].count = Cardinality(Parents(self.kids, m)) - 1 - Cardinality(UsedTo(m))
        /\ points[m].done => m \in DOMAIN tracker /\ tracker[m] = "done"
    BY <2>1 DEF JoinInv, EdgesCounted
  <2>3. points'[m].count = points[m].count /\ (m # n => points'[m].done = points[m].done)
    BY <1>1, <2>1 DEF Left, IsJoin
  <2>. QED
    BY <1>4, <1>5, <2>2, <2>3
<1>10. VisitedLast'
  BY <1>1, <1>5, <1>7 DEF JoinInv, VisitedLast, Node
<1>11. ~LeftTwice(points, n)
  BY <1>4 DEF LeftTwice, IsJoin, JoinInv, EdgesCounted
<1>12. status' \notin {"twice", "loop"}
  BY <1>1, <1>11 DEF JoinInv, n
<1>. QED
  BY <1>7, <1>8, <1>9, <1>10, <1>12 DEF JoinInv

LEMMA ResumeJoin == TypeInv /\ JoinInv /\ Resume => JoinInv' /\ Used' = Used
<1>. SUFFICES ASSUME TypeInv, JoinInv, Resume PROVE JoinInv' /\ Used' = Used
  OBVIOUS
<1>1. /\ Walking /\ Top.waits
      /\ status' = IF points[Top.node].done THEN status ELSE "unfinished"
      /\ stack' = Pop
      /\ UNCHANGED <<self, points, tracker, times>>
  BY DEF Resume, AfterWait, history
<1>2. /\ Len(stack) \in Nat \ {0} /\ DOMAIN stack = 1 .. Len(stack)
      /\ DOMAIN stack' = 1 .. Len(stack) - 1 /\ \A i \in DOMAIN stack' : stack'[i] = stack[i]
  BY <1>1, PopFacts
<1>3. \A i \in DOMAIN stack : ~stack[i].waits => i \in DOMAIN stack'
  BY <1>1, <1>2 DEF Top
<1>4. \A e : EdgeUsed(e)' <=> EdgeUsed(e)
  <2>. SUFFICES ASSUME NEW e PROVE EdgeUsed(e)' <=> EdgeUsed(e)
    OBVIOUS
  <2>. QED
    BY <1>1, <1>2, <1>3 DEF EdgeUsed
<1>5. Used' = Used /\ \A m : UsedTo(m)' = UsedTo(m)
  BY <1>1, <1>4 DEF Used, UsedTo
<1>6. OneVisitEach'
  BY <1>1, <1>2 DEF JoinInv, OneVisitEach
<1>7. EdgesCounted'
  BY <1>1, <1>5 DEF JoinInv, EdgesCounted
<1>8. VisitedLast'
  BY <1>1, <1>5 DEF JoinInv, VisitedLast, Node
<1>. QED
  BY <1>1, <1>5, <1>6, <1>7, <1>8 DEF JoinInv

AllJoinInv == AllJoin(self) => JoinInv

LEMMA JoinStep == TypeInv /\ AllJoinInv /\ [Next]_vars => AllJoinInv'
<1>. SUFFICES ASSUME TypeInv, JoinInv, AllJoin(self), [Next]_vars PROVE JoinInv'
  <2>1. [Next]_vars => self' = self
    BY DEF Next, VisitChild, WaitAt, Begin, Revisit, LoopFound, Finish, Resume, GiveUp, vars
  <2>. QED
    BY <2>1 DEF AllJoinInv
<1>1. CASE VisitChild
  <2>1. PICK c \in Caller : WaitAt(c) \/ Begin(c) \/ Revisit(c) \/ LoopFound(c)
    BY <1>1 DEF VisitChild
  <2>2. Walking
    BY <1>1 DEF VisitChild
  <2>3. Child(c) \notin DOMAIN tracker
    BY <2>2, CallEdge
  <2>4. ~Revisit(c) /\ ~LoopFound(c)
    BY <2>3 DEF Revisit, LoopFound, Fresh
  <2>. QED
    BY <2>1, <2>2, <2>4, WaitJoin, BeginJoin
<1>2. CASE Finish
  BY <1>2, FinishJoin
<1>3. CASE Resume
  BY <1>3, ResumeJoin
<1>4. CASE GiveUp
  <2>1. status' = "unfinished" /\ UNCHANGED <<self, points, tracker, flows, stack, times>>
    BY <1>4 DEF GiveUp, history
  <2>. QED
    BY <2>1 DEF JoinInv, OneVisitEach, EdgesCounted, VisitedLast, UsedTo, Used, EdgeUsed, Node
<1>5. CASE UNCHANGED vars
  <2>1. UNCHANGED <<self, points, tracker, flows, stack, status, times>>
    BY <1>5 DEF vars, history
  <2>. QED
    BY <2>1 DEF JoinInv, OneVisitEach, EdgesCounted, VisitedLast, UsedTo, Used, EdgeUsed, Node
<1>. QED
  BY <1>1, <1>2, <1>3, <1>4, <1>5 DEF Next

(***************************************************************************)
(* Where all shared nodes are join points, neither the BUG "flow join      *)
(* point visited more than once!" nor that of an IR loop can fire, and no  *)
(* node is visited twice: for every IR without loops, with and without the *)
(* old behaviour.                                                          *)
(***************************************************************************)
THEOREM JoinedOnceTheorem == Spec => []JoinedOnce
<1>1. Init => AllJoinInv
  BY JoinInit DEF AllJoinInv
<1>2. TypeInv /\ AllJoinInv => JoinedOnce
  BY DEF AllJoinInv, JoinInv, VisitedLast, JoinedOnce
<1>. QED
  BY <1>1, <1>2, TypeInit, TypeStep, JoinStep, PTL DEF Spec

----------------------------------------------------------------------------
(* Least elements and closures: what induction is needed for.              *)

\* A set of natural numbers has a least element.
LEMMA LeastOf ==
    ASSUME NEW T \in SUBSET Nat, T # {}
    PROVE  \E x \in T : \A y \in T : x <= y
<1> DEFINE less == { ss \in Nat \X Nat : ss[1] < ss[2] }
<1>1. IsWellFoundedOn(less, Nat)
  BY NatLessThanWellFounded DEF OpToRel
<1>2. \E x \in T : \A y \in T : <<y, x>> \notin less
  <2>. HIDE DEF less
  <2>. QED
    BY <1>1, WFMin
<1>3. \A x, y \in Nat : <<y, x>> \notin less => x <= y
  OBVIOUS
<1>. QED
  BY <1>2, <1>3

(***************************************************************************)
(* Reached is what its definition says, and grows until it is closed.      *)
(***************************************************************************)
Grown(next, r) == r \union UNION { next[x] : x \in r }
Grows(next, set, g, k) ==
    g[0] = set /\ \A i \in 1 .. k : g[i] = Grown(next, g[i - 1])

LEMMA GrowsUnique ==
    ASSUME NEW next, NEW set, NEW g, NEW h, NEW k \in Nat, NEW l \in Nat, k <= l,
           Grows(next, set, g, k), Grows(next, set, h, l)
    PROVE  \A i \in 0 .. k : g[i] = h[i]
<1> DEFINE bad == { i \in 0 .. k : g[i] # h[i] }
<1>. SUFFICES ASSUME bad # {} PROVE FALSE
  OBVIOUS
<1>1. bad \in SUBSET Nat
  OBVIOUS
<1>2. PICK i \in bad : \A j \in bad : i <= j
  <2>. HIDE DEF bad
  <2>. QED
    BY <1>1, LeastOf
<1>3. i # 0
  BY <1>2 DEF Grows
<1>4. i - 1 \in 0 .. k /\ i \in 1 .. k /\ i \in 1 .. l
  BY <1>2, <1>3
<1>5. g[i - 1] = h[i - 1]
  BY <1>2, <1>4
<1>. QED
  BY <1>2, <1>4, <1>5 DEF Grows

LEMMA GrowsExists ==
    ASSUME NEW next, NEW set
    PROVE  \A k \in Nat : \E g : Grows(next, set, g, k)
<1> DEFINE bad == { k \in Nat : ~ \E g : Grows(next, set, g, k) }
<1>. SUFFICES ASSUME bad # {} PROVE FALSE
  OBVIOUS
<1>1. PICK k \in bad : \A j \in bad : k <= j
  <2>1. bad \in SUBSET Nat
    OBVIOUS
  <2>. HIDE DEF bad
  <2>. QED
    BY <2>1, LeastOf
<1>2. k # 0
  <2>1. Grows(next, set, [i \in {0} |-> set], 0)
    BY DEF Grows
  <2>. QED
    BY <1>1, <2>1
<1>3. PICK g : Grows(next, set, g, k - 1)
  <2>1. k - 1 \in Nat /\ ~(k <= k - 1)
    BY <1>1, <1>2
  <2>2. k - 1 \notin bad
    BY <1>1, <2>1
  <2>. QED
    BY <2>1, <2>2
<1> DEFINE h == [i \in 0 .. k |-> IF i = k THEN Grown(next, g[k - 1]) ELSE g[i]]
<1>4. Grows(next, set, h, k)
  <2>1. k \in Nat \ {0}
    BY <1>1, <1>2
  <2>2. h[0] = set
    BY <1>3, <2>1 DEF Grows
  <2>3. ASSUME NEW i \in 1 .. k PROVE h[i] = Grown(next, h[i - 1])
    <3>1. h[i - 1] = g[i - 1]
      BY <2>1
    <3>2. CASE i = k
      BY <2>1, <3>1, <3>2
    <3>3. CASE i # k
      <4>1. i \in 1 .. k - 1 /\ h[i] = g[i]
        BY <2>1, <3>3
      <4>. QED
        BY <1>3, <3>1, <4>1 DEF Grows
    <3>. QED
      BY <3>2, <3>3
  <2>. QED
    BY <2>2, <2>3 DEF Grows
<1>. QED
  BY <1>1, <1>4

IsReached(r, next, set) == r = [k \in Nat |-> IF k = 0 THEN set ELSE Grown(next, r[k - 1])]

LEMMA ReachedSteps ==
    ASSUME NEW next, NEW set
    PROVE  /\ Reached(next, set)[0] = set
           /\ \A k \in Nat : Reached(next, set)[k + 1] = Grown(next, Reached(next, set)[k])
<1> DEFINE part(k) == CHOOSE g : Grows(next, set, g, k)
           whole == [k \in Nat |-> part(k)[k]]
<1>1. \A k \in Nat : Grows(next, set, part(k), k)
  BY GrowsExists
<1>2. ASSUME NEW k \in Nat, k # 0 PROVE whole[k] = Grown(next, whole[k - 1])
  <2>1. k - 1 \in Nat /\ k - 1 <= k /\ k \in 1 .. k /\ k - 1 \in 0 .. k - 1
    BY <1>2
  <2>2. Grows(next, set, part(k), k) /\ Grows(next, set, part(k - 1), k - 1)
    BY <1>1, <2>1
  <2>. HIDE DEF part
  <2>3. part(k)[k] = Grown(next, part(k)[k - 1])
    BY <2>1, <2>2 DEF Grows
  <2>4. part(k - 1)[k - 1] = part(k)[k - 1]
    BY <2>1, <2>2, GrowsUnique
  <2>. QED
    BY <2>1, <2>3, <2>4
<1>3. whole[0] = set
  <2>1. Grows(next, set, part(0), 0)
    BY <1>1
  <2>. HIDE DEF part
  <2>. QED
    BY <2>1 DEF Grows
<1>4. IsReached(whole, next, set)
  <2>. DEFINE again == [k \in Nat |-> IF k = 0 THEN set ELSE Grown(next, whole[k - 1])]
  <2>1. whole = [k \in Nat |-> whole[k]]
    OBVIOUS
  <2>2. \A k \in Nat : whole[k] = again[k]
    <3>. HIDE DEF whole
    <3>. QED
      BY <1>2, <1>3
  <2>3. whole = again
    <3>. HIDE DEF whole
    <3>. QED
      BY <2>1, <2>2
  <2>. QED
    BY <2>3, Zenon DEF IsReached
<1>. HIDE DEF whole
<1>5. Reached(next, set) = CHOOSE r : IsReached(r, next, set)
  BY DEF Reached, IsReached, Grown
<1>6. IsReached(Reached(next, set), next, set)
  BY <1>4, <1>5, Zenon
<1>7. PICK r : r = Reached(next, set)
  OBVIOUS
<1>8. r = [k \in Nat |-> IF k = 0 THEN set ELSE Grown(next, r[k - 1])]
  BY <1>6, <1>7 DEF IsReached
<1>. QED
  BY <1>7, <1>8

\* Induction, with a set for what is proved.
LEMMA AllNumbers ==
    ASSUME NEW S, 0 \in S, \A k \in Nat : k \in S => k + 1 \in S
    PROVE  \A k \in Nat : k \in S
<1> DEFINE bad == { k \in Nat : k \notin S }
<1>. SUFFICES ASSUME bad # {} PROVE FALSE
  OBVIOUS
<1>1. PICK k \in bad : \A j \in bad : k <= j
  <2>1. bad \in SUBSET Nat
    OBVIOUS
  <2>. HIDE DEF bad
  <2>. QED
    BY <2>1, LeastOf
<1>2. k \in Nat /\ k # 0
  BY <1>1
<1>3. k - 1 \in Nat /\ ~(k <= k - 1) /\ k = (k - 1) + 1
  BY <1>2
<1>4. k - 1 \notin bad
  BY <1>1, <1>3
<1>. QED
  BY <1>1, <1>3, <1>4

IsClosed(next, T) == \A x \in T : next[x] \subseteq T

LEMMA ReachedBounds ==
    ASSUME NEW P, NEW next \in [P -> SUBSET P], NEW set \in SUBSET P
    PROVE  \A k \in Nat :
              /\ set \subseteq Reached(next, set)[k]
              /\ Reached(next, set)[k] \in SUBSET P
              /\ \A T : set \subseteq T /\ IsClosed(next, T) => Reached(next, set)[k] \subseteq T
<1>1. PICK r : r = Reached(next, set)
  OBVIOUS
<1>2. r[0] = set /\ \A k \in Nat : r[k + 1] = Grown(next, r[k])
  BY <1>1, ReachedSteps
<1> DEFINE Within(k) == /\ set \subseteq r[k] /\ r[k] \in SUBSET P
                        /\ \A T : set \subseteq T /\ IsClosed(next, T) => r[k] \subseteq T
           S == { k \in Nat : Within(k) }
<1>3. 0 \in S
  BY <1>2
<1>4. ASSUME NEW k \in Nat, k \in S PROVE k + 1 \in S
  <2>1. r[k + 1] = r[k] \union UNION { next[x] : x \in r[k] }
    BY <1>2 DEF Grown
  <2>2. set \subseteq r[k] /\ r[k] \in SUBSET P
    BY <1>4
  <2>3. r[k + 1] \in SUBSET P
    BY <2>1, <2>2
  <2>4. ASSUME NEW T, set \subseteq T, IsClosed(next, T) PROVE r[k + 1] \subseteq T
    <3>1. r[k] \subseteq T
      BY <1>4, <2>4
    <3>2. \A x \in r[k] : next[x] \subseteq T
      BY <2>4, <3>1 DEF IsClosed
    <3>. QED
      BY <2>1, <3>1, <3>2
  <2>5. set \subseteq r[k + 1]
    BY <2>1, <2>2
  <2>6. Within(k + 1)
    BY <2>3, <2>4, <2>5
  <2>. QED
    BY <2>6
<1>5. \A k \in Nat : k \in S
  <2>. HIDE DEF S
  <2>. QED
    BY <1>3, <1>4, AllNumbers
<1>. QED
  BY <1>1, <1>5

\* With as many steps as there are elements nothing is left to be reached.
LEMMA ReachedClosed ==
    ASSUME NEW P, IsFiniteSet(P), NEW K \in Nat, Cardinality(P) <= K,
           NEW next \in [P -> SUBSET P], NEW set \in SUBSET P
    PROVE  IsClosed(next, Reached(next, set)[K])
<1>1. PICK r : r = Reached(next, set)
  OBVIOUS
<1>2. \A k \in Nat : r[k + 1] = Grown(next, r[k])
  BY <1>1, ReachedSteps
<1>3. \A k \in Nat : r[k] \in SUBSET P
  BY <1>1, ReachedBounds
<1>4. \A k \in Nat : IsFiniteSet(r[k]) /\ Cardinality(r[k]) \in Nat
  BY <1>3, FS_Subset, FS_CardinalityType
<1> DEFINE S == { k \in Nat : IsClosed(next, r[k]) \/ Cardinality(r[k]) >= k }
<1>5. 0 \in S
  BY <1>4
<1>6. ASSUME NEW k \in Nat, k \in S PROVE k + 1 \in S
  <2>1. r[k + 1] = r[k] \union UNION { next[x] : x \in r[k] }
    BY <1>2 DEF Grown
  <2>2. CASE IsClosed(next, r[k])
    <3>1. r[k + 1] = r[k]
      BY <2>1, <2>2 DEF IsClosed
    <3>. QED
      BY <2>2, <3>1
  <2>3. CASE ~IsClosed(next, r[k])
    <3>1. Cardinality(r[k]) >= k
      BY <1>6, <2>3
    <3>2. r[k] \subseteq r[k + 1] /\ r[k] # r[k + 1]
      BY <2>1, <2>3 DEF IsClosed
    <3>3. Cardinality(r[k]) < Cardinality(r[k + 1])
      <4>1. r[k] \in SUBSET r[k + 1] /\ IsFiniteSet(r[k + 1])
        BY <1>4, <3>2
      <4>2. /\ Cardinality(r[k]) <= Cardinality(r[k + 1])
            /\ Cardinality(r[k]) = Cardinality(r[k + 1]) => r[k + 1] = r[k]
        BY <4>1, FS_Subset
      <4>. QED
        BY <1>4, <3>2, <4>2
    <3>4. Cardinality(r[k + 1]) >= k + 1
      BY <1>4, <3>1, <3>3
    <3>. QED
      BY <3>4
  <2>. QED
    BY <2>2, <2>3
<1>7. K \in S
  <2>. HIDE DEF S
  <2>. QED
    BY <1>5, <1>6, AllNumbers
<1>8. CASE Cardinality(r[K]) >= K
  <2>1. /\ Cardinality(r[K]) <= Cardinality(P)
        /\ Cardinality(r[K]) = Cardinality(P) => P = r[K]
    BY <1>3, FS_Subset
  <2>2. P = r[K]
    BY <1>4, <1>8, <2>1, FS_CardinalityType
  <2>. QED
    BY <1>1, <2>2 DEF IsClosed
<1>. QED
  BY <1>1, <1>7, <1>8

----------------------------------------------------------------------------
(* The control flow.                                                       *)

\* The points from which p, or the entry of n by one more step, is reached.
Up(w, p) == Reached(FlowsTo(w), {p})[2 * Len(w.kids)]
Back(w, n) == Reached(FlowsTo(w), FlowsTo(w)[In(n)])[2 * Len(w.kids)]

\* Where the control comes from that takes an edge.
From(w, e) ==
    IF e[1] \in w.splits \/ e[2] = 1 THEN In(e[1]) ELSE Out(w.kids[e[1]][e[2] - 1])

LEMMA PointsFacts ==
    ASSUME NEW w \in Walks
    PROVE  /\ IsFiniteSet(Points(w)) /\ Cardinality(Points(w)) <= 2 * Len(w.kids)
           /\ 2 * Len(w.kids) \in Nat
           /\ \A n \in DOMAIN w.kids :
                 /\ n \in Nat \ {0} /\ In(n) = n /\ Out(n) = -n
                 /\ In(n) \in Points(w) /\ Out(n) \in Points(w)
           /\ \A p \in Points(w) :
                 \/ p > 0 /\ p \in DOMAIN w.kids /\ p = In(p)
                 \/ ~(p > 0) /\ -p \in DOMAIN w.kids /\ p = Out(-p)
<1> DEFINE N == Len(w.kids)
<1>1. N \in Nat \ {0} /\ DOMAIN w.kids = 1 .. N
  BY KidsFacts
<1>. HIDE DEF N
<1> DEFINE f == [i \in 1 .. 2 * N |-> IF i <= N THEN i ELSE N - i]
<1>2. Points(w) = 1 .. N \union { -n : n \in 1 .. N }
  BY <1>1 DEF Points, In, Out
<1>3. f \in Surjection(1 .. 2 * N, Points(w))
  <2>1. \A i \in 1 .. 2 * N : f[i] \in Points(w)
    <3>. SUFFICES ASSUME NEW i \in 1 .. 2 * N PROVE f[i] \in Points(w)
      OBVIOUS
    <3>1. CASE i <= N
      BY <1>1, <1>2, <3>1
    <3>2. CASE ~(i <= N)
      <4>1. i - N \in 1 .. N /\ f[i] = -(i - N)
        BY <1>1, <3>2
      <4>. QED
        BY <1>2, <4>1
    <3>. QED
      BY <3>1, <3>2
  <2>2. \A p \in Points(w) : \E i \in 1 .. 2 * N : f[i] = p
    <3>. SUFFICES ASSUME NEW p \in Points(w) PROVE \E i \in 1 .. 2 * N : f[i] = p
      OBVIOUS
    <3>1. CASE p \in 1 .. N
      <4>1. p \in 1 .. 2 * N /\ f[p] = p
        BY <1>1, <3>1
      <4>. QED
        BY <4>1
    <3>2. CASE p \notin 1 .. N
      <4>1. PICK n \in 1 .. N : p = -n
        BY <1>2, <3>2
      <4>2. N + n \in 1 .. 2 * N /\ ~(N + n <= N) /\ N - (N + n) = p
        BY <1>1, <4>1
      <4>. QED
        BY <4>2
    <3>. QED
      BY <3>1, <3>2
  <2>3. f \in [1 .. 2 * N -> Points(w)]
    BY <2>1
  <2>. HIDE DEF f
  <2>. QED
    BY <2>2, <2>3 DEF Surjection
<1>4. 2 * N \in Nat
  BY <1>1
<1>5. IsFiniteSet(1 .. 2 * N) /\ Cardinality(1 .. 2 * N) = 2 * N
  <2>1. 1 \in Int /\ 2 * N \in Int /\ ~(1 > 2 * N) /\ 2 * N - 1 + 1 = 2 * N
    BY <1>1
  <2>2. /\ IsFiniteSet(1 .. 2 * N)
        /\ Cardinality(1 .. 2 * N) = IF 1 > 2 * N THEN 0 ELSE 2 * N - 1 + 1
    BY <2>1, FS_Interval
  <2>. QED
    BY <2>1, <2>2
<1>6. IsFiniteSet(Points(w)) /\ Cardinality(Points(w)) <= 2 * N
  <2>. HIDE DEF f
  <2>. QED
    BY <1>3, <1>5, FS_Surjection
<1>7. \A n \in DOMAIN w.kids :
          /\ n \in Nat \ {0} /\ In(n) = n /\ Out(n) = -n
          /\ In(n) \in Points(w) /\ Out(n) \in Points(w)
  BY <1>1, <1>2 DEF In, Out
<1>8. \A p \in Points(w) :
          \/ p > 0 /\ p \in DOMAIN w.kids /\ p = In(p)
          \/ ~(p > 0) /\ -p \in DOMAIN w.kids /\ p = Out(-p)
  <2>. SUFFICES ASSUME NEW p \in Points(w)
                PROVE  \/ p > 0 /\ p \in DOMAIN w.kids /\ p = In(p)
                       \/ ~(p > 0) /\ -p \in DOMAIN w.kids /\ p = Out(-p)
    OBVIOUS
  <2>1. CASE p \in 1 .. N
    BY <1>1, <2>1 DEF In
  <2>2. CASE p \notin 1 .. N
    <3>1. PICK n \in 1 .. N : p = -n
      BY <1>2, <2>2
    <3>. QED
      BY <1>1, <3>1 DEF Out
  <2>. QED
    BY <2>1, <2>2
<1>. QED
  BY <1>4, <1>6, <1>7, <1>8 DEF N

LEMMA FlowsFacts ==
    ASSUME NEW w \in Walks
    PROVE  /\ FlowsTo(w) \in [Points(w) -> SUBSET Points(w)]
           /\ \A n \in DOMAIN w.kids :
                 /\ FlowsTo(w)[In(n)] = { From(w, e) : e \in Parents(w.kids, n) }
                 /\ FlowsTo(w)[Out(n)] = FlowsOutOf(w, n)
           /\ \A e \in Edges(w.kids) : From(w, e) \in Points(w)
<1>1. \A e \in Edges(w.kids) : From(w, e) \in Points(w)
  <2>. SUFFICES ASSUME NEW e \in Edges(w.kids) PROVE From(w, e) \in Points(w)
    OBVIOUS
  <2>1. /\ e[1] \in DOMAIN w.kids /\ e[2] \in DOMAIN w.kids[e[1]] /\ e[2] \in Nat \ {0}
        /\ DOMAIN w.kids[e[1]] = 1 .. Len(w.kids[e[1]]) /\ Len(w.kids[e[1]]) \in Nat
    BY EdgeFacts, KidsFacts
  <2>2. CASE e[1] \in w.splits \/ e[2] = 1
    BY <2>1, <2>2, PointsFacts DEF From
  <2>3. CASE ~(e[1] \in w.splits \/ e[2] = 1)
    <3>1. e[2] - 1 \in DOMAIN w.kids[e[1]]
      BY <2>1, <2>3
    <3>2. w.kids[e[1]][e[2] - 1] \in DOMAIN w.kids
      BY <2>1, <3>1, KidsFacts
    <3>. QED
      BY <2>3, <3>2, PointsFacts DEF From
  <2>. QED
    BY <2>2, <2>3
<1>2. \A n : Parents(w.kids, n) \subseteq Edges(w.kids)
  BY DEF Parents
<1>3. \A n : FlowsInto(w, n) = { From(w, e) : e \in Parents(w.kids, n) }
  BY DEF FlowsInto, From
<1>4. \A n \in DOMAIN w.kids : FlowsInto(w, n) \in SUBSET Points(w)
  BY <1>1, <1>2, <1>3
<1>5. \A n \in DOMAIN w.kids : FlowsOutOf(w, n) \in SUBSET Points(w)
  <2>. SUFFICES ASSUME NEW n \in DOMAIN w.kids PROVE FlowsOutOf(w, n) \subseteq Points(w)
    OBVIOUS
  <2>1. PICK kids : kids = w.kids[n]
    OBVIOUS
  <2>2. /\ kids \in Seq(Nat) /\ Len(kids) \in Nat /\ DOMAIN kids = 1 .. Len(kids)
        /\ \A i \in DOMAIN kids : kids[i] \in DOMAIN w.kids
    BY <2>1, KidsFacts
  <2>3. CASE kids = << >>
    BY <2>1, <2>3, PointsFacts DEF FlowsOutOf
  <2>4. CASE kids # << >>
    <3>1. Len(kids) \in DOMAIN kids
      BY <2>2, <2>4
    <3>2. \A k \in Range(kids) : Out(k) \in Points(w)
      BY <2>2, PointsFacts DEF Range
    <3>3. Out(kids[Len(kids)]) \in Points(w)
      BY <2>2, <3>1, PointsFacts
    <3>. QED
      BY <2>1, <2>4, <3>2, <3>3 DEF FlowsOutOf
  <2>. QED
    BY <2>3, <2>4
<1>6. FlowsTo(w) = [p \in Points(w) |-> IF p > 0 THEN FlowsInto(w, p) ELSE FlowsOutOf(w, -p)]
  BY DEF FlowsTo
<1>7. \A n \in DOMAIN w.kids :
        FlowsTo(w)[In(n)] = FlowsInto(w, n) /\ FlowsTo(w)[Out(n)] = FlowsOutOf(w, n)
  <2>. SUFFICES ASSUME NEW n \in DOMAIN w.kids
                PROVE  FlowsTo(w)[In(n)] = FlowsInto(w, n) /\ FlowsTo(w)[Out(n)] = FlowsOutOf(w, n)
    OBVIOUS
  <2>1. /\ n \in Nat \ {0} /\ In(n) = n /\ Out(n) = -n
        /\ In(n) \in Points(w) /\ Out(n) \in Points(w)
    BY PointsFacts
  <2>2. n > 0 /\ ~(-n > 0) /\ -(-n) = n
    BY <2>1
  <2>. QED
    BY <1>6, <2>1, <2>2
<1>8. \A p \in Points(w) : FlowsTo(w)[p] \in SUBSET Points(w)
  <2>. SUFFICES ASSUME NEW p \in Points(w) PROVE FlowsTo(w)[p] \in SUBSET Points(w)
    OBVIOUS
  <2>1. CASE p \in DOMAIN w.kids /\ p = In(p)
    BY <1>4, <1>7, <2>1
  <2>2. CASE -p \in DOMAIN w.kids /\ p = Out(-p)
    BY <1>5, <1>7, <2>2
  <2>. QED
    BY <2>1, <2>2, PointsFacts
<1>9. FlowsTo(w) \in [Points(w) -> SUBSET Points(w)]
  BY <1>6, <1>8
<1>. QED
  BY <1>1, <1>3, <1>7, <1>9

LEMMA UpFacts ==
    ASSUME NEW w \in Walks, NEW p \in Points(w)
    PROVE  /\ p \in Up(w, p)
           /\ Up(w, p) \in SUBSET Points(w)
           /\ \A q \in Up(w, p) : FlowsTo(w)[q] \subseteq Up(w, p)
           /\ \A q \in Up(w, p) : Up(w, q) \subseteq Up(w, p)
           /\ \A T : p \in T /\ (\A q \in T : FlowsTo(w)[q] \subseteq T) => Up(w, p) \subseteq T
<1> DEFINE P == Points(w)
           next == FlowsTo(w)
           K == 2 * Len(w.kids)
<1>1. IsFiniteSet(P) /\ K \in Nat /\ Cardinality(P) <= K /\ next \in [P -> SUBSET P]
  BY PointsFacts, FlowsFacts
<1>. HIDE DEF P, next, K
<1>2. \A q \in P :
          /\ q \in Reached(next, {q})[K] /\ Reached(next, {q})[K] \in SUBSET P
          /\ IsClosed(next, Reached(next, {q})[K])
          /\ \A T : q \in T /\ IsClosed(next, T) => Reached(next, {q})[K] \subseteq T
  <2>. SUFFICES ASSUME NEW q \in P
                PROVE  /\ q \in Reached(next, {q})[K] /\ Reached(next, {q})[K] \in SUBSET P
                       /\ IsClosed(next, Reached(next, {q})[K])
                       /\ \A T : q \in T /\ IsClosed(next, T) => Reached(next, {q})[K] \subseteq T
    OBVIOUS
  <2>1. PICK set \in SUBSET P : set = {q}
    OBVIOUS
  <2>2. IsClosed(next, Reached(next, set)[K])
    BY <1>1, ReachedClosed
  <2>3. /\ set \subseteq Reached(next, set)[K]
        /\ Reached(next, set)[K] \in SUBSET P
        /\ \A T : set \subseteq T /\ IsClosed(next, T) => Reached(next, set)[K] \subseteq T
    BY <1>1, ReachedBounds
  <2>. QED
    BY <2>1, <2>2, <2>3
<1>3. \A q \in P : Up(w, q) = Reached(next, {q})[K]
  BY DEF Up, next, K
<1>4. p \in P
  BY DEF P
<1>5. /\ p \in Up(w, p) /\ Up(w, p) \in SUBSET P /\ IsClosed(next, Up(w, p))
  <2>1. Up(w, p) = Reached(next, {p})[K]
    BY <1>3, <1>4
  <2>2. /\ p \in Reached(next, {p})[K] /\ Reached(next, {p})[K] \in SUBSET P
        /\ IsClosed(next, Reached(next, {p})[K])
    BY <1>2, <1>4
  <2>. QED
    BY <2>1, <2>2, Zenon
<1>6. \A q \in Up(w, p) : Up(w, q) \subseteq Up(w, p)
  BY <1>2, <1>3, <1>5
<1>7. \A q \in Up(w, p) : next[q] \subseteq Up(w, p)
  BY <1>5 DEF IsClosed
<1>8. \A T : p \in T /\ (\A q \in T : next[q] \subseteq T) => Up(w, p) \subseteq T
  <2>. SUFFICES ASSUME NEW T, p \in T, \A q \in T : next[q] \subseteq T PROVE Up(w, p) \subseteq T
    OBVIOUS
  <2>1. IsClosed(next, T)
    BY DEF IsClosed
  <2>2. Reached(next, {p})[K] \subseteq T
    BY <1>2, <1>4, <2>1
  <2>. QED
    BY <1>3, <1>4, <2>2
<1>9. P = Points(w) /\ next = FlowsTo(w)
  BY DEF P, next
<1>. QED
  BY <1>5, <1>6, <1>7, <1>8, <1>9

LEMMA BackFacts ==
    ASSUME NEW w \in Walks, NEW n \in DOMAIN w.kids
    PROVE  /\ \A e \in Parents(w.kids, n) : Up(w, From(w, e)) \subseteq Back(w, n)
           /\ Back(w, n) \subseteq Up(w, In(n))
           /\ \A T : /\ \A e \in Parents(w.kids, n) : From(w, e) \in T
                     /\ \A q \in T : FlowsTo(w)[q] \subseteq T
                     => Back(w, n) \subseteq T
<1> DEFINE P == Points(w)
           next == FlowsTo(w)
           K == 2 * Len(w.kids)
<1>1. IsFiniteSet(P) /\ K \in Nat /\ Cardinality(P) <= K /\ next \in [P -> SUBSET P]
  BY PointsFacts, FlowsFacts
<1>2. /\ In(n) \in P /\ next[In(n)] = { From(w, e) : e \in Parents(w.kids, n) }
      /\ Back(w, n) = Reached(next, next[In(n)])[K]
  BY PointsFacts, FlowsFacts DEF Back
<1>3. PICK set \in SUBSET P : set = next[In(n)]
  BY <1>1, <1>2
<1>4. \A q \in P : Up(w, q) = Reached(next, {q})[K]
  BY DEF Up
<1>5. /\ In(n) \in Up(w, In(n)) /\ \A q \in Up(w, In(n)) : next[q] \subseteq Up(w, In(n))
  BY <1>2, UpFacts
<1>. HIDE DEF P, next, K
<1>6. IsClosed(next, Reached(next, set)[K])
  BY <1>1, ReachedClosed
<1>7. /\ set \subseteq Reached(next, set)[K]
      /\ \A T : set \subseteq T /\ IsClosed(next, T) => Reached(next, set)[K] \subseteq T
  BY <1>1, ReachedBounds
<1>8. \A T : set \subseteq T /\ IsClosed(next, T) => Back(w, n) \subseteq T
  BY <1>2, <1>3, <1>7
<1>9. Back(w, n) \subseteq Up(w, In(n))
  BY <1>3, <1>5, <1>8 DEF IsClosed
<1>10. \A q \in set : Up(w, q) \subseteq Back(w, n)
  <2>. SUFFICES ASSUME NEW q \in set PROVE Up(w, q) \subseteq Back(w, n)
    OBVIOUS
  <2>1. q \in P /\ q \in Back(w, n) /\ IsClosed(next, Back(w, n))
    BY <1>2, <1>3, <1>6, <1>7
  <2>2. PICK one \in SUBSET P : one = {q}
    BY <2>1
  <2>3. \A T : one \subseteq T /\ IsClosed(next, T) => Reached(next, one)[K] \subseteq T
    BY <1>1, ReachedBounds
  <2>. QED
    BY <1>4, <2>1, <2>2, <2>3
<1>11. \A T : /\ \A e \in Parents(w.kids, n) : From(w, e) \in T
              /\ \A q \in T : next[q] \subseteq T
              => Back(w, n) \subseteq T
  BY <1>2, <1>3, <1>8 DEF IsClosed
<1>. QED
  BY <1>2, <1>3, <1>9, <1>10, <1>11 DEF next

\* Whoever enters a node can leave it: for all its children this holds.
LEMMA EnteredIsLeft ==
    ASSUME NEW w \in Walks, NEW n \in DOMAIN w.kids
    PROVE  Up(w, In(n)) \subseteq Up(w, Out(n))
<1> DEFINE N == Len(w.kids)
           bad == { k \in Nat : k < N /\ ~(Up(w, In(N - k)) \subseteq Up(w, Out(N - k))) }
<1>1. N \in Nat \ {0} /\ DOMAIN w.kids = 1 .. N
  BY KidsFacts
<1>. HIDE DEF N
<1>. SUFFICES ASSUME bad # {} PROVE FALSE
  <2>1. N - n \in Nat /\ N - n < N /\ N - (N - n) = n
    BY <1>1
  <2>. QED
    BY <2>1
<1>2. PICK k \in bad : \A j \in bad : k <= j
  <2>1. bad \in SUBSET Nat
    OBVIOUS
  <2>. HIDE DEF bad
  <2>. QED
    BY <2>1, LeastOf
<1>3. PICK m \in DOMAIN w.kids : m = N - k
  BY <1>1, <1>2
<1>4. \A l \in DOMAIN w.kids : l > m => Up(w, In(l)) \subseteq Up(w, Out(l))
  <2>. SUFFICES ASSUME NEW l \in DOMAIN w.kids, l > m PROVE Up(w, In(l)) \subseteq Up(w, Out(l))
    OBVIOUS
  <2>1. N - l \in Nat /\ N - l < N /\ N - (N - l) = l /\ ~(k <= N - l)
    BY <1>1, <1>2, <1>3
  <2>2. N - l \notin bad
    BY <1>2, <2>1
  <2>. QED
    BY <2>1, <2>2
<1>5. ~(Up(w, In(m)) \subseteq Up(w, Out(m)))
  BY <1>2, <1>3
<1>. HIDE DEF bad
<1>6. \A l \in DOMAIN w.kids : In(l) \in Points(w) /\ Out(l) \in Points(w)
  BY PointsFacts
<1>7. FlowsTo(w)[Out(m)] \subseteq Up(w, Out(m)) /\ FlowsTo(w)[Out(m)] = FlowsOutOf(w, m)
  BY <1>6, UpFacts, FlowsFacts
<1>8. \A q \in FlowsOutOf(w, m) : Up(w, q) \subseteq Up(w, Out(m))
  BY <1>6, <1>7, UpFacts
<1>9. PICK kids : kids = w.kids[m]
  OBVIOUS
<1>10. /\ kids \in Seq(Nat) /\ Len(kids) \in Nat /\ DOMAIN kids = 1 .. Len(kids)
       /\ \A i \in DOMAIN kids : kids[i] \in DOMAIN w.kids /\ kids[i] > m
  BY <1>9, KidsFacts
<1>11. kids # << >>
  <2>. SUFFICES ASSUME kids = << >> PROVE FALSE
    OBVIOUS
  <2>1. FlowsOutOf(w, m) = {In(m)}
    BY <1>9 DEF FlowsOutOf
  <2>. QED
    BY <1>5, <1>8, <2>1
\* Its first child is entered from where it is entered, its last one left where it is left.
<1>12. \A i \in DOMAIN kids : Up(w, In(kids[i])) \subseteq Up(w, Out(kids[i]))
  BY <1>4, <1>10
<1>13. \A i \in DOMAIN kids :
          Up(w, From(w, <<m, i>>)) \subseteq Up(w, Out(kids[i]))
  <2>. SUFFICES ASSUME NEW i \in DOMAIN kids
                PROVE  Up(w, From(w, <<m, i>>)) \subseteq Up(w, Out(kids[i]))
    OBVIOUS
  <2>1. kids[i] \in DOMAIN w.kids
    BY <1>10
  <2>2. <<m, i>> \in Parents(w.kids, kids[i])
    BY <1>9 DEF Parents, Edges
  <2>3. Up(w, From(w, <<m, i>>)) \subseteq Back(w, kids[i])
    BY <2>1, <2>2, BackFacts
  <2>4. Back(w, kids[i]) \subseteq Up(w, In(kids[i]))
    BY <2>1, BackFacts
  <2>. QED
    BY <1>12, <2>3, <2>4
<1>14. 1 \in DOMAIN kids /\ Len(kids) \in DOMAIN kids
  BY <1>10, <1>11
<1>15. CASE m \in w.splits
  <2>1. Out(kids[1]) \in FlowsOutOf(w, m)
    BY <1>9, <1>11, <1>14, <1>15 DEF FlowsOutOf, Range
  <2>2. From(w, <<m, 1>>) = In(m)
    BY <1>15 DEF From
  <2>. QED
    BY <1>5, <1>8, <1>13, <1>14, <2>1, <2>2
<1>16. CASE m \notin w.splits
  <2>1. Out(kids[Len(kids)]) \in FlowsOutOf(w, m)
    BY <1>9, <1>11, <1>16 DEF FlowsOutOf
  <2> DEFINE S == { i \in Nat : i + 1 \in DOMAIN kids =>
                        Up(w, In(m)) \subseteq Up(w, Out(kids[i + 1])) }
  <2>2. 0 \in S
    <3>1. From(w, <<m, 1>>) = In(m)
      BY DEF From
    <3>. QED
      BY <1>13, <3>1
  <2>3. ASSUME NEW i \in Nat, i \in S PROVE i + 1 \in S
    <3>. SUFFICES ASSUME (i + 1) + 1 \in DOMAIN kids
                  PROVE  Up(w, In(m)) \subseteq Up(w, Out(kids[(i + 1) + 1]))
      OBVIOUS
    <3>1. i + 1 \in DOMAIN kids /\ (i + 1) + 1 # 1 /\ ((i + 1) + 1) - 1 = i + 1
      BY <1>10
    <3>2. From(w, <<m, (i + 1) + 1>>) = Out(kids[i + 1])
      BY <1>9, <1>16, <3>1 DEF From
    <3>3. Up(w, In(m)) \subseteq Up(w, Out(kids[i + 1]))
      BY <2>3, <3>1
    <3>. QED
      BY <1>13, <3>2, <3>3
  <2>4. \A i \in Nat : i \in S
    <3>. HIDE DEF S
    <3>. QED
      BY <2>2, <2>3, AllNumbers
  <2>5. Len(kids) - 1 \in Nat /\ (Len(kids) - 1) + 1 = Len(kids)
    BY <1>10, <1>14
  <2>6. Up(w, In(m)) \subseteq Up(w, Out(kids[Len(kids)]))
    BY <1>14, <2>4, <2>5
  <2>. QED
    BY <1>5, <1>8, <2>1, <2>6
<1>. QED
  BY <1>15, <1>16

----------------------------------------------------------------------------
(***************************************************************************)
(* The calls.  A visitor is used by one chain of calls: if a call below    *)
(* has the visitor of a call above, then the visitor was handed on to a    *)
(* child that is still being called, and what a branch makes for its       *)
(* alternatives no call below has.                                         *)
(***************************************************************************)
Entered(w, f) == { k \in DOMAIN f.vs : IF f.node \in w.splits THEN k < f.at ELSE k = f.at - 1 }
IsCall(w, f, k, g) == g.node = w.kids[f.node][k] /\ g.vis = f.vs[k]

VisitorsOK(w, f) ==
    /\ f.waits => f.vs = << >>
    /\ ~f.waits => f.at <= Len(w.kids[f.node]) + 1
    /\ \A k \in DOMAIN f.vs : k = 1 \/ f.node \notin w.splits => f.vs[k] = f.vis
    /\ f.node \in w.splits => \A k, l \in DOMAIN f.vs : f.vs[k] = f.vs[l] => k = l

HandedOn(w, s, i, j) ==
    \E k \in Entered(w, s[i]) : \E h \in i + 1 .. j :
        s[i].vs[k] = s[j].vis /\ IsCall(w, s[i], k, s[h])
Shares(f, v) == \E k \in DOMAIN f.vs : f.vs[k] = v
Nested(w, s, i, j) ==
    /\ Shares(s[i], s[j].vis) => HandedOn(w, s, i, j)
    /\ \A l \in DOMAIN s[j].vs : s[j].vs[l] = s[j].vis \/ ~Shares(s[i], s[j].vs[l])

StackOK(w, s) ==
    /\ \A i \in DOMAIN s : VisitorsOK(w, s[i])
    /\ \A i \in DOMAIN s : i < Len(s) /\ ~s[i].waits => s[i].at > 1
    /\ \A i, j \in DOMAIN s : i < j => Nested(w, s, i, j)
StackInv == StackOK(self, stack)

\* A call that goes on: what becomes of the calls on the stack.
LEMMA CalledFrames ==
    ASSUME TypeInv, Walking, NEW c \in Caller, NEW s, s = Called(c)
    PROVE  /\ Len(s) = Len(stack) /\ Len(stack) \in Nat \ {0}
           /\ DOMAIN s = 1 .. Len(stack) /\ DOMAIN stack = 1 .. Len(stack)
           /\ s \in Seq(Frame)
           /\ \A i \in DOMAIN stack :
                 /\ stack[i] \in Frame /\ stack[i].at \in Nat \ {0}
                 /\ s[i].node = stack[i].node /\ s[i].vis = stack[i].vis
                 /\ s[i].waits = stack[i].waits /\ s[i].vs = stack[i].vs
                 /\ s[i].at = IF i = c THEN stack[i].at + 1 ELSE stack[i].at
                 /\ i # c => s[i] = stack[i]
<1>1. /\ Len(s) = Len(stack) /\ Len(stack) \in Nat \ {0} /\ s \in Seq(Frame)
      /\ DOMAIN s = 1 .. Len(stack) /\ DOMAIN stack = 1 .. Len(stack)
      /\ \A i \in DOMAIN stack :
            s[i] = IF i = c THEN [stack[i] EXCEPT !.at = @ + 1] ELSE stack[i]
  BY CalledFacts
<1>2. ASSUME NEW i \in DOMAIN stack
      PROVE  /\ stack[i] \in Frame /\ stack[i].at \in Nat \ {0}
             /\ s[i].node = stack[i].node /\ s[i].vis = stack[i].vis
             /\ s[i].waits = stack[i].waits /\ s[i].vs = stack[i].vs
             /\ s[i].at = IF i = c THEN stack[i].at + 1 ELSE stack[i].at
             /\ i # c => s[i] = stack[i]
  <2>1. stack[i] \in Frame
    BY DEF TypeInv, TypeOK
  <2>. QED
    BY <1>1, <2>1 DEF Frame
<1>. QED
  BY <1>1, <1>2

LEMMA AppendFacts ==
    ASSUME NEW S, NEW s \in Seq(S), NEW f
    PROVE  /\ Len(Append(s, f)) = Len(s) + 1 /\ Len(s) \in Nat /\ DOMAIN s = 1 .. Len(s)
           /\ DOMAIN Append(s, f) = 1 .. Len(s) + 1
           /\ Append(s, f)[Len(s) + 1] = f
           /\ \A i \in DOMAIN s : Append(s, f)[i] = s[i]
<1> DEFINE T == S \union {f}
<1>1. s \in Seq(T) /\ f \in T
  OBVIOUS
<1>. HIDE DEF T
<1>. QED
  BY <1>1

LEMMA CallerCases ==
    ASSUME TypeInv, StackInv, Walking, NEW c \in Caller
    PROVE  /\ c \in DOMAIN stack /\ ~stack[c].waits
           /\ stack[c].at \in DOMAIN stack[c].vs
           /\ DOMAIN stack[c].vs = DOMAIN self.kids[stack[c].node]
           /\ DOMAIN stack[c].vs = 1 .. Len(self.kids[stack[c].node])
           /\ Len(self.kids[stack[c].node]) \in Nat
           /\ \/ c = Len(stack)
              \/ /\ c < Len(stack) /\ Top.waits /\ Waiting
                 /\ stack[c].node \in self.splits /\ stack[c].at > 1
<1>1. /\ c \in DOMAIN stack /\ stack[c] \in Frame /\ ~stack[c].waits
      /\ stack[c].node \in DOMAIN self.kids
      /\ stack[c].at \in DOMAIN self.kids[stack[c].node]
  BY CallerFacts DEF Node
<1>2. /\ Len(stack) \in Nat \ {0} /\ DOMAIN stack = 1 .. Len(stack)
      /\ FrameOK(stack[c], self, points)
  BY <1>1, CalledFacts DEF TypeInv
<1>3. /\ stack[c].vs \in Seq(DOMAIN flows) /\ Len(stack[c].vs) = Len(self.kids[stack[c].node])
  BY <1>1, <1>2 DEF FrameOK, Frame
<1>4. /\ DOMAIN self.kids[stack[c].node] = 1 .. Len(self.kids[stack[c].node])
      /\ Len(self.kids[stack[c].node]) \in Nat
  BY <1>1, KidsFacts DEF TypeInv
<1>5. DOMAIN stack[c].vs = 1 .. Len(self.kids[stack[c].node])
  BY <1>3, <1>4
<1>6. \/ c = Len(stack)
      \/ c < Len(stack) /\ Waiting /\ stack[c].node \in self.splits
  BY <1>1, <1>2 DEF Caller, Ready
<1>7. Waiting => Top.waits
  BY DEF Waiting
<1>8. c < Len(stack) => stack[c].at > 1
  BY <1>1 DEF StackInv, StackOK
<1>. QED
  BY <1>1, <1>4, <1>5, <1>6, <1>7, <1>8

\* Who else has the visitor that a child is given now: only those who handed it on.
LEMMA VisitorOfCall ==
    ASSUME TypeInv, StackInv, Walking, NEW c \in Caller, NEW i \in DOMAIN stack, i # c,
           Shares(stack[i], Visitor(c))
    PROVE  i < c /\ Visitor(c) = stack[c].vis /\ HandedOn(self, stack, i, c)
<1> DEFINE v == Visitor(c)
           a == stack[c].at
<1>1. /\ c \in DOMAIN stack /\ a \in DOMAIN stack[c].vs /\ v = stack[c].vs[a]
      /\ DOMAIN stack = 1 .. Len(stack) /\ Len(stack) \in Nat /\ a \in Nat
  BY CallerCases, CalledFrames DEF Visitor
<1>. HIDE DEF v, a
<1>2. Shares(stack[c], v)
  BY <1>1 DEF Shares
<1>3. CASE i < c
  <2>1. Nested(self, stack, i, c)
    BY <1>1, <1>3 DEF StackInv, StackOK
  <2>2. v = stack[c].vis
    BY <1>1, <2>1 DEF Nested, v
  <2>3. HandedOn(self, stack, i, c)
    BY <2>1, <2>2 DEF Nested, v
  <2>. QED
    BY <1>3, <2>2, <2>3 DEF v
<1>4. CASE c < i
  <2>1. Nested(self, stack, c, i)
    BY <1>1, <1>4 DEF StackInv, StackOK
  <2>2. PICK k \in DOMAIN stack[i].vs : stack[i].vs[k] = v
    BY DEF Shares, v
  <2>3. stack[i].vis = v
    BY <1>2, <2>1, <2>2 DEF Nested
  <2>4. HandedOn(self, stack, c, i)
    BY <1>2, <2>1, <2>3 DEF Nested
  <2>5. PICK l \in Entered(self, stack[c]) : stack[c].vs[l] = v
    BY <2>3, <2>4 DEF HandedOn
  <2>6. stack[c].node \in self.splits
    BY <1>1, <1>4, CallerCases
  <2>7. l = a
    BY <1>1, <2>5, <2>6 DEF StackInv, StackOK, VisitorsOK, Entered
  <2>8. l < a
    BY <2>5, <2>6 DEF Entered, a
  <2>. QED
    BY <1>1, <2>7, <2>8
<1>. QED
  BY <1>1, <1>3, <1>4

LEMMA CalledStackOK ==
    ASSUME TypeInv, StackInv, Walking, NEW c \in Caller, NEW s, s = Called(c)
    PROVE  /\ \A i \in DOMAIN s : VisitorsOK(self, s[i])
           /\ \A i \in DOMAIN s : ~s[i].waits => s[i].at > 1 \/ (i = Len(s) /\ i # c)
           /\ \A i, j \in DOMAIN s : i < j => Nested(self, s, i, j)
           /\ c = Len(s) \/ s[Len(s)].waits
           /\ \A i \in 1 .. c : i # c => Entered(self, s[i]) = Entered(self, stack[i])
<1>1. /\ DOMAIN s = DOMAIN stack /\ Len(s) = Len(stack)
      /\ DOMAIN stack = 1 .. Len(stack) /\ Len(stack) \in Nat \ {0}
      /\ \A i \in DOMAIN stack :
            /\ stack[i].at \in Nat \ {0}
            /\ s[i].node = stack[i].node /\ s[i].vis = stack[i].vis
            /\ s[i].waits = stack[i].waits /\ s[i].vs = stack[i].vs
            /\ s[i].at = IF i = c THEN stack[i].at + 1 ELSE stack[i].at
            /\ i # c => s[i] = stack[i]
  BY CalledFrames
<1>2. /\ c \in DOMAIN stack /\ ~stack[c].waits
      /\ stack[c].at \in 1 .. Len(self.kids[stack[c].node])
      /\ Len(self.kids[stack[c].node]) \in Nat
      /\ \/ c = Len(stack)
         \/ c < Len(stack) /\ Top.waits /\ stack[c].node \in self.splits
  BY CallerCases
<1>3. ASSUME NEW i \in DOMAIN s PROVE VisitorsOK(self, s[i])
  <2>1. VisitorsOK(self, stack[i])
    BY <1>1 DEF StackInv, StackOK
  <2>2. CASE i # c
    BY <1>1, <2>1, <2>2
  <2>3. CASE i = c
    <3>1. s[c].at <= Len(self.kids[s[c].node]) + 1
      BY <1>1, <1>2
    <3>. QED
      BY <1>1, <1>2, <2>1, <2>3, <3>1 DEF VisitorsOK
  <2>. QED
    BY <2>2, <2>3
<1>4. ASSUME NEW i \in DOMAIN s, ~s[i].waits PROVE s[i].at > 1 \/ (i = Len(s) /\ i # c)
  <2>1. i < Len(stack) => stack[i].at > 1
    BY <1>1, <1>4 DEF StackInv, StackOK
  <2>2. CASE i = c
    BY <1>1, <2>2
  <2>3. CASE i # c
    BY <1>1, <2>1, <2>3
  <2>. QED
    BY <2>2, <2>3
<1>5. ASSUME NEW i \in DOMAIN s, NEW k \in Entered(self, stack[i]), i < Len(s) PROVE k \in Entered(self, s[i])
  <2>1. CASE i # c
    BY <1>1, <2>1
  <2>2. CASE i = c
    <3>1. stack[c].node \in self.splits
      BY <1>1, <1>2, <1>5, <2>2
    <3>2. k \in DOMAIN stack[c].vs /\ k < stack[c].at
      BY <1>5, <2>2, <3>1 DEF Entered
    <3>3. DOMAIN stack[c].vs = 1 .. Len(self.kids[stack[c].node])
      BY CallerCases
    <3>4. k < s[c].at
      BY <1>1, <1>2, <3>2, <3>3
    <3>. QED
      BY <1>1, <1>2, <2>2, <3>1, <3>2, <3>4 DEF Entered
  <2>. QED
    BY <2>1, <2>2
<1>6. ASSUME NEW i \in DOMAIN s, NEW j \in DOMAIN s, i < j PROVE Nested(self, s, i, j)
  <2>1. Nested(self, stack, i, j)
    BY <1>1, <1>6 DEF StackInv, StackOK
  <2>2. ASSUME Shares(s[i], s[j].vis) PROVE HandedOn(self, s, i, j)
    <3>1. Shares(stack[i], stack[j].vis)
      BY <1>1, <2>2 DEF Shares
    <3>2. PICK k \in Entered(self, stack[i]) : \E h \in i + 1 .. j :
              stack[i].vs[k] = stack[j].vis /\ IsCall(self, stack[i], k, stack[h])
      BY <2>1, <3>1 DEF Nested, HandedOn
    <3>3. PICK h \in i + 1 .. j :
              stack[i].vs[k] = stack[j].vis /\ IsCall(self, stack[i], k, stack[h])
      BY <3>2
    <3>4. h \in DOMAIN stack
      BY <1>1, <1>6, <3>3
    <3>5. s[i].vs[k] = s[j].vis /\ IsCall(self, s[i], k, s[h])
      BY <1>1, <3>3, <3>4 DEF IsCall
    <3>6. k \in Entered(self, s[i])
      BY <1>1, <1>5, <1>6
    <3>. QED
      BY <3>3, <3>5, <3>6 DEF HandedOn
  <2>3. ASSUME NEW l \in DOMAIN s[j].vs PROVE s[j].vs[l] = s[j].vis \/ ~Shares(s[i], s[j].vs[l])
    BY <1>1, <2>1 DEF Nested, Shares
  <2>. QED
    BY <2>2, <2>3 DEF Nested
<1>7. c = Len(s) \/ s[Len(s)].waits
  BY <1>1, <1>2 DEF Top
<1>8. \A i \in 1 .. c : i # c => Entered(self, s[i]) = Entered(self, stack[i])
  BY <1>1, <1>2
<1>. QED
  BY <1>3, <1>4, <1>6, <1>7, <1>8

LEMMA PushStack ==
    ASSUME TypeInv, StackInv, Walking, NEW c \in Caller, NEW f,
           f.node = Child(c), f.vis = Visitor(c), VisitorsOK(self, f),
           \A l \in DOMAIN f.vs : f.vs[l] = f.vis \/ f.vs[l] \notin DOMAIN flows
    PROVE  StackOK(self, Append(Called(c), f))
<1>1. PICK s : s = Called(c)
  OBVIOUS
<1>2. PICK t : t = Append(s, f)
  OBVIOUS
<1>3. /\ DOMAIN s = DOMAIN stack /\ Len(s) = Len(stack) /\ s \in Seq(Frame)
      /\ DOMAIN stack = 1 .. Len(stack) /\ Len(stack) \in Nat \ {0}
      /\ \A i \in DOMAIN stack :
            /\ stack[i] \in Frame /\ stack[i].at \in Nat \ {0}
            /\ s[i].node = stack[i].node /\ s[i].vis = stack[i].vis
            /\ s[i].waits = stack[i].waits /\ s[i].vs = stack[i].vs
            /\ s[i].at = IF i = c THEN stack[i].at + 1 ELSE stack[i].at
            /\ i # c => s[i] = stack[i]
  BY <1>1, CalledFrames
<1>4. /\ Len(t) = Len(stack) + 1 /\ DOMAIN t = 1 .. Len(stack) + 1
      /\ t[Len(stack) + 1] = f
      /\ \A i \in DOMAIN stack : t[i] = s[i]
  BY <1>2, <1>3, AppendFacts
<1>5. /\ \A i \in DOMAIN s : VisitorsOK(self, s[i])
      /\ \A i \in DOMAIN s : ~s[i].waits => s[i].at > 1 \/ (i = Len(s) /\ i # c)
      /\ \A i, j \in DOMAIN s : i < j => Nested(self, s, i, j)
      /\ c = Len(s) \/ s[Len(s)].waits
      /\ \A i \in 1 .. c : i # c => Entered(self, s[i]) = Entered(self, stack[i])
  BY <1>1, CalledStackOK
<1>6. /\ c \in DOMAIN stack /\ stack[c].at \in DOMAIN stack[c].vs
      /\ DOMAIN stack[c].vs = 1 .. Len(self.kids[stack[c].node])
  BY CallerCases
<1>7. \A i \in DOMAIN t : VisitorsOK(self, t[i])
  BY <1>3, <1>4, <1>5
<1>8. \A i \in DOMAIN t : i < Len(t) /\ ~t[i].waits => t[i].at > 1
  BY <1>3, <1>4, <1>5
<1>9. ASSUME NEW i \in DOMAIN t, NEW j \in DOMAIN t, i < j PROVE Nested(self, t, i, j)
  <2>1. i \in DOMAIN stack /\ t[i] = s[i]
    BY <1>3, <1>4, <1>9
  <2>2. CASE j \in DOMAIN stack
    <3>1. Nested(self, s, i, j) /\ t[j] = s[j]
      BY <1>3, <1>4, <1>5, <1>9, <2>1, <2>2
    <3>2. \A h \in i + 1 .. j : t[h] = s[h]
      BY <1>3, <1>4, <2>1, <2>2
    <3>3. HandedOn(self, s, i, j) => HandedOn(self, t, i, j)
      BY <2>1, <3>1, <3>2 DEF HandedOn
    <3>. QED
      BY <2>1, <3>1, <3>3 DEF Nested
  <2>3. CASE j \notin DOMAIN stack
    <3>1. j = Len(stack) + 1 /\ t[j] = f
      BY <1>3, <1>4, <2>3
    <3>2. ASSUME Shares(t[i], f.vis) PROVE HandedOn(self, t, i, j)
      <4>1. Shares(stack[i], Visitor(c))
        BY <1>3, <2>1, <3>2 DEF Shares
      <4>2. CASE i = c
        <5>1. stack[c].at \in Entered(self, s[c])
          BY <1>3, <1>6 DEF Entered
        <5>2. IsCall(self, s[c], stack[c].at, f) /\ s[c].vs[stack[c].at] = f.vis
          BY <1>3, <1>6 DEF IsCall, Child, Visitor
        <5>3. j \in i + 1 .. j
          BY <1>3, <2>1, <3>1
        <5>. QED
          BY <2>1, <3>1, <4>2, <5>1, <5>2, <5>3 DEF HandedOn
      <4>3. CASE i # c
        <5>1. i < c /\ Visitor(c) = stack[c].vis /\ HandedOn(self, stack, i, c)
          BY <2>1, <4>1, <4>3, VisitorOfCall
        <5>2. PICK k \in Entered(self, stack[i]), h \in i + 1 .. c :
                  stack[i].vs[k] = stack[c].vis /\ IsCall(self, stack[i], k, stack[h])
          BY <5>1 DEF HandedOn
        <5>3. /\ h \in i + 1 .. j /\ h \in DOMAIN stack
              /\ t[h].node = stack[h].node /\ t[h].vis = stack[h].vis
          BY <1>3, <1>4, <1>6, <2>1, <3>1
        <5>4. /\ t[i].vs[k] = f.vis /\ IsCall(self, t[i], k, t[h])
          BY <1>3, <2>1, <5>1, <5>2, <5>3 DEF IsCall
        <5>5. k \in Entered(self, t[i])
          BY <1>3, <1>5, <2>1, <4>3, <5>1, <5>2
        <5>. QED
          BY <3>1, <5>3, <5>4, <5>5 DEF HandedOn
      <4>. QED
        BY <4>2, <4>3
    <3>3. ASSUME NEW l \in DOMAIN f.vs, f.vs[l] # f.vis PROVE ~Shares(t[i], f.vs[l])
      <4>1. stack[i].vs \in Seq(DOMAIN flows)
        BY <1>3, <2>1 DEF Frame
      <4>2. \A k \in DOMAIN stack[i].vs : stack[i].vs[k] \in DOMAIN flows
        BY <4>1
      <4>. QED
        BY <1>3, <2>1, <3>3, <4>2 DEF Shares
    <3>. QED
      BY <3>1, <3>2, <3>3 DEF Nested
  <2>. QED
    BY <2>2, <2>3
<1>10. StackOK(self, t)
  BY <1>7, <1>8, <1>9 DEF StackOK
<1>. QED
  BY <1>1, <1>2, <1>10

LEMMA CallStack ==
    ASSUME TypeInv, StackInv, Walking, NEW c \in Caller
    PROVE  StackOK(self, Called(c))
<1>1. PICK s : s = Called(c)
  OBVIOUS
<1>2. /\ DOMAIN s = 1 .. Len(s) /\ Len(s) \in Nat
  BY <1>1, CalledFrames
<1>3. /\ \A i \in DOMAIN s : VisitorsOK(self, s[i])
      /\ \A i \in DOMAIN s : ~s[i].waits => s[i].at > 1 \/ (i = Len(s) /\ i # c)
      /\ \A i, j \in DOMAIN s : i < j => Nested(self, s, i, j)
  BY <1>1, CalledStackOK
<1>4. \A i \in DOMAIN s : i < Len(s) /\ ~s[i].waits => s[i].at > 1
  BY <1>2, <1>3
<1>. QED
  BY <1>1, <1>3, <1>4 DEF StackOK

LEMMA SameLength ==
    ASSUME NEW m \in Nat, NEW n \in Nat, 1 .. m = 1 .. n
    PROVE  m = n
<1>1. CASE m < n
  BY <1>1
<1>2. CASE n < m
  BY <1>2
<1>. QED
  BY <1>1, <1>2

LEMMA PopStack ==
    ASSUME TypeInv, StackInv, Walking
    PROVE  StackOK(self, Pop)
<1>1. PICK s : s = Pop
  OBVIOUS
<1>2. /\ Len(stack) \in Nat \ {0} /\ DOMAIN stack = 1 .. Len(stack)
      /\ DOMAIN s = 1 .. Len(stack) - 1 /\ \A i \in DOMAIN s : s[i] = stack[i]
  BY <1>1, PopFacts
<1>3. Len(s) = Len(stack) - 1
  <2>1. s \in Seq(Frame)
    BY <1>1, PopFacts
  <2>2. Len(s) \in Nat /\ DOMAIN s = 1 .. Len(s)
    BY <2>1, AppendFacts, Zenon
  <2>3. PICK n \in Nat : n = Len(stack) - 1
    <3>1. Len(stack) \in Nat \ {0}
      BY PopFacts
    <3>. QED
      BY <3>1
  <2>4. 1 .. Len(s) = 1 .. n
    BY <1>2, <2>2, <2>3, Zenon
  <2>5. Len(s) = n
    BY <2>2, <2>4, SameLength, Zenon
  <2>. QED
    BY <2>3, <2>5
<1>4. /\ \A i \in DOMAIN s : VisitorsOK(self, s[i])
      /\ \A i \in DOMAIN s : i < Len(s) /\ ~s[i].waits => s[i].at > 1
  BY <1>2, <1>3 DEF StackInv, StackOK
<1>5. ASSUME NEW i \in DOMAIN s, NEW j \in DOMAIN s, i < j PROVE Nested(self, s, i, j)
  <2>1. Nested(self, stack, i, j) /\ s[i] = stack[i] /\ s[j] = stack[j]
    BY <1>2, <1>5 DEF StackInv, StackOK
  <2>2. \A h \in i + 1 .. j : s[h] = stack[h]
    BY <1>2
  <2>3. HandedOn(self, stack, i, j) => HandedOn(self, s, i, j)
    BY <2>1, <2>2 DEF HandedOn
  <2>. QED
    BY <2>1, <2>3 DEF Nested
<1>. QED
  BY <1>1, <1>4, <1>5 DEF StackOK

LEMMA StackInit == Init => StackInv
<1>. SUFFICES ASSUME Init PROVE StackInv
  OBVIOUS
<1> DEFINE vs == Visitors(1, 1, 1)
           f == Call(1, 1, FALSE, vs)
<1>1. self \in Walks /\ stack = << f >> /\ 1 \in Node
  BY KidsFacts DEF Init, Node
<1>2. Len(self.kids[1]) \in Nat
  BY <1>1, KidsFacts DEF Node
<1>3. /\ DOMAIN vs = 1 .. Len(self.kids[1])
      /\ \A k \in DOMAIN vs : vs[k] = IF 1 \in self.splits /\ k > 1 THEN 1 + k - 1 ELSE 1
  BY <1>2 DEF Visitors
<1>4. f.node = 1 /\ f.vis = 1 /\ ~f.waits /\ f.vs = vs /\ f.at = 1
  BY DEF Call
<1>. HIDE DEF f, vs
<1>5. VisitorsOK(self, f)
  BY <1>2, <1>3, <1>4 DEF VisitorsOK
<1>6. DOMAIN stack = {1} /\ stack[1] = f /\ Len(stack) = 1
  BY <1>1
<1>. QED
  BY <1>5, <1>6 DEF StackInv, StackOK

LEMMA StackStep == TypeInv /\ StackInv /\ [Next]_vars => StackInv'
<1>. SUFFICES ASSUME TypeInv, StackInv, [Next]_vars PROVE StackInv'
  OBVIOUS
<1>1. self' = self
  BY DEF Next, VisitChild, WaitAt, Begin, Revisit, LoopFound, Finish, Resume, GiveUp, vars
<1>2. SUFFICES StackOK(self, stack')
  BY <1>1 DEF StackInv
<1>3. stack' = stack => StackOK(self, stack')
  BY DEF StackInv
<1>4. ASSUME Walking, NEW c \in Caller, WaitAt(c) PROVE StackOK(self, stack')
  <2> DEFINE f == Call(Child(c), Visitor(c), TRUE, << >>)
  <2>1. /\ f.node = Child(c) /\ f.vis = Visitor(c) /\ f.waits /\ f.vs = << >>
    BY DEF Call
  <2>2. stack' = IF self.broken THEN Called(c) ELSE Append(Called(c), f)
    BY <1>4 DEF WaitAt
  <2>. HIDE DEF f
  <2>3. VisitorsOK(self, f) /\ DOMAIN f.vs = {}
    BY <2>1 DEF VisitorsOK
  <2>4. StackOK(self, Append(Called(c), f))
    BY <1>4, <2>1, <2>3, PushStack
  <2>5. StackOK(self, Called(c))
    BY <1>4, CallStack
  <2>. QED
    BY <2>2, <2>4, <2>5
<1>5. ASSUME Walking, NEW c \in Caller, Begin(c) PROVE StackOK(self, stack')
  <2> DEFINE n == Child(c)
             v == Visitor(c)
             vs == Visitors(n, v, Len(flows))
             f == Call(n, v, FALSE, vs)
  <2>1. /\ f.node = n /\ f.vis = v /\ ~f.waits /\ f.vs = vs /\ f.at = 1
    BY DEF Call
  <2>2. stack' = Append(Called(c), f)
    BY <1>5 DEF Begin
  <2>3. /\ n \in Node /\ Len(self.kids[n]) \in Nat
        /\ v \in DOMAIN flows /\ DOMAIN flows = 1 .. Len(flows) /\ Len(flows) \in Nat
    BY <1>5, CallerFacts, KidsFacts DEF TypeInv, TypeOK, Node
  <2>4. /\ DOMAIN vs = 1 .. Len(self.kids[n])
        /\ \A k \in DOMAIN vs : vs[k] = IF n \in self.splits /\ k > 1 THEN Len(flows) + k - 1 ELSE v
    BY <2>3 DEF Visitors
  <2>. HIDE DEF f, vs, v, n
  <2>5. VisitorsOK(self, f)
    BY <2>1, <2>3, <2>4 DEF VisitorsOK
  <2>6. \A l \in DOMAIN f.vs : f.vs[l] = f.vis \/ f.vs[l] \notin DOMAIN flows
    BY <2>1, <2>3, <2>4
  <2>. QED
    BY <1>5, <2>1, <2>2, <2>5, <2>6, PushStack DEF n, v
<1>6. ASSUME Walking, NEW c \in Caller, Revisit(c) PROVE StackOK(self, stack')
  BY <1>6, CallStack DEF Revisit
<1>7. CASE VisitChild
  <2>1. Walking /\ \E c \in Caller : WaitAt(c) \/ Begin(c) \/ Revisit(c) \/ LoopFound(c)
    BY <1>7 DEF VisitChild
  <2>2. \A c : LoopFound(c) => stack' = stack
    BY DEF LoopFound
  <2>. QED
    BY <1>3, <1>4, <1>5, <1>6, <2>1, <2>2
<1>8. CASE Finish
  BY <1>8, PopStack DEF Finish
<1>9. CASE Resume
  BY <1>9, PopStack DEF Resume, AfterWait
<1>10. CASE GiveUp
  BY <1>3, <1>10 DEF GiveUp
<1>11. CASE UNCHANGED vars
  BY <1>3, <1>11 DEF vars
<1>. QED
  BY <1>7, <1>8, <1>9, <1>10, <1>11 DEF Next

(***************************************************************************)
(* What has been seen.  A node is busy while its call is on the stack; a   *)
(* join point has been counted by all its parents when it is visited; who  *)
(* waits for a node does so below its visit.                               *)
(***************************************************************************)
KidsSeen(kids, seen, n, k) == \A i \in 1 .. k : kids[n][i] \in seen
CallSeen(kids, t, seen, f) ==
    ~f.waits => f.node \in DOMAIN t /\ KidsSeen(kids, seen, f.node, f.at - 1)
BusyIn(s, n) == \E i \in DOMAIN s : ~s[i].waits /\ s[i].node = n
NodeSeen(kids, t, seen, s, n) ==
    IF t[n] = "done" THEN KidsSeen(kids, seen, n, Len(kids[n])) ELSE BusyIn(s, n)
PointSeen(t, ps, n) ==
    /\ ps[n].count < 0 <=> n \in DOMAIN t
    /\ ps[n].done => n \in DOMAIN t
    /\ n \in DOMAIN t /\ t[n] = "done" => ps[n].done
WaitsBelow(s) ==
    \A i, j \in DOMAIN s :
        s[i].waits /\ ~s[j].waits /\ s[i].node = s[j].node => i < j

SeenOK(kids, t, ps, s) ==
    /\ 1 \in DOMAIN t
    /\ \A i \in DOMAIN s : CallSeen(kids, t, DOMAIN t \union DOMAIN ps, s[i])
    /\ \A n \in DOMAIN t : NodeSeen(kids, t, DOMAIN t \union DOMAIN ps, s, n)
    /\ \A n \in DOMAIN ps : PointSeen(t, ps, n)
    /\ WaitsBelow(s)
SeenInv == SeenOK(self.kids, tracker, points, stack)

LEMMA SeenInit == Init => SeenInv
<1>. SUFFICES ASSUME Init PROVE SeenInv
  OBVIOUS
<1>1. TypeInv /\ self \in Walks
  BY TypeInit DEF TypeInv
<1>2. DOMAIN tracker = {1} /\ tracker[1] = "busy" /\ points = JoinPoints(self)
  BY DEF Init, With
<1>3. DOMAIN stack = {1} /\ ~stack[1].waits /\ stack[1].node = 1 /\ stack[1].at = 1
  <2> DEFINE f == Call(1, 1, FALSE, Visitors(1, 1, 1))
  <2>1. ~f.waits /\ f.node = 1 /\ f.at = 1
    BY DEF Call
  <2>. HIDE DEF f
  <2>2. stack = << f >>
    BY DEF Init, f
  <2>3. DOMAIN stack = {1} /\ stack[1] = f
    BY <2>2
  <2>. QED
    BY <2>1, <2>3
<1>4. ASSUME NEW n \in DOMAIN points PROVE PointSeen(tracker, points, n)
  <2>1. points[n].count = Cardinality(Parents(self.kids, n)) - 1 /\ ~points[n].done
    BY <1>2, <1>4 DEF JoinPoints
  <2>2. Cardinality(Parents(self.kids, n)) > 1 /\ Cardinality(Parents(self.kids, n)) \in Nat
    <3>1. n \in SharedNodes(self)
      BY <1>2, <1>4 DEF JoinPoints
    <3>. QED
      BY <1>1, <3>1, ParentsFinite, CardInt DEF SharedNodes
  <2>3. Parents(self.kids, 1) = {}
    <3>. SUFFICES ASSUME NEW e \in Edges(self.kids), self.kids[e[1]][e[2]] = 1 PROVE FALSE
      BY DEF Parents
    <3>1. e[1] \in DOMAIN self.kids /\ e[2] \in DOMAIN self.kids[e[1]]
      BY <1>1, EdgeFacts
    <3>. QED
      BY <1>1, <3>1, KidsFacts
  <2>4. n # 1
    BY <2>2, <2>3, FS_EmptySet
  <2>. QED
    BY <1>2, <2>1, <2>2, <2>4 DEF PointSeen
<1>5. \A i \in DOMAIN stack : CallSeen(self.kids, tracker, DOMAIN tracker \union DOMAIN points, stack[i])
  BY <1>2, <1>3 DEF CallSeen, KidsSeen
<1>6. \A n \in DOMAIN tracker : NodeSeen(self.kids, tracker, DOMAIN tracker \union DOMAIN points, stack, n)
  BY <1>2, <1>3 DEF NodeSeen, BusyIn
<1>7. WaitsBelow(stack)
  BY <1>3 DEF WaitsBelow
<1>. QED
  BY <1>2, <1>4, <1>5, <1>6, <1>7 DEF SeenInv, SeenOK

\* The calls below, after a call of a child that has been seen, or waits.
LEMMA CalledSeen ==
    ASSUME TypeInv, StackInv, SeenInv, Walking, NEW c \in Caller, NEW s, s = Called(c),
           NEW t, NEW seen, DOMAIN tracker \subseteq DOMAIN t,
           DOMAIN tracker \union DOMAIN points \subseteq seen, Child(c) \in seen
    PROVE  \A i \in DOMAIN stack : CallSeen(self.kids, t, seen, s[i])
<1>. SUFFICES ASSUME NEW i \in DOMAIN stack, ~s[i].waits
              PROVE  s[i].node \in DOMAIN t /\ KidsSeen(self.kids, seen, s[i].node, s[i].at - 1)
  BY DEF CallSeen
<1>1. /\ stack[i].at \in Nat \ {0}
      /\ s[i].node = stack[i].node /\ s[i].waits = stack[i].waits
      /\ s[i].at = IF i = c THEN stack[i].at + 1 ELSE stack[i].at
  BY CalledFrames
<1>2. /\ stack[i].node \in DOMAIN tracker
      /\ KidsSeen(self.kids, DOMAIN tracker \union DOMAIN points, stack[i].node, stack[i].at - 1)
  BY <1>1 DEF SeenInv, SeenOK, CallSeen
<1>3. ASSUME NEW k \in 1 .. s[i].at - 1
      PROVE  self.kids[s[i].node][k] \in seen
  <2>1. CASE k \in 1 .. stack[i].at - 1
    BY <1>1, <1>2, <2>1 DEF KidsSeen
  <2>2. CASE k \notin 1 .. stack[i].at - 1
    <3>1. i = c /\ k = stack[c].at
      BY <1>1, <1>3, <2>2
    <3>2. self.kids[s[i].node][k] = Child(c)
      BY <1>1, <3>1 DEF Child
    <3>. QED
      BY <3>2
  <2>. QED
    BY <2>1, <2>2
<1>4. KidsSeen(self.kids, seen, s[i].node, s[i].at - 1)
  BY <1>3 DEF KidsSeen
<1>. QED
  BY <1>1, <1>2, <1>4

\* A node that has been seen stays so, whatever is pushed.
LEMMA StaysSeen ==
    ASSUME SeenInv, NEW m \in DOMAIN tracker, NEW t, NEW seen, NEW s,
           t[m] = tracker[m], DOMAIN tracker \union DOMAIN points \subseteq seen,
           BusyIn(stack, m) => BusyIn(s, m) \/ t[m] = "done"
    PROVE  NodeSeen(self.kids, t, seen, s, m)
<1>1. NodeSeen(self.kids, tracker, DOMAIN tracker \union DOMAIN points, stack, m)
  BY DEF SeenInv, SeenOK
<1>2. CASE tracker[m] = "done"
  BY <1>1, <1>2 DEF NodeSeen, KidsSeen
<1>3. CASE tracker[m] # "done"
  BY <1>1, <1>3 DEF NodeSeen
<1>. QED
  BY <1>2, <1>3

LEMMA WaitSeen ==
    ASSUME TypeInv, StackInv, SeenInv, Walking, NEW c \in Caller, WaitAt(c)
    PROVE  SeenInv'
<1> DEFINE n == Child(c)
           f == Call(n, Visitor(c), TRUE, << >>)
           acc == Accumulated(points[n], flows[Visitor(c)])
           seen == DOMAIN tracker \union DOMAIN points
<1>1. /\ n \in DOMAIN points /\ points[n].count > 0
      /\ points' = [points EXCEPT ![n].vclone = acc, ![n].count = @ - 1]
      /\ stack' = IF self.broken THEN Called(c) ELSE Append(Called(c), f)
      /\ UNCHANGED <<self, tracker>>
  BY DEF WaitAt, Pends, IsJoin
<1>2. f.waits /\ f.node = n
  BY DEF Call
<1>. HIDE DEF acc, f, n
<1>3. PICK s : s = Called(c)
  OBVIOUS
<1>4. /\ DOMAIN s = 1 .. Len(stack) /\ DOMAIN stack = 1 .. Len(stack) /\ Len(stack) \in Nat
      /\ Len(s) = Len(stack) /\ s \in Seq(Frame)
      /\ \A i \in DOMAIN stack : s[i].node = stack[i].node /\ s[i].waits = stack[i].waits
  BY <1>3, CalledFrames
<1>5. /\ DOMAIN stack \subseteq DOMAIN stack'
      /\ \A i \in DOMAIN stack : stack'[i] = s[i]
      /\ \A i \in DOMAIN stack' : i \in DOMAIN stack \/ (i = Len(stack) + 1 /\ stack'[i] = f)
  <2>1. CASE self.broken
    BY <1>1, <1>3, <1>4, <2>1
  <2>2. CASE ~self.broken
    <3>1. /\ stack' = Append(s, f) /\ DOMAIN stack' = 1 .. Len(stack) + 1
          /\ stack'[Len(stack) + 1] = f /\ \A i \in DOMAIN s : stack'[i] = s[i]
      BY <1>1, <1>3, <1>4, <2>2, AppendFacts
    <3>. QED
      BY <1>4, <3>1
  <2>. QED
    BY <2>1, <2>2
<1>6. \A m \in DOMAIN points : points[m] \in [vclone : Flow, count : Int, done : BOOLEAN]
  BY DEF TypeInv, TypeOK
<1>7. /\ DOMAIN points' = DOMAIN points
      /\ \A m \in DOMAIN points : points'[m].done = points[m].done
      /\ \A m \in DOMAIN points : points'[m].count < 0 <=> points[m].count < 0
  BY <1>1, <1>6
<1>8. \A i \in DOMAIN stack' : CallSeen(self.kids, tracker, seen, stack'[i])
  <2>1. \A i \in DOMAIN stack : CallSeen(self.kids, tracker, seen, s[i])
    BY <1>1, <1>3, CalledSeen DEF n
  <2>2. CallSeen(self.kids, tracker, seen, f)
    BY <1>2 DEF CallSeen
  <2>. QED
    BY <1>5, <2>1, <2>2
<1>9. \A m \in DOMAIN tracker : NodeSeen(self.kids, tracker, seen, stack', m)
  <2>. SUFFICES ASSUME NEW m \in DOMAIN tracker PROVE NodeSeen(self.kids, tracker, seen, stack', m)
    OBVIOUS
  <2>1. BusyIn(stack, m) => BusyIn(stack', m)
    BY <1>4, <1>5 DEF BusyIn
  <2>. QED
    BY <2>1, StaysSeen
<1>10. \A m \in DOMAIN points : PointSeen(tracker, points', m)
  BY <1>1, <1>7 DEF SeenInv, SeenOK, PointSeen
<1>11. WaitsBelow(stack')
  <2>1. n \notin DOMAIN tracker
    BY <1>1, <1>6 DEF SeenInv, SeenOK, PointSeen
  <2>2. \A j \in DOMAIN stack : ~stack[j].waits => stack[j].node # n
    BY <2>1 DEF SeenInv, SeenOK, CallSeen
  <2>3. \A i, j \in DOMAIN stack :
            stack[i].waits /\ ~stack[j].waits /\ stack[i].node = stack[j].node => i < j
    BY DEF SeenInv, SeenOK, WaitsBelow
  <2>4. ASSUME NEW i \in DOMAIN stack', NEW j \in DOMAIN stack',
               stack'[i].waits, ~stack'[j].waits, stack'[i].node = stack'[j].node
        PROVE  i < j
    <3>1. j \in DOMAIN stack /\ ~stack[j].waits /\ stack'[j].node = stack[j].node
      BY <1>2, <1>4, <1>5, <2>4
    <3>2. CASE i \in DOMAIN stack
      BY <1>4, <1>5, <2>3, <2>4, <3>1, <3>2
    <3>3. CASE i \notin DOMAIN stack
      BY <1>2, <1>5, <2>2, <2>4, <3>1, <3>3
    <3>. QED
      BY <3>2, <3>3
  <2>. QED
    BY <2>4 DEF WaitsBelow
<1>12. SeenOK(self.kids, tracker, points', stack')
  <2>1. 1 \in DOMAIN tracker
    BY DEF SeenInv, SeenOK
  <2>. QED
    BY <1>7, <1>8, <1>9, <1>10, <1>11, <2>1 DEF SeenOK
<1>. QED
  BY <1>1, <1>12 DEF SeenInv

LEMMA BeginSeen ==
    ASSUME TypeInv, StackInv, SeenInv, Walking, NEW c \in Caller, Begin(c)
    PROVE  SeenInv'
<1> DEFINE n == Child(c)
           f == Call(n, Visitor(c), FALSE, Visitors(n, Visitor(c), Len(flows)))
           seen == DOMAIN tracker' \union DOMAIN points
<1>1. /\ ~Pends(n)
      /\ points' = Counted(n)
      /\ tracker' = With(tracker, n, "busy")
      /\ stack' = Append(Called(c), f)
      /\ UNCHANGED self
  BY DEF Begin
<1>2. ~f.waits /\ f.node = n /\ f.at = 1
  BY DEF Call
<1>. HIDE DEF f, n
<1>3. PICK s : s = Called(c)
  OBVIOUS
<1>4. /\ DOMAIN s = 1 .. Len(stack) /\ DOMAIN stack = 1 .. Len(stack) /\ Len(stack) \in Nat
      /\ Len(s) = Len(stack) /\ s \in Seq(Frame)
      /\ \A i \in DOMAIN stack : s[i].node = stack[i].node /\ s[i].waits = stack[i].waits
  BY <1>3, CalledFrames
<1>5. /\ DOMAIN stack \subseteq DOMAIN stack'
      /\ \A i \in DOMAIN stack : stack'[i] = s[i]
      /\ \A i \in DOMAIN stack' : i \in DOMAIN stack \/ i = Len(stack) + 1
      /\ Len(stack) + 1 \in DOMAIN stack' /\ stack'[Len(stack) + 1] = f
  <2>1. /\ stack' = Append(s, f) /\ DOMAIN stack' = 1 .. Len(stack) + 1
        /\ stack'[Len(stack) + 1] = f /\ \A i \in DOMAIN s : stack'[i] = s[i]
    BY <1>1, <1>3, <1>4, AppendFacts
  <2>. QED
    BY <1>4, <2>1
<1>6. \A m \in DOMAIN points : points[m] \in [vclone : Flow, count : Int, done : BOOLEAN]
  BY DEF TypeInv, TypeOK
<1>7. /\ DOMAIN tracker' = DOMAIN tracker \union {n} /\ tracker'[n] = "busy"
      /\ \A m \in DOMAIN tracker : m # n => tracker'[m] = tracker[m]
  BY <1>1 DEF With
<1>8. /\ DOMAIN points' = DOMAIN points
      /\ \A m \in DOMAIN points : points'[m].done = points[m].done
      /\ \A m \in DOMAIN points : m # n => points'[m].count = points[m].count
      /\ n \in DOMAIN points => points'[n].count < 0
  BY <1>1, <1>6 DEF Counted, IsJoin, Pends
<1>9. \A i \in DOMAIN stack' : CallSeen(self.kids, tracker', seen, stack'[i])
  <2>1. \A i \in DOMAIN stack : CallSeen(self.kids, tracker', seen, s[i])
    <3>1. /\ Child(c) \in seen /\ DOMAIN tracker \subseteq DOMAIN tracker'
          /\ DOMAIN tracker \union DOMAIN points \subseteq seen
      BY <1>7 DEF n
    <3>. HIDE DEF seen
    <3>. QED
      BY <1>3, <3>1, CalledSeen
  <2>2. CallSeen(self.kids, tracker', seen, f)
    BY <1>2, <1>7 DEF CallSeen, KidsSeen
  <2>. QED
    BY <1>5, <2>1, <2>2
<1>10. \A m \in DOMAIN tracker' : NodeSeen(self.kids, tracker', seen, stack', m)
  <2>. SUFFICES ASSUME NEW m \in DOMAIN tracker' PROVE NodeSeen(self.kids, tracker', seen, stack', m)
    OBVIOUS
  <2>1. CASE m = n
    <3>1. BusyIn(stack', m)
      BY <1>2, <1>5, <2>1 DEF BusyIn
    <3>. QED
      BY <1>7, <2>1, <3>1 DEF NodeSeen
  <2>2. CASE m # n
    <3>1. m \in DOMAIN tracker /\ tracker'[m] = tracker[m]
      BY <1>7, <2>2
    <3>2. BusyIn(stack, m) => BusyIn(stack', m)
      BY <1>4, <1>5 DEF BusyIn
    <3>3. DOMAIN tracker \union DOMAIN points \subseteq seen
      BY <1>7
    <3>. HIDE DEF seen
    <3>. QED
      BY <3>1, <3>2, <3>3, StaysSeen
  <2>. QED
    BY <2>1, <2>2
<1>11. \A m \in DOMAIN points : PointSeen(tracker', points', m)
  <2>. SUFFICES ASSUME NEW m \in DOMAIN points PROVE PointSeen(tracker', points', m)
    OBVIOUS
  <2>1. PointSeen(tracker, points, m)
    BY DEF SeenInv, SeenOK
  <2>. QED
    BY <1>7, <1>8, <2>1 DEF PointSeen
<1>12. WaitsBelow(stack')
  <2>1. ASSUME NEW i \in DOMAIN stack', NEW j \in DOMAIN stack',
               stack'[i].waits, ~stack'[j].waits, stack'[i].node = stack'[j].node
        PROVE  i < j
    <3>1. i \in DOMAIN stack
      BY <1>2, <1>5, <2>1
    <3>2. CASE j \in DOMAIN stack
      <4>1. stack[i].waits /\ ~stack[j].waits /\ stack[i].node = stack[j].node
        BY <1>4, <1>5, <2>1, <3>1, <3>2
      <4>. QED
        BY <3>1, <3>2, <4>1 DEF SeenInv, SeenOK, WaitsBelow
    <3>3. CASE j = Len(stack) + 1
      BY <1>4, <3>1, <3>3
    <3>. QED
      BY <1>5, <3>2, <3>3
  <2>. QED
    BY <2>1 DEF WaitsBelow
<1>13. SeenOK(self.kids, tracker', points', stack')
  <2>1. 1 \in DOMAIN tracker'
    BY <1>7 DEF SeenInv, SeenOK
  <2>. QED
    BY <1>8, <1>9, <1>10, <1>11, <1>12, <2>1 DEF SeenOK
<1>. QED
  BY <1>1, <1>13 DEF SeenInv

\* Counted and Left change the count and what is done, of one node.
LEMMA LeftPoints ==
    ASSUME TypeInv, NEW n, NEW flow, NEW pts,
           \/ pts = points
           \/ ~Pends(n) /\ pts = Counted(n),
           NEW ps, ps = Left(pts, n, flow)
    PROVE  /\ DOMAIN ps = DOMAIN points
           /\ \A m \in DOMAIN points : m # n => ps[m] = points[m]
           /\ n \in DOMAIN points =>
                 /\ ps[n].done /\ ps[n].vclone = flow
                 /\ ps[n].count = pts[n].count
                 /\ pts = points \/ (points[n].count <= 0 /\ pts[n].count < 0)
<1>1. \A m \in DOMAIN points : points[m] \in [vclone : Flow, count : Int, done : BOOLEAN]
  BY DEF TypeInv, TypeOK
<1>2. /\ DOMAIN pts = DOMAIN points
      /\ \A m \in DOMAIN points : m # n => pts[m] = points[m]
      /\ n \in DOMAIN points =>
            /\ pts[n] \in [vclone : Flow, count : Int, done : BOOLEAN]
            /\ pts = points \/ (points[n].count <= 0 /\ pts[n].count < 0)
  <2>1. CASE pts = points
    BY <1>1, <2>1
  <2>2. CASE ~Pends(n) /\ pts = Counted(n)
    BY <1>1, <2>2 DEF Counted, IsJoin, Pends
  <2>. QED
    BY <2>1, <2>2
<1>. QED
  BY <1>2 DEF Left, IsJoin

LEMMA RevisitSeen ==
    ASSUME TypeInv, StackInv, SeenInv, Walking, NEW c \in Caller, Revisit(c)
    PROVE  SeenInv'
<1> DEFINE n == Child(c)
           flow == Joined(n, Visitor(c))
           seen == DOMAIN tracker \union DOMAIN points
<1>1. /\ ~Pends(n) /\ ~Fresh(n) /\ tracker[n] = "done"
      /\ points' = Left(Counted(n), n, flow)
      /\ stack' = Called(c)
      /\ UNCHANGED <<self, tracker>>
  BY DEF Revisit
<1>. HIDE DEF n, flow
<1>2. n \in DOMAIN tracker
  BY <1>1 DEF Fresh
<1>3. /\ DOMAIN stack' = DOMAIN stack
      /\ \A i \in DOMAIN stack :
            stack'[i].node = stack[i].node /\ stack'[i].waits = stack[i].waits
  <2>1. PICK s : s = Called(c)
    OBVIOUS
  <2>2. DOMAIN s = DOMAIN stack /\ \A i \in DOMAIN stack :
            s[i].node = stack[i].node /\ s[i].waits = stack[i].waits
    BY <2>1, CalledFrames
  <2>. QED
    BY <1>1, <2>1, <2>2
<1>5. /\ DOMAIN points' = DOMAIN points
      /\ \A m \in DOMAIN points : m # n => points'[m] = points[m]
      /\ n \in DOMAIN points => points'[n].done /\ points'[n].count < 0
  <2>1. /\ DOMAIN points' = DOMAIN points
        /\ \A m \in DOMAIN points : m # n => points'[m] = points[m]
        /\ n \in DOMAIN points =>
              /\ points'[n].done /\ points'[n].count = Counted(n)[n].count
              /\ Counted(n) = points \/ Counted(n)[n].count < 0
    BY <1>1, LeftPoints
  <2>2. \A m \in DOMAIN points : points[m] \in [vclone : Flow, count : Int, done : BOOLEAN]
    BY DEF TypeInv, TypeOK
  <2>3. n \in DOMAIN points => Counted(n)[n].count < 0
    BY <1>1, <2>2 DEF Counted, IsJoin, Pends
  <2>. QED
    BY <2>1, <2>3
<1>6. \A i \in DOMAIN stack' : CallSeen(self.kids, tracker, seen, stack'[i])
  <2>1. Child(c) \in seen
    BY <1>2 DEF n
  <2>. QED
    BY <1>1, <1>3, <2>1, CalledSeen
<1>7. \A m \in DOMAIN tracker : NodeSeen(self.kids, tracker, seen, stack', m)
  <2>. SUFFICES ASSUME NEW m \in DOMAIN tracker PROVE NodeSeen(self.kids, tracker, seen, stack', m)
    OBVIOUS
  <2>1. BusyIn(stack, m) => BusyIn(stack', m)
    BY <1>3 DEF BusyIn
  <2>. QED
    BY <2>1, StaysSeen
<1>8. \A m \in DOMAIN points : PointSeen(tracker, points', m)
  BY <1>1, <1>2, <1>5 DEF SeenInv, SeenOK, PointSeen
<1>9. WaitsBelow(stack')
  BY <1>3 DEF SeenInv, SeenOK, WaitsBelow
<1>10. SeenOK(self.kids, tracker, points', stack')
  <2>1. 1 \in DOMAIN tracker
    BY DEF SeenInv, SeenOK
  <2>. QED
    BY <1>5, <1>6, <1>7, <1>8, <1>9, <2>1 DEF SeenOK
<1>. QED
  BY <1>1, <1>10 DEF SeenInv

LEMMA FinishSeen ==
    ASSUME TypeInv, StackInv, SeenInv, Finish
    PROVE  SeenInv'
<1> DEFINE n == Top.node
           seen == DOMAIN tracker \union DOMAIN points
<1>1. /\ Walking /\ ~Top.waits /\ ~More(Top)
      /\ points' = Left(points, n, Merged)
      /\ tracker' = [tracker EXCEPT ![n] = "done"]
      /\ stack' = Pop
      /\ UNCHANGED self
  BY DEF Finish, Merged
<1>2. /\ Len(stack) \in Nat \ {0} /\ DOMAIN stack = 1 .. Len(stack)
      /\ DOMAIN stack' = 1 .. Len(stack) - 1 /\ \A i \in DOMAIN stack' : stack'[i] = stack[i]
  BY <1>1, PopFacts
<1>3. Len(stack) \in DOMAIN stack /\ stack[Len(stack)] = Top
  BY <1>2 DEF Top
<1>4. n \in DOMAIN tracker /\ KidsSeen(self.kids, seen, n, Top.at - 1)
  BY <1>1, <1>3 DEF SeenInv, SeenOK, CallSeen
<1>5. KidsSeen(self.kids, seen, n, Len(self.kids[n]))
  <2>1. Top.at \in Nat /\ n \in Node
    <3>1. Top \in Frame
      BY <1>3 DEF TypeInv, TypeOK
    <3>. QED
      BY <3>1 DEF Frame
  <2>2. Len(self.kids[n]) \in Nat
    BY <2>1, KidsFacts DEF TypeInv, Node
  <2>3. Top.at > Len(self.kids[n])
    BY <1>1, <2>1, <2>2 DEF More
  <2>. HIDE DEF n
  <2>. QED
    BY <1>4, <2>1, <2>2, <2>3 DEF KidsSeen
<1>. HIDE DEF n
<1>6. /\ DOMAIN points' = DOMAIN points
      /\ \A m \in DOMAIN points : m # n => points'[m] = points[m]
      /\ n \in DOMAIN points => points'[n].done /\ points'[n].count = points[n].count
  BY <1>1, LeftPoints
<1>7. /\ DOMAIN tracker' = DOMAIN tracker /\ tracker'[n] = "done"
      /\ \A m \in DOMAIN tracker : m # n => tracker'[m] = tracker[m]
  BY <1>1, <1>4
<1>8. \A i \in DOMAIN stack' : CallSeen(self.kids, tracker', seen, stack'[i])
  <2>. SUFFICES ASSUME NEW i \in DOMAIN stack' PROVE CallSeen(self.kids, tracker', seen, stack'[i])
    OBVIOUS
  <2>1. i \in DOMAIN stack /\ stack'[i] = stack[i]
    BY <1>2
  <2>2. CallSeen(self.kids, tracker, seen, stack[i])
    BY <2>1 DEF SeenInv, SeenOK
  <2>. HIDE DEF seen
  <2>. QED
    BY <1>7, <2>1, <2>2 DEF CallSeen
<1>9. \A m \in DOMAIN tracker : NodeSeen(self.kids, tracker', seen, stack', m)
  <2>. SUFFICES ASSUME NEW m \in DOMAIN tracker PROVE NodeSeen(self.kids, tracker', seen, stack', m)
    OBVIOUS
  <2>1. CASE m = n
    BY <1>5, <1>7, <2>1 DEF NodeSeen
  <2>2. CASE m # n
    <3>1. BusyIn(stack, m) => BusyIn(stack', m)
      <4>. SUFFICES ASSUME NEW i \in DOMAIN stack, ~stack[i].waits, stack[i].node = m PROVE BusyIn(stack', m)
        BY DEF BusyIn
      <4>1. i # Len(stack)
        BY <1>3, <2>2 DEF n
      <4>2. i \in DOMAIN stack'
        BY <1>2, <4>1
      <4>. QED
        BY <1>2, <4>2 DEF BusyIn
    <3>. HIDE DEF seen
    <3>2. DOMAIN tracker \union DOMAIN points \subseteq seen
      BY DEF seen
    <3>. QED
      BY <1>7, <2>2, <3>1, <3>2, StaysSeen
  <2>. QED
    BY <2>1, <2>2
<1>10. \A m \in DOMAIN points : PointSeen(tracker', points', m)
  <2>. SUFFICES ASSUME NEW m \in DOMAIN points PROVE PointSeen(tracker', points', m)
    OBVIOUS
  <2>1. PointSeen(tracker, points, m)
    BY DEF SeenInv, SeenOK
  <2>. QED
    BY <1>4, <1>6, <1>7, <2>1 DEF PointSeen
<1>11. WaitsBelow(stack')
  BY <1>2 DEF SeenInv, SeenOK, WaitsBelow
<1>12. SeenOK(self.kids, tracker', points', stack')
  <2>1. 1 \in DOMAIN tracker'
    BY <1>7 DEF SeenInv, SeenOK
  <2>. QED
    BY <1>6, <1>7, <1>8, <1>9, <1>10, <1>11, <2>1 DEF SeenOK
<1>. QED
  BY <1>1, <1>12 DEF SeenInv

LEMMA ResumeSeen ==
    ASSUME TypeInv, StackInv, SeenInv, Resume
    PROVE  SeenInv'
<1>1. /\ Walking /\ Top.waits /\ stack' = Pop /\ UNCHANGED <<self, points, tracker>>
  BY DEF Resume, AfterWait
<1>2. /\ Len(stack) \in Nat \ {0} /\ DOMAIN stack = 1 .. Len(stack)
      /\ DOMAIN stack' = 1 .. Len(stack) - 1 /\ \A i \in DOMAIN stack' : stack'[i] = stack[i]
  BY <1>1, PopFacts
<1>3. \A i \in DOMAIN stack : ~stack[i].waits => i \in DOMAIN stack'
  BY <1>1, <1>2 DEF Top
<1>4. \A m : BusyIn(stack, m) => BusyIn(stack', m)
  BY <1>2, <1>3 DEF BusyIn
<1>5. \A m \in DOMAIN tracker : NodeSeen(self.kids, tracker, DOMAIN tracker \union DOMAIN points, stack', m)
  <2>. SUFFICES ASSUME NEW m \in DOMAIN tracker
                PROVE  NodeSeen(self.kids, tracker, DOMAIN tracker \union DOMAIN points, stack', m)
    OBVIOUS
  <2>. QED
    BY <1>4, StaysSeen
<1>6. WaitsBelow(stack')
  BY <1>2 DEF SeenInv, SeenOK, WaitsBelow
<1>7. \A i \in DOMAIN stack' :
          CallSeen(self.kids, tracker, DOMAIN tracker \union DOMAIN points, stack'[i])
  <2>1. \A i \in DOMAIN stack' : i \in DOMAIN stack /\ stack'[i] = stack[i]
    BY <1>2
  <2>2. \A i \in DOMAIN stack :
            CallSeen(self.kids, tracker, DOMAIN tracker \union DOMAIN points, stack[i])
    BY DEF SeenInv, SeenOK
  <2>. QED
    BY <2>1, <2>2, Zenon
<1>8. SeenOK(self.kids, tracker, points, stack')
  BY <1>5, <1>6, <1>7 DEF SeenInv, SeenOK
<1>. QED
  BY <1>1, <1>8 DEF SeenInv

LEMMA SeenStep == TypeInv /\ StackInv /\ SeenInv /\ [Next]_vars => SeenInv'
<1>. SUFFICES ASSUME TypeInv, StackInv, SeenInv, [Next]_vars PROVE SeenInv'
  OBVIOUS
<1>1. UNCHANGED <<self, points, tracker, stack>> => SeenInv'
  BY DEF SeenInv
<1>2. CASE VisitChild
  <2>1. PICK c \in Caller : WaitAt(c) \/ Begin(c) \/ Revisit(c) \/ LoopFound(c)
    BY <1>2 DEF VisitChild
  <2>2. Walking
    BY <1>2 DEF VisitChild
  <2>3. CASE LoopFound(c)
    BY <1>1, <2>3 DEF LoopFound
  <2>. QED
    BY <2>1, <2>2, <2>3, WaitSeen, BeginSeen, RevisitSeen
<1>3. CASE Finish
  BY <1>3, FinishSeen
<1>4. CASE Resume
  BY <1>4, ResumeSeen
<1>5. CASE GiveUp
  BY <1>1, <1>5 DEF GiveUp
<1>6. CASE UNCHANGED vars
  BY <1>1, <1>6 DEF vars
<1>. QED
  BY <1>2, <1>3, <1>4, <1>5, <1>6 DEF Next

----------------------------------------------------------------------------
(* Nodes that have not been reached yet.                                   *)

\* Whoever took an edge has visited the node or waits for it.
LEMMA UsedSeen ==
    ASSUME TypeInv, SeenInv, NEW e \in Edges(self.kids), EdgeUsed(e)
    PROVE  self.kids[e[1]][e[2]] \in DOMAIN tracker \union DOMAIN points
<1> DEFINE seen == DOMAIN tracker \union DOMAIN points
           p == e[1]
           k == e[2]
<1>1. /\ p \in DOMAIN tracker /\ k \in Nat \ {0} /\ k \in 1 .. Len(self.kids[p])
  <2>1. p \in DOMAIN self.kids /\ k \in DOMAIN self.kids[p] /\ k \in Nat \ {0}
    BY EdgeFacts DEF TypeInv
  <2>2. DOMAIN self.kids[p] = 1 .. Len(self.kids[p])
    BY <2>1, KidsFacts DEF TypeInv
  <2>. QED
    BY <2>1, <2>2 DEF EdgeUsed
<1>. HIDE DEF seen
<1>2. CASE tracker[p] = "done"
  <2>1. NodeSeen(self.kids, tracker, seen, stack, p)
    BY <1>1 DEF SeenInv, SeenOK, seen
  <2>. QED
    BY <1>1, <1>2, <2>1 DEF NodeSeen, KidsSeen, seen
<1>3. ASSUME NEW i \in DOMAIN stack, ~stack[i].waits, stack[i].node = p, k < stack[i].at
      PROVE  self.kids[p][k] \in seen
  <2>1. stack[i].at \in Nat
    <3>1. stack[i] \in Frame
      BY DEF TypeInv, TypeOK
    <3>. QED
      BY <3>1 DEF Frame
  <2>2. CallSeen(self.kids, tracker, seen, stack[i])
    BY DEF SeenInv, SeenOK, seen
  <2>3. k \in 1 .. stack[i].at - 1
    BY <1>1, <1>3, <2>1
  <2>. QED
    BY <1>3, <2>2, <2>3 DEF CallSeen, KidsSeen
<1>. QED
  BY <1>1, <1>2, <1>3 DEF EdgeUsed, seen

LEMMA MaxOf ==
    ASSUME NEW n \in Nat, NEW T \in SUBSET (1 .. n), T # {}
    PROVE  Max(T) \in T /\ \A x \in T : Max(T) >= x
<1> DEFINE U == { k \in Nat : n - k \in T }
<1>1. U \in SUBSET Nat /\ \A x \in T : n - x \in U /\ n - (n - x) = x
  OBVIOUS
<1>2. PICK k \in U : \A l \in U : k <= l
  <2>1. U # {}
    BY <1>1
  <2>. HIDE DEF U
  <2>. QED
    BY <1>1, <2>1, LeastOf
<1>3. n - k \in T /\ \A x \in T : n - k >= x
  <2>. SUFFICES ASSUME NEW x \in T PROVE n - k >= x
    BY <1>2
  <2>1. n - x \in U /\ x \in Nat /\ k \in Nat
    BY <1>1, <1>2
  <2>2. k <= n - x
    <3>. HIDE DEF U
    <3>. QED
      BY <1>2, <2>1
  <2>. QED
    BY <2>1, <2>2
<1>. HIDE DEF U
<1>4. \E m \in T : \A x \in T : m >= x
  BY <1>3
<1>. QED
  BY <1>4 DEF Max

\* An edge that leads to a node not visited yet has a call that will take it.
LEMMA Unreached ==
    ASSUME TypeInv, JoinInv, SeenInv, AllJoin(self), NEW n \in Node, n \notin DOMAIN tracker
    PROVE  \E i \in DOMAIN stack : More(stack[i])
<1> DEFINE unvisited == { m \in Node : m \notin DOMAIN tracker }
<1>1. self \in Walks /\ Node = 1 .. Len(self.kids) /\ Len(self.kids) \in Nat \ {0}
  BY KidsFacts DEF TypeInv, Node
<1>2. PICK m \in unvisited : \A k \in unvisited : m <= k
  <2>1. unvisited \in SUBSET Nat /\ unvisited # {}
    BY <1>1
  <2>. HIDE DEF unvisited
  <2>. QED
    BY <2>1, LeastOf
<1>3. m \in Node /\ m \notin DOMAIN tracker /\ \A k \in Node : k < m => k \in DOMAIN tracker
  BY <1>1, <1>2
<1>. HIDE DEF unvisited
<1>4. \E e \in Parents(self.kids, m) : e \notin Used /\ e[1] \in Node
  <2>1. CASE m \in DOMAIN points
    <3>1. points[m].count \in Int /\ points[m].count >= 0
      <4>1. points[m] \in [vclone : Flow, count : Int, done : BOOLEAN]
        BY <2>1 DEF TypeInv, TypeOK
      <4>2. PointSeen(tracker, points, m)
        BY <2>1 DEF SeenInv, SeenOK
      <4>. QED
        BY <1>3, <4>1, <4>2 DEF PointSeen
    <3>2. points[m].count = Cardinality(Parents(self.kids, m)) - 1 - Cardinality(UsedTo(m))
      BY <2>1 DEF JoinInv, EdgesCounted
    <3>3. /\ IsFiniteSet(Parents(self.kids, m)) /\ Cardinality(Parents(self.kids, m)) \in Nat
          /\ UsedTo(m) \in SUBSET Parents(self.kids, m)
      BY <1>1, ParentsFinite, CardInt DEF UsedTo
    <3>4. Cardinality(UsedTo(m)) \in Nat
      BY <3>3, FS_Subset, CardInt
    <3>5. UsedTo(m) # Parents(self.kids, m)
      BY <3>1, <3>2, <3>3, <3>4
    <3>6. PICK e \in Parents(self.kids, m) : e \notin UsedTo(m)
      BY <3>3, <3>5
    <3>7. e \notin Used
      BY <3>6 DEF UsedTo
    <3>8. e[1] \in Node
      BY <1>1, <3>6, EdgeFacts DEF Parents, Node
    <3>. QED
      BY <3>6, <3>7, <3>8
  <2>2. CASE m \notin DOMAIN points
    <3>1. m \in 2 .. Len(self.kids)
      <4>1. m # 1
        BY <1>3 DEF SeenInv, SeenOK
      <4>. QED
        BY <1>1, <1>3, <4>1
    <3>2. PICK p \in DOMAIN self.kids : m \in Range(self.kids[p])
      BY <1>1, <3>1, WalkAssumption
    <3>3. PICK k \in DOMAIN self.kids[p] : self.kids[p][k] = m
      BY <3>2 DEF Range
    <3>4. <<p, k>> \in Parents(self.kids, m) /\ <<p, k>>[1] = p /\ <<p, k>>[2] = k
      BY <3>3 DEF Parents, Edges
    <3>5. ~EdgeUsed(<<p, k>>)
      <4>1. <<p, k>> \in Edges(self.kids)
        BY <3>4 DEF Parents
      <4>. QED
        BY <1>3, <2>2, <3>3, <3>4, <4>1, UsedSeen
    <3>. QED
      BY <3>2, <3>4, <3>5 DEF Used, Node
  <2>. QED
    BY <2>1, <2>2
<1>5. PICK e \in Parents(self.kids, m) : e \notin Used /\ e[1] \in Node
  BY <1>4
<1>6. /\ e \in Edges(self.kids) /\ e[2] \in DOMAIN self.kids[e[1]] /\ e[2] \in Nat \ {0}
      /\ self.kids[e[1]][e[2]] = m /\ ~EdgeUsed(e)
  BY <1>1, <1>5, EdgeFacts DEF Parents, Used
<1>7. /\ e[1] \in Nat /\ e[1] < m /\ e[2] <= Len(self.kids[e[1]])
      /\ Len(self.kids[e[1]]) \in Nat
  <2>1. /\ DOMAIN self.kids[e[1]] = 1 .. Len(self.kids[e[1]]) /\ Len(self.kids[e[1]]) \in Nat
        /\ self.kids[e[1]][e[2]] > e[1]
    BY <1>1, <1>5, <1>6, KidsFacts DEF Node
  <2>. QED
    BY <1>1, <1>5, <1>6, <2>1
<1>8. e[1] \in DOMAIN tracker
  BY <1>3, <1>5, <1>7
<1>9. tracker[e[1]] # "done"
  BY <1>6, <1>8 DEF EdgeUsed
<1>10. NodeSeen(self.kids, tracker, DOMAIN tracker \union DOMAIN points, stack, e[1])
  BY <1>8 DEF SeenInv, SeenOK
<1>11. PICK i \in DOMAIN stack : ~stack[i].waits /\ stack[i].node = e[1]
  BY <1>9, <1>10 DEF NodeSeen, BusyIn
<1>12. stack[i].at \in Nat
  <2>1. stack[i] \in Frame
    BY DEF TypeInv, TypeOK
  <2>. QED
    BY <2>1 DEF Frame
<1>13. ~(e[2] < stack[i].at)
  BY <1>6, <1>8, <1>11 DEF EdgeUsed
<1>14. stack[i].at <= Len(self.kids[stack[i].node])
  BY <1>6, <1>7, <1>11, <1>12, <1>13
<1>. QED
  BY <1>11, <1>14 DEF More

----------------------------------------------------------------------------
(***************************************************************************)
(* Why nobody waits in vain where join points come last.  A call that has  *)
(* children left to visit in sequence is above all the others but those of *)
(* what is below its last child, and none of these waits.                  *)
(***************************************************************************)
LEMMA BelowFacts ==
    ASSUME NEW w \in Walks, NEW n \in DOMAIN w.kids
    PROVE  /\ n \in Below(w, n)
           /\ \A m \in Below(w, n) : m \in DOMAIN w.kids /\ Range(w.kids[m]) \subseteq Below(w, n)
<1> DEFINE P == DOMAIN w.kids
           next == [m \in DOMAIN w.kids |-> Range(w.kids[m])]
           K == Len(w.kids)
<1>1. P = 1 .. K /\ K \in Nat
  BY KidsFacts
<1>2. IsFiniteSet(P) /\ Cardinality(P) <= K
  <2>. HIDE DEF P, K
  <2>1. IsFiniteSet(1 .. K) /\ Cardinality(1 .. K) = K
    <3>1. 1 \in Int /\ K \in Int /\ (1 > K => K = 0)
      BY <1>1
    <3>. QED
      BY <1>1, <3>1, FS_Interval
  <2>. QED
    BY <1>1, <2>1
<1>3. next \in [P -> SUBSET P]
  <2>. SUFFICES ASSUME NEW m \in P PROVE Range(w.kids[m]) \subseteq P
    OBVIOUS
  <2>. QED
    BY KidsFacts DEF Range
<1>4. PICK set \in SUBSET P : set = {n}
  OBVIOUS
<1>5. Below(w, n) = Reached(next, set)[K]
  BY <1>4 DEF Below
<1>. HIDE DEF P, next, K
<1>6. IsClosed(next, Below(w, n))
  BY <1>1, <1>2, <1>3, <1>5, ReachedClosed
<1>7. set \subseteq Below(w, n) /\ Below(w, n) \in SUBSET P
  <2>1. K \in Nat
    BY <1>1
  <2>2. set \subseteq Reached(next, set)[K] /\ Reached(next, set)[K] \in SUBSET P
    BY <1>3, <2>1, ReachedBounds
  <2>. QED
    BY <1>5, <2>2
<1>8. \A m \in P : next[m] = Range(w.kids[m])
  BY DEF P, next
<1>. QED
  BY <1>4, <1>6, <1>7, <1>8 DEF IsClosed, P

InSequence(w, f) == ~f.waits /\ f.node \notin w.splits /\ f.at <= Len(w.kids[f.node])
TailOK(w, s) ==
    \A i, j \in DOMAIN s :
        i < j /\ InSequence(w, s[i]) =>
            ~s[j].waits /\ s[j].node \in Below(w, w.kids[s[i].node][s[i].at - 1])
Tails == JoinsLast(self) /\ AllJoin(self)
TailInv == Tails => status # "unfinished" /\ TailOK(self, stack)

\* Those that go on in sequence, with what is called, and with a child of it.
LEMMA CalledTail ==
    ASSUME TypeInv, StackInv, Walking, Tails, TailOK(self, stack), NEW c \in Caller,
           NEW s, s = Called(c), NEW i \in DOMAIN stack, InSequence(self, s[i])
    PROVE  /\ \A j \in DOMAIN stack : i < j =>
                 ~s[j].waits /\ s[j].node \in Below(self, self.kids[s[i].node][s[i].at - 1])
           /\ Child(c) \notin DOMAIN points
           /\ Child(c) \in Below(self, self.kids[s[i].node][s[i].at - 1])
<1>1. /\ DOMAIN stack = 1 .. Len(stack) /\ Len(stack) \in Nat \ {0}
      /\ \A k \in DOMAIN stack :
            /\ stack[k].at \in Nat \ {0}
            /\ s[k].node = stack[k].node /\ s[k].waits = stack[k].waits
            /\ s[k].at = IF k = c THEN stack[k].at + 1 ELSE stack[k].at
            /\ k # c => s[k] = stack[k]
  BY CalledFrames
<1>2. /\ c \in DOMAIN stack
      /\ stack[c].at \in DOMAIN self.kids[stack[c].node]
      /\ \/ c = Len(stack)
         \/ c < Len(stack) /\ Top.waits /\ stack[c].node \in self.splits
  BY CallerCases
<1> DEFINE n == s[i].node
           k == s[i].at - 1
<1>3. self \in Walks /\ n \in Node /\ n \notin self.splits /\ s[i].at <= Len(self.kids[n])
  <2>1. stack[i] \in Frame
    BY DEF TypeInv, TypeOK
  <2>2. stack[i].node \in Node
    BY <2>1 DEF Frame
  <2>. QED
    BY <1>1, <2>2 DEF TypeInv, InSequence
<1>4. i # c => InSequence(self, stack[i])
  BY <1>1
<1>5. i = c \/ (i < c /\ c = Len(stack))
  <2>1. CASE i = c
    BY <2>1
  <2>2. CASE i # c
    <3>1. \A j \in DOMAIN stack : i < j => ~stack[j].waits
      BY <1>4, <2>2 DEF TailOK
    <3>2. i < Len(stack)
      <4>1. i = Len(stack) => ~Top.waits
        BY <1>4, <2>2 DEF Top, InSequence
      <4>. QED
        BY <1>1, <1>2, <2>2, <4>1
    <3>3. ~Top.waits
      BY <1>1, <3>1, <3>2 DEF Top
    <3>4. c = Len(stack)
      BY <1>2, <3>3
    <3>. QED
      BY <3>2, <3>4
  <2>. QED
    BY <2>1, <2>2
<1>6. k \in 1 .. Len(self.kids[n]) - 1 /\ k \in DOMAIN self.kids[n]
  <2>1. DOMAIN self.kids[n] = 1 .. Len(self.kids[n]) /\ Len(self.kids[n]) \in Nat
    BY <1>3, KidsFacts DEF Node
  <2>2. s[i].at \in Nat /\ s[i].at > 1
    <3>1. i # c => i < Len(stack) /\ ~stack[i].waits
      BY <1>1, <1>4, <1>5 DEF InSequence
    <3>2. i # c => stack[i].at > 1
      BY <3>1 DEF StackInv, StackOK
    <3>. QED
      BY <1>1, <3>2
  <2>. HIDE DEF n
  <2>. QED
    BY <1>3, <2>1, <2>2
<1>7. /\ Below(self, self.kids[n][k]) \intersect DOMAIN points = {}
      /\ self.kids[n][k] \in DOMAIN self.kids
  <2>1. DOMAIN JoinPoints(self) = DOMAIN points
    BY DEF TypeInv, JoinPoints
  <2>2. self.kids[n][k] \in DOMAIN self.kids
    BY <1>3, <1>6, KidsFacts DEF Node
  <2>. HIDE DEF n, k
  <2>. QED
    BY <1>3, <1>6, <2>1, <2>2 DEF Tails, JoinsLast, Node
<1>8. Child(c) \in Below(self, self.kids[n][k])
  <2>1. CASE i = c
    <3>1. self.kids[n][k] = Child(c)
      BY <1>1, <2>1 DEF Child
    <3>. QED
      BY <1>3, <1>7, <3>1, BelowFacts
  <2>2. CASE i # c
    <3>1. stack[c].node \in Below(self, self.kids[n][k])
      BY <1>1, <1>2, <1>4, <1>5, <2>2 DEF TailOK
    <3>2. Child(c) \in Range(self.kids[stack[c].node])
      BY <1>2 DEF Child, Range
    <3>. QED
      BY <1>3, <1>7, <3>1, <3>2, BelowFacts
  <2>. QED
    BY <2>1, <2>2
<1>9. ASSUME NEW j \in DOMAIN stack, i < j
      PROVE  ~s[j].waits /\ s[j].node \in Below(self, self.kids[n][k])
  <2>1. i # c
    BY <1>1, <1>2, <1>3, <1>9
  <2>. QED
    BY <1>1, <1>4, <1>9, <2>1 DEF TailOK
<1>. QED
  BY <1>7, <1>8, <1>9

LEMMA PushTail ==
    ASSUME TypeInv, StackInv, Walking, Tails, TailOK(self, stack), NEW c \in Caller,
           NEW f, f.node = Child(c), f.waits => Child(c) \in DOMAIN points
    PROVE  TailOK(self, Called(c)) /\ TailOK(self, Append(Called(c), f))
<1>1. PICK s : s = Called(c)
  OBVIOUS
<1>2. PICK t : t = Append(s, f)
  OBVIOUS
<1>3. /\ DOMAIN s = DOMAIN stack /\ s \in Seq(Frame) /\ Len(s) = Len(stack)
      /\ DOMAIN stack = 1 .. Len(stack) /\ Len(stack) \in Nat
  BY <1>1, CalledFrames
<1>4. /\ DOMAIN t = 1 .. Len(stack) + 1 /\ t[Len(stack) + 1] = f
      /\ \A i \in DOMAIN stack : t[i] = s[i]
  BY <1>2, <1>3, AppendFacts
<1>5. ASSUME NEW i \in DOMAIN stack, InSequence(self, s[i])
      PROVE  /\ \A j \in DOMAIN stack : i < j =>
                   ~s[j].waits /\ s[j].node \in Below(self, self.kids[s[i].node][s[i].at - 1])
             /\ ~f.waits
             /\ f.node \in Below(self, self.kids[s[i].node][s[i].at - 1])
  BY <1>1, <1>5, CalledTail
<1>6. TailOK(self, s)
  BY <1>3, <1>5 DEF TailOK
<1>7. ASSUME NEW i \in DOMAIN t, NEW j \in DOMAIN t, i < j, InSequence(self, t[i])
      PROVE  ~t[j].waits /\ t[j].node \in Below(self, self.kids[t[i].node][t[i].at - 1])
  <2>1. i \in DOMAIN stack /\ t[i] = s[i]
    BY <1>3, <1>4, <1>7
  <2>2. j \in DOMAIN stack \/ t[j] = f
    BY <1>3, <1>4
  <2>. QED
    BY <1>4, <1>5, <1>7, <2>1, <2>2
<1>8. TailOK(self, t)
  BY <1>7 DEF TailOK
<1>. QED
  BY <1>1, <1>2, <1>6, <1>8

\* Who returns from join_flows finds the node visited.
LEMMA ResumeDone ==
    ASSUME TypeInv, SeenInv, Resume
    PROVE  Top.node \in DOMAIN points /\ Top.node \in DOMAIN tracker /\ points[Top.node].done
<1>1. Walking /\ Top.waits /\ ~Waiting
  BY DEF Resume
<1>2. /\ Top \in Frame /\ Top.node \in DOMAIN points
      /\ Len(stack) \in Nat \ {0} /\ DOMAIN stack = 1 .. Len(stack)
  BY <1>1, PopFacts DEF FrameOK
<1>3. points[Top.node].count < 0
  <2>1. points[Top.node] \in [vclone : Flow, count : Int, done : BOOLEAN]
    BY <1>2 DEF TypeInv, TypeOK
  <2>. QED
    BY <1>1, <2>1 DEF Waiting
<1>4. Top.node \in DOMAIN tracker /\ PointSeen(tracker, points, Top.node)
  BY <1>2, <1>3 DEF SeenInv, SeenOK, PointSeen
<1>5. ~BusyIn(stack, Top.node)
  <2>1. ASSUME NEW j \in DOMAIN stack, ~stack[j].waits, stack[j].node = Top.node PROVE FALSE
    <3>1. Len(stack) \in DOMAIN stack /\ stack[Len(stack)] = Top
      BY <1>2 DEF Top
    <3>2. Len(stack) < j
      BY <1>1, <2>1, <3>1 DEF SeenInv, SeenOK, WaitsBelow
    <3>. QED
      BY <1>2, <2>1, <3>2
  <2>. QED
    BY <2>1 DEF BusyIn
<1>6. tracker[Top.node] = "done"
  <2>1. NodeSeen(self.kids, tracker, DOMAIN tracker \union DOMAIN points, stack, Top.node)
    BY <1>4 DEF SeenInv, SeenOK
  <2>. QED
    BY <1>5, <2>1 DEF NodeSeen
<1>7. points[Top.node].done
  BY <1>4, <1>6 DEF PointSeen
<1>. QED
  BY <1>2, <1>4, <1>7

LEMMA TailStep == TypeInv /\ StackInv /\ SeenInv /\ AllJoinInv /\ TailInv /\ [Next]_vars => TailInv'
<1>. SUFFICES ASSUME TypeInv, StackInv, SeenInv, AllJoinInv, TailInv, [Next]_vars PROVE TailInv'
  OBVIOUS
<1>1. self' = self
  BY DEF Next, VisitChild, WaitAt, Begin, Revisit, LoopFound, Finish, Resume, GiveUp, vars
<1>2. SUFFICES ASSUME Tails PROVE status' # "unfinished" /\ TailOK(self, stack')
  <2>1. Tails' <=> Tails
    BY <1>1 DEF Tails
  <2>. QED
    BY <1>1, <1>2, <2>1 DEF TailInv
<1>3. status # "unfinished" /\ TailOK(self, stack) /\ JoinInv
  BY <1>2 DEF TailInv, AllJoinInv, Tails
<1>4. stack' = stack => TailOK(self, stack')
  BY <1>3
<1>5. CASE VisitChild
  <2>1. Walking
    BY <1>5 DEF VisitChild
  <2>2. PICK c \in Caller : WaitAt(c) \/ Begin(c) \/ Revisit(c) \/ LoopFound(c)
    BY <1>5 DEF VisitChild
  <2>3. Child(c) \notin DOMAIN tracker
    BY <1>3, <2>1, CallEdge
  <2>4. CASE WaitAt(c)
    <3> DEFINE f == Call(Child(c), Visitor(c), TRUE, << >>)
    <3>1. /\ stack' = (IF self.broken THEN Called(c) ELSE Append(Called(c), f))
          /\ status' = status /\ Child(c) \in DOMAIN points
      BY <2>4 DEF WaitAt, Pends, IsJoin
    <3>2. f.node = Child(c)
      BY DEF Call
    <3>. HIDE DEF f
    <3>3. TailOK(self, Called(c)) /\ TailOK(self, Append(Called(c), f))
      BY <1>2, <1>3, <2>1, <3>1, <3>2, PushTail
    <3>. QED
      BY <1>3, <3>1, <3>3
  <2>5. CASE Begin(c)
    <3> DEFINE f == Call(Child(c), Visitor(c), FALSE, Visitors(Child(c), Visitor(c), Len(flows)))
    <3>1. stack' = Append(Called(c), f) /\ status' = status
      BY <2>5 DEF Begin
    <3>2. f.node = Child(c) /\ ~f.waits
      BY DEF Call
    <3>. HIDE DEF f
    <3>3. TailOK(self, Append(Called(c), f))
      BY <1>2, <1>3, <2>1, <3>2, PushTail
    <3>. QED
      BY <1>3, <3>1, <3>3
  <2>. QED
    BY <2>2, <2>3, <2>4, <2>5 DEF Revisit, LoopFound, Fresh
<1>6. ASSUME Walking, stack' = Pop PROVE TailOK(self, stack')
  <2>1. /\ DOMAIN stack = 1 .. Len(stack) /\ Len(stack) \in Nat \ {0}
        /\ DOMAIN stack' = 1 .. Len(stack) - 1 /\ \A i \in DOMAIN stack' : stack'[i] = stack[i]
    BY <1>6, PopFacts
  <2>. QED
    BY <1>3, <2>1 DEF TailOK
<1>7. CASE Finish
  <2>1. Walking /\ stack' = Pop /\ status' \in {status, "twice", "done"}
    BY <1>7 DEF Finish
  <2>. QED
    BY <1>3, <1>6, <2>1
<1>8. CASE Resume
  <2>1. /\ Walking /\ Top.waits /\ ~Waiting /\ stack' = Pop
        /\ status' = IF points[Top.node].done THEN status ELSE "unfinished"
    BY <1>8 DEF Resume, AfterWait
  <2>2. points[Top.node].done
    BY <1>8, ResumeDone
  <2>. QED
    BY <1>3, <1>6, <2>1, <2>2
<1>9. CASE GiveUp
  <2>1. /\ Walking /\ Waiting /\ Ready = {}
    BY <1>9 DEF GiveUp
  <2>2. /\ Top \in Frame /\ Top.waits /\ Top.node \in DOMAIN points /\ Top.node \in Node
        /\ Len(stack) \in Nat \ {0} /\ DOMAIN stack = 1 .. Len(stack)
    BY <2>1, PopFacts DEF FrameOK, Waiting, Frame
  <2>3. Top.node \notin DOMAIN tracker
    <3>1. points[Top.node] \in [vclone : Flow, count : Int, done : BOOLEAN]
      BY <2>2 DEF TypeInv, TypeOK
    <3>2. PointSeen(tracker, points, Top.node)
      BY <2>2 DEF SeenInv, SeenOK
    <3>. QED
      BY <2>1, <3>1, <3>2 DEF Waiting, PointSeen
  <2>4. PICK i \in DOMAIN stack : More(stack[i])
    BY <1>2, <1>3, <2>2, <2>3, Unreached DEF Tails
  <2>5. i < Len(stack)
    <3>1. i # Len(stack)
      BY <2>2, <2>4 DEF More, Top
    <3>. QED
      BY <2>2, <3>1
  <2>6. CASE stack[i].node \in self.splits
    <3> DEFINE ready == { k \in DOMAIN stack : More(stack[k]) /\ stack[k].node \in self.splits }
    <3>1. i \in ready /\ ready \in SUBSET (1 .. Len(stack))
      BY <2>2, <2>4, <2>6
    <3>2. Ready = { k \in ready : k = Max(ready) }
      BY DEF Ready
    <3>. HIDE DEF ready
    <3>3. Max(ready) \in ready
      BY <2>2, <3>1, MaxOf
    <3>. QED
      BY <2>1, <3>2, <3>3
  <2>7. CASE stack[i].node \notin self.splits
    <3>1. InSequence(self, stack[i])
      BY <2>4, <2>7 DEF More, InSequence
    <3>2. ~stack[Len(stack)].waits
      <4>1. Len(stack) \in DOMAIN stack
        BY <2>2
      <4>. QED
        BY <1>3, <2>5, <3>1, <4>1 DEF TailOK
    <3>. QED
      BY <2>2, <3>2 DEF Top
  <2>. QED
    BY <2>6, <2>7
<1>10. CASE UNCHANGED vars
  BY <1>3, <1>10 DEF vars
<1>. QED
  BY <1>5, <1>7, <1>8, <1>9, <1>10 DEF Next

(***************************************************************************)
(* Where join points come last and all shared nodes are join points, the   *)
(* BUG_CHECK "SplitFlow::do_visit failed to finish node" cannot fire: for  *)
(* every IR without loops, with and without the old behaviour.             *)
(***************************************************************************)
THEOREM TailsTheorem == Spec => []TailsFinish
<1>1. Init => TailInv
  <2>. SUFFICES ASSUME Init PROVE TailInv
    OBVIOUS
  <2>1. status = "run" /\ DOMAIN stack = {1}
    BY DEF Init
  <2>. QED
    BY <2>1 DEF TailInv, TailOK
<1>2. Init => AllJoinInv
  BY JoinInit DEF AllJoinInv
<1>3. TailInv => TailsFinish
  BY DEF TailInv, Tails, TailsFinish
<1>. QED
  BY <1>1, <1>2, <1>3, TypeInit, TypeStep, JoinStep, StackInit, StackStep, SeenInit, SeenStep,
     TailStep, PTL DEF Spec

----------------------------------------------------------------------------
(***************************************************************************)
(* What is gathered.  The nodes executed before a point of the control     *)
(* flow are those of the points that lead to it; those before a node's     *)
(* entry come along its edges.                                             *)
(***************************************************************************)
Executed(w, p) == { m \in DOMAIN w.kids : In(m) \in Up(w, p) }
Before(w, n) == { m \in DOMAIN w.kids : In(m) \in Back(w, n) }

\* A set that holds a point and what leads to it, closed: what is above that point.
LEMMA UpSplit ==
    ASSUME NEW w \in Walks, NEW p \in Points(w)
    PROVE  /\ \A q \in FlowsTo(w)[p] : q \in Points(w) /\ Up(w, q) \subseteq Up(w, p)
           /\ \A x \in Up(w, p) : x = p \/ \E q \in FlowsTo(w)[p] : x \in Up(w, q)
<1>1. \A q \in FlowsTo(w)[p] : q \in Points(w)
  BY FlowsFacts
<1>2. /\ p \in Up(w, p)
      /\ \A q \in Up(w, p) : FlowsTo(w)[q] \subseteq Up(w, p) /\ Up(w, q) \subseteq Up(w, p)
      /\ \A T : p \in T /\ (\A q \in T : FlowsTo(w)[q] \subseteq T) => Up(w, p) \subseteq T
  BY UpFacts
<1>3. \A q \in FlowsTo(w)[p] : Up(w, q) \subseteq Up(w, p)
  BY <1>2
<1> DEFINE T == {p} \union UNION { Up(w, q) : q \in FlowsTo(w)[p] }
<1>4. p \in T
  OBVIOUS
<1>5. ASSUME NEW x \in T PROVE FlowsTo(w)[x] \subseteq T
  <2>1. CASE x = p
    <3>. SUFFICES ASSUME NEW q \in FlowsTo(w)[p] PROVE q \in T
      BY <2>1
    <3>1. q \in Up(w, q)
      BY <1>1, UpFacts
    <3>. QED
      BY <3>1
  <2>2. ASSUME NEW q \in FlowsTo(w)[p], x \in Up(w, q) PROVE FlowsTo(w)[x] \subseteq T
    <3>1. FlowsTo(w)[x] \subseteq Up(w, q)
      BY <1>1, <2>2, UpFacts
    <3>. QED
      BY <3>1
  <2>. QED
    BY <1>5, <2>1, <2>2
<1>6. Up(w, p) \subseteq T
  <2>. HIDE DEF T
  <2>. QED
    BY <1>2, <1>4, <1>5
<1>. QED
  BY <1>1, <1>3, <1>6

LEMMA BeforeFacts ==
    ASSUME NEW w \in Walks, NEW n \in DOMAIN w.kids
    PROVE  /\ \A e \in Parents(w.kids, n) : Executed(w, From(w, e)) \subseteq Before(w, n)
           /\ \A F : (\A e \in Parents(w.kids, n) : Executed(w, From(w, e)) \subseteq F)
                     => Before(w, n) \subseteq F
           /\ Before(w, n) \subseteq Executed(w, In(n))
           /\ n \in Executed(w, In(n))
           /\ \A m \in Executed(w, In(n)) : m = n \/ m \in Before(w, n)
<1>1. /\ \A e \in Parents(w.kids, n) : Up(w, From(w, e)) \subseteq Back(w, n)
      /\ Back(w, n) \subseteq Up(w, In(n))
      /\ \A T : /\ \A e \in Parents(w.kids, n) : From(w, e) \in T
                /\ \A q \in T : FlowsTo(w)[q] \subseteq T
                => Back(w, n) \subseteq T
  BY BackFacts
<1>2. /\ In(n) \in Points(w) /\ FlowsTo(w)[In(n)] = { From(w, e) : e \in Parents(w.kids, n) }
      /\ \A e \in Parents(w.kids, n) : From(w, e) \in Points(w)
  BY PointsFacts, FlowsFacts DEF Parents
<1>3. \A e \in Parents(w.kids, n) : Executed(w, From(w, e)) \subseteq Before(w, n)
  BY <1>1 DEF Executed, Before
<1>4. Before(w, n) \subseteq Executed(w, In(n))
  BY <1>1 DEF Executed, Before
<1>5. n \in Executed(w, In(n))
  BY <1>2, UpFacts DEF Executed
<1>6. ASSUME NEW m \in Executed(w, In(n)), m # n PROVE m \in Before(w, n)
  <2>1. m \in DOMAIN w.kids /\ In(m) \in Up(w, In(n)) /\ In(m) # In(n)
    BY <1>6 DEF Executed, In
  <2>2. PICK e \in Parents(w.kids, n) : In(m) \in Up(w, From(w, e))
    BY <1>2, <2>1, UpSplit
  <2>. QED
    BY <1>1, <2>1, <2>2 DEF Before
<1>7. ASSUME NEW F, \A e \in Parents(w.kids, n) : Executed(w, From(w, e)) \subseteq F
      PROVE  Before(w, n) \subseteq F
  <2> DEFINE T == UNION { Up(w, From(w, e)) : e \in Parents(w.kids, n) }
  <2>1. \A e \in Parents(w.kids, n) : From(w, e) \in T
    BY <1>2, UpFacts
  <2>2. \A q \in T : FlowsTo(w)[q] \subseteq T
    <3>. SUFFICES ASSUME NEW e \in Parents(w.kids, n), NEW q \in Up(w, From(w, e))
                  PROVE  FlowsTo(w)[q] \subseteq T
      OBVIOUS
    <3>1. FlowsTo(w)[q] \subseteq Up(w, From(w, e))
      BY <1>2, UpFacts
    <3>. QED
      BY <3>1
  <2>3. Back(w, n) \subseteq T
    <3>. HIDE DEF T
    <3>. QED
      BY <1>1, <2>1, <2>2
  <2>. SUFFICES ASSUME NEW m \in Before(w, n) PROVE m \in F
    OBVIOUS
  <2>4. m \in DOMAIN w.kids /\ In(m) \in T
    BY <2>3 DEF Before
  <2>5. PICK e \in Parents(w.kids, n) : In(m) \in Up(w, From(w, e))
    BY <2>4
  <2>6. m \in Executed(w, From(w, e))
    BY <2>4, <2>5 DEF Executed
  <2>. QED
    BY <1>7, <2>6
<1>. QED
  BY <1>3, <1>4, <1>5, <1>6, <1>7

LEMMA LeftFlow ==
    ASSUME NEW w \in Walks, NEW n \in DOMAIN w.kids
    PROVE  /\ \A q \in FlowsOutOf(w, n) : Executed(w, q) \subseteq Executed(w, Out(n))
           /\ \A m \in Executed(w, Out(n)) : \E q \in FlowsOutOf(w, n) : m \in Executed(w, q)
           /\ Executed(w, In(n)) \subseteq Executed(w, Out(n))
<1>1. Out(n) \in Points(w) /\ FlowsTo(w)[Out(n)] = FlowsOutOf(w, n)
  BY PointsFacts, FlowsFacts
<1>2. \A m \in DOMAIN w.kids : In(m) # Out(n)
  BY PointsFacts DEF In, Out
<1>3. /\ \A q \in FlowsOutOf(w, n) : Up(w, q) \subseteq Up(w, Out(n))
      /\ \A x \in Up(w, Out(n)) : x = Out(n) \/ \E q \in FlowsOutOf(w, n) : x \in Up(w, q)
  BY <1>1, UpSplit
<1>4. Up(w, In(n)) \subseteq Up(w, Out(n))
  BY EnteredIsLeft
<1>. QED
  BY <1>2, <1>3, <1>4 DEF Executed

(***************************************************************************)
(* What the visitors have gathered: not more than what was before, where   *)
(* a node is visited once or all shared nodes are join points; and not     *)
(* less, where all are and the visitor waits at them.  A call begins with  *)
(* what was before its node, hands that to the alternatives it has not     *)
(* visited, and has what a child leaves behind once that is not called     *)
(* any more.                                                               *)
(***************************************************************************)
Once(w) == AllJoin(w) \/ w.visitDagOnce
Full(w) == AllJoin(w) /\ ~w.broken
Has(w, F, E) == (Once(w) => F \subseteq E) /\ (Full(w) => E \subseteq F)

Above(w, s, i, k) == \E h \in DOMAIN s : h > i /\ IsCall(w, s[i], k, s[h])
CallHas(w, fl, s, i) ==
    ~s[i].waits =>
        /\ s[i].at = 1 => Has(w, fl[s[i].vis], Executed(w, In(s[i].node)))
        /\ \A k \in DOMAIN s[i].vs :
              /\ s[i].node \in w.splits /\ k >= s[i].at =>
                    Has(w, fl[s[i].vs[k]], Executed(w, In(s[i].node)))
              /\ k \in Entered(w, s[i]) =>
                    \/ Has(w, fl[s[i].vs[k]], Executed(w, Out(w.kids[s[i].node][k])))
                    \/ Above(w, s, i, k)
PointHas(w, t, p, used, n) ==
    IF n \in DOMAIN t THEN p.done => Has(w, p.vclone, Executed(w, Out(n)))
    ELSE /\ Once(w) => p.vclone \subseteq Before(w, n)
         /\ Full(w) => \A e \in used : Executed(w, From(w, e)) \subseteq p.vclone
MetHas(w, t, m, n) ==
    /\ Once(w) => m \subseteq Before(w, n)
    /\ Full(w) /\ n \in DOMAIN t => Before(w, n) \subseteq m

FlowInv ==
    /\ \A i \in DOMAIN stack : CallHas(self, flows, stack, i)
    /\ \A n \in DOMAIN points : PointHas(self, tracker, points[n], UsedTo(n), n)
    /\ met \in [Node -> Flow]
    /\ \A n \in Node : MetHas(self, tracker, met[n], n)

\* What a child is called with: what was before the edge to it.
LEMMA CallFlow ==
    ASSUME TypeInv, StackInv, FlowInv, Walking, NEW c \in Caller,
           NEW e, e = <<stack[c].node, stack[c].at>>
    PROVE  Has(self, flows[Visitor(c)], Executed(self, From(self, e)))
<1> DEFINE n == stack[c].node
           k == stack[c].at
           v == Visitor(c)
<1>1. /\ c \in DOMAIN stack /\ ~stack[c].waits /\ k \in DOMAIN stack[c].vs
      /\ DOMAIN stack[c].vs = 1 .. Len(self.kids[n]) /\ Len(self.kids[n]) \in Nat
      /\ c = Len(stack) \/ n \in self.splits
      /\ v = stack[c].vs[k] /\ e[1] = n /\ e[2] = k
  BY CallerCases DEF Visitor
<1>2. CallHas(self, flows, stack, c) /\ VisitorsOK(self, stack[c])
  BY <1>1 DEF FlowInv, StackInv, StackOK
<1>3. k \in Nat \ {0} /\ DOMAIN stack = 1 .. Len(stack) /\ Len(stack) \in Nat
  BY <1>1, CalledFrames
<1>4. CASE n \in self.splits
  <2>1. From(self, e) = In(n)
    BY <1>1, <1>4 DEF From
  <2>2. k >= stack[c].at
    BY <1>3
  <2>. QED
    BY <1>1, <1>2, <1>4, <2>1, <2>2 DEF CallHas
<1>5. CASE n \notin self.splits
  <2>1. \A l \in DOMAIN stack[c].vs : stack[c].vs[l] = stack[c].vis
    BY <1>2, <1>5 DEF VisitorsOK
  <2>2. CASE k = 1
    <3>1. From(self, e) = In(n)
      BY <1>1, <2>2 DEF From
    <3>2. v = stack[c].vis
      BY <1>1, <2>1
    <3>. QED
      BY <1>1, <1>2, <2>2, <3>1, <3>2 DEF CallHas
  <2>3. CASE k # 1
    <3>1. k - 1 \in DOMAIN stack[c].vs /\ k - 1 \in Entered(self, stack[c])
      BY <1>1, <1>3, <1>5, <2>3 DEF Entered
    <3>2. From(self, e) = Out(self.kids[n][k - 1])
      BY <1>1, <1>5, <2>3 DEF From
    <3>3. ~Above(self, stack, c, k - 1)
      BY <1>1, <1>3, <1>5 DEF Above
    <3>4. v = stack[c].vs[k - 1]
      BY <1>1, <2>1, <3>1
    <3>. QED
      BY <1>1, <1>2, <3>1, <3>2, <3>3, <3>4 DEF CallHas
  <2>. QED
    BY <2>2, <2>3
<1>. QED
  BY <1>4, <1>5

\* Who has handed on a visitor has its call above.
LEMMA SlotOfVisitor ==
    ASSUME TypeInv, StackInv, NEW i \in DOMAIN stack, NEW j \in DOMAIN stack, i < j,
           HandedOn(self, stack, i, j), NEW k \in DOMAIN stack[i].vs,
           stack[i].vs[k] = stack[j].vis,
           \/ stack[i].node \in self.splits
           \/ k \in Entered(self, stack[i])
    PROVE  /\ k \in Entered(self, stack[i])
           /\ \E h \in i + 1 .. j : IsCall(self, stack[i], k, stack[h])
<1>1. PICK l \in Entered(self, stack[i]), h \in i + 1 .. j :
          stack[i].vs[l] = stack[j].vis /\ IsCall(self, stack[i], l, stack[h])
  BY DEF HandedOn
<1>2. l \in DOMAIN stack[i].vs /\ VisitorsOK(self, stack[i])
  BY <1>1 DEF Entered, StackInv, StackOK
<1>3. l = k
  <2>1. CASE stack[i].node \in self.splits
    BY <1>1, <1>2, <2>1 DEF VisitorsOK
  <2>2. CASE stack[i].node \notin self.splits
    BY <1>1, <2>2 DEF Entered
  <2>. QED
    BY <2>1, <2>2
<1>. QED
  BY <1>1, <1>3

\* The calls below, when the visitor of the child that is called gathers more.
LEMMA CalledFlows ==
    ASSUME TypeInv, StackInv, FlowInv, Walking, NEW c \in Caller, NEW s, s = Called(c),
           NEW t, DOMAIN stack \subseteq DOMAIN t, \A i \in DOMAIN stack : t[i] = s[i],
           NEW fl, \A u \in DOMAIN flows : u # Visitor(c) => fl[u] = flows[u],
           \/ Has(self, fl[Visitor(c)], Executed(self, Out(Child(c))))
           \/ Above(self, t, c, stack[c].at)
    PROVE  \A i \in DOMAIN stack : CallHas(self, fl, t, i)
<1> DEFINE v == Visitor(c)
           a == stack[c].at
<1>1. /\ DOMAIN stack = 1 .. Len(stack) /\ Len(stack) \in Nat \ {0}
      /\ \A i \in DOMAIN stack :
            /\ stack[i] \in Frame /\ stack[i].at \in Nat \ {0}
            /\ t[i].node = stack[i].node /\ t[i].vis = stack[i].vis
            /\ t[i].waits = stack[i].waits /\ t[i].vs = stack[i].vs
            /\ t[i].at = IF i = c THEN stack[i].at + 1 ELSE stack[i].at
            /\ i # c => t[i] = stack[i]
  BY CalledFrames
<1>2. /\ c \in DOMAIN stack /\ ~stack[c].waits /\ a \in DOMAIN stack[c].vs
      /\ DOMAIN stack[c].vs = 1 .. Len(self.kids[stack[c].node])
      /\ Len(self.kids[stack[c].node]) \in Nat
      /\ c = Len(stack) \/ Top.waits
      /\ v = stack[c].vs[a] /\ Child(c) = self.kids[stack[c].node][a]
  BY CallerCases DEF Visitor, Child
<1>. HIDE DEF v
<1>3. \A i \in DOMAIN stack : \A k \in DOMAIN stack[i].vs :
          stack[i].vs[k] \in DOMAIN flows /\ (stack[i].vs[k] # v => fl[stack[i].vs[k]] = flows[stack[i].vs[k]])
  <2>. SUFFICES ASSUME NEW i \in DOMAIN stack, NEW k \in DOMAIN stack[i].vs
                PROVE  stack[i].vs[k] \in DOMAIN flows
    BY DEF v
  <2>1. stack[i].vs \in Seq(DOMAIN flows)
    BY <1>1 DEF Frame
  <2>. QED
    BY <2>1
<1>4. \A i \in DOMAIN stack : CallHas(self, flows, stack, i) /\ VisitorsOK(self, stack[i])
  BY DEF FlowInv, StackInv, StackOK
<1>5. CallHas(self, fl, t, c)
  <2>1. t[c].at # 1 /\ t[c].at = a + 1 /\ a \in Nat \ {0}
    BY <1>1, <1>2
  <2>2. ASSUME NEW k \in DOMAIN stack[c].vs, stack[c].node \in self.splits, k # a
        PROVE  fl[stack[c].vs[k]] = flows[stack[c].vs[k]]
    <3>1. stack[c].vs[k] # v
      BY <1>2, <1>4, <2>2 DEF VisitorsOK
    <3>. QED
      BY <1>2, <1>3, <3>1
  <2>3. ASSUME NEW k \in DOMAIN stack[c].vs, stack[c].node \in self.splits, k >= t[c].at
        PROVE  Has(self, fl[stack[c].vs[k]], Executed(self, In(stack[c].node)))
    <3>1. k # a /\ k >= stack[c].at
      BY <1>2, <2>1, <2>3
    <3>2. Has(self, flows[stack[c].vs[k]], Executed(self, In(stack[c].node)))
      BY <1>2, <1>4, <2>3, <3>1 DEF CallHas
    <3>. QED
      BY <2>2, <2>3, <3>1, <3>2
  <2>4. ASSUME NEW k \in DOMAIN stack[c].vs, k \in Entered(self, t[c])
        PROVE  \/ Has(self, fl[stack[c].vs[k]], Executed(self, Out(self.kids[stack[c].node][k])))
               \/ Above(self, t, c, k)
    <3>1. CASE k = a
      BY <1>2, <3>1 DEF v
    <3>2. CASE k # a
      <4>1. stack[c].node \in self.splits /\ k < a
        BY <1>1, <1>2, <2>1, <2>4, <3>2 DEF Entered
      <4>2. k \in Entered(self, stack[c])
        BY <2>4, <4>1 DEF Entered
      <4>3. \/ Has(self, flows[stack[c].vs[k]], Executed(self, Out(self.kids[stack[c].node][k])))
            \/ Above(self, stack, c, k)
        BY <1>2, <1>4, <4>2 DEF CallHas
      <4>4. Above(self, stack, c, k) => Above(self, t, c, k)
        <5>. SUFFICES ASSUME NEW h \in DOMAIN stack, h > c, IsCall(self, stack[c], k, stack[h])
                      PROVE  Above(self, t, c, k)
          BY DEF Above
        <5>1. IsCall(self, t[c], k, t[h])
          BY <1>1, <1>2 DEF IsCall
        <5>. QED
          BY <5>1 DEF Above
      <4>. QED
        BY <2>2, <3>2, <4>1, <4>3, <4>4
    <3>. QED
      BY <3>1, <3>2
  <2>. QED
    BY <1>1, <1>2, <2>1, <2>3, <2>4 DEF CallHas
<1>6. ASSUME NEW i \in DOMAIN stack, i # c, ~stack[i].waits PROVE CallHas(self, fl, t, i)
  <2>1. t[i] = stack[i] /\ CallHas(self, flows, stack, i)
    BY <1>1, <1>4, <1>6
  <2>2. t[i].at # 1
    <3>1. i < Len(stack)
      BY <1>1, <1>2, <1>6 DEF Top
    <3>2. stack[i].at > 1
      BY <1>6, <3>1 DEF StackInv, StackOK
    <3>. QED
      BY <2>1, <3>2
  <2>3. \A k : Above(self, stack, i, k) => Above(self, t, i, k)
    BY <1>1, <2>1 DEF Above, IsCall
  <2>4. ASSUME NEW k \in DOMAIN stack[i].vs, stack[i].vs[k] = v,
               stack[i].node \in self.splits \/ k \in Entered(self, stack[i])
        PROVE  /\ k \in Entered(self, stack[i])
               /\ Above(self, t, i, k)
    <3>1. Shares(stack[i], Visitor(c))
      BY <2>4 DEF Shares, v
    <3>2. i < c /\ Visitor(c) = stack[c].vis /\ HandedOn(self, stack, i, c)
      BY <1>6, <3>1, VisitorOfCall
    <3>3. /\ k \in Entered(self, stack[i])
          /\ \E h \in i + 1 .. c : IsCall(self, stack[i], k, stack[h])
      BY <1>2, <2>4, <3>2, SlotOfVisitor DEF v
    <3>4. PICK h \in i + 1 .. c : IsCall(self, stack[i], k, stack[h])
      BY <3>3
    <3>5. h \in DOMAIN stack /\ h > i
      BY <1>1, <1>2, <3>4
    <3>6. Above(self, stack, i, k)
      BY <3>4, <3>5 DEF Above
    <3>. QED
      BY <2>3, <3>3, <3>6
  <2>5. ASSUME NEW k \in DOMAIN stack[i].vs, stack[i].node \in self.splits, k >= stack[i].at
        PROVE  Has(self, fl[stack[i].vs[k]], Executed(self, In(stack[i].node)))
    <3>1. k \notin Entered(self, stack[i])
      <4>1. stack[i].vs \in Seq(DOMAIN flows)
        BY <1>1 DEF Frame
      <4>2. k \in Nat /\ stack[i].at \in Nat
        BY <1>1, <4>1
      <4>3. ~(k < stack[i].at)
        BY <2>5, <4>2
      <4>. QED
        BY <2>5, <4>3 DEF Entered
    <3>2. stack[i].vs[k] # v
      BY <2>4, <2>5, <3>1
    <3>3. Has(self, flows[stack[i].vs[k]], Executed(self, In(stack[i].node)))
      BY <1>6, <2>1, <2>5 DEF CallHas
    <3>. QED
      BY <1>3, <3>2, <3>3
  <2>6. ASSUME NEW k \in DOMAIN stack[i].vs, k \in Entered(self, stack[i])
        PROVE  \/ Has(self, fl[stack[i].vs[k]], Executed(self, Out(self.kids[stack[i].node][k])))
               \/ Above(self, t, i, k)
    <3>1. \/ Has(self, flows[stack[i].vs[k]], Executed(self, Out(self.kids[stack[i].node][k])))
          \/ Above(self, stack, i, k)
      BY <1>6, <2>1, <2>6 DEF CallHas
    <3>2. CASE stack[i].vs[k] = v
      BY <2>4, <2>6, <3>2
    <3>3. CASE stack[i].vs[k] # v
      BY <1>3, <2>3, <3>1, <3>3
    <3>. QED
      BY <3>2, <3>3
  <2>. QED
    BY <2>1, <2>2, <2>5, <2>6 DEF CallHas
<1>7. ASSUME NEW i \in DOMAIN stack PROVE CallHas(self, fl, t, i)
  <2>1. CASE i = c
    BY <1>5, <2>1
  <2>2. CASE i # c /\ ~stack[i].waits
    BY <1>6, <2>2
  <2>3. CASE i # c /\ stack[i].waits
    BY <1>1, <2>3 DEF CallHas
  <2>. QED
    BY <2>1, <2>2, <2>3
<1>. QED
  BY <1>7

\* The calls below, when a call returns.
LEMMA PopFlows ==
    ASSUME TypeInv, StackInv, FlowInv, Walking, NEW t, t = Pop,
           NEW fl, \A u \in DOMAIN flows : u # Top.vis => fl[u] = flows[u],
           Has(self, fl[Top.vis], Executed(self, Out(Top.node)))
    PROVE  \A i \in DOMAIN t : CallHas(self, fl, t, i)
<1> DEFINE N == Len(stack)
<1>1. /\ N \in Nat \ {0} /\ DOMAIN stack = 1 .. N
      /\ DOMAIN t = 1 .. N - 1 /\ \A i \in DOMAIN t : t[i] = stack[i]
  BY PopFacts
<1>2. N \in DOMAIN stack /\ stack[N] = Top
  BY <1>1 DEF Top
<1>. HIDE DEF N
<1>. SUFFICES ASSUME NEW i \in DOMAIN t, ~stack[i].waits PROVE CallHas(self, fl, t, i)
  BY <1>1 DEF CallHas
<1>3. /\ i \in DOMAIN stack /\ i < N /\ t[i] = stack[i]
      /\ stack[i] \in Frame /\ stack[i].at \in Nat \ {0}
  <2>1. i \in DOMAIN stack /\ i < N /\ t[i] = stack[i]
    BY <1>1
  <2>2. stack[i] \in Frame
    BY <2>1 DEF TypeInv, TypeOK
  <2>. QED
    BY <2>1, <2>2 DEF Frame
<1>4. CallHas(self, flows, stack, i) /\ Nested(self, stack, i, N)
  BY <1>2, <1>3 DEF FlowInv, StackInv, StackOK
<1>5. stack[i].at # 1
  <2>1. stack[i].at > 1
    BY <1>3 DEF StackInv, StackOK, N
  <2>. QED
    BY <2>1
<1>6. \A k \in DOMAIN stack[i].vs : stack[i].vs[k] \in DOMAIN flows
  <2>1. stack[i].vs \in Seq(DOMAIN flows)
    BY <1>3 DEF Frame
  <2>. QED
    BY <2>1
<1>7. ASSUME NEW k, NEW h \in i + 1 .. N, IsCall(self, stack[i], k, stack[h])
      PROVE  \/ Above(self, t, i, k)
             \/ stack[i].vs[k] = Top.vis /\ self.kids[stack[i].node][k] = Top.node
  <2>1. CASE h = N
    BY <1>2, <1>7, <2>1 DEF IsCall
  <2>2. CASE h # N
    <3>1. h \in DOMAIN t /\ h > i /\ t[h] = stack[h]
      BY <1>1, <1>3, <1>7, <2>2
    <3>. QED
      BY <1>3, <1>7, <3>1 DEF Above
  <2>. QED
    BY <2>1, <2>2
<1>8. ASSUME NEW k, Above(self, stack, i, k)
      PROVE  \/ Above(self, t, i, k)
             \/ stack[i].vs[k] = Top.vis /\ self.kids[stack[i].node][k] = Top.node
  <2>1. PICK h \in DOMAIN stack : h > i /\ IsCall(self, stack[i], k, stack[h])
    BY <1>8 DEF Above
  <2>2. h \in i + 1 .. N
    BY <1>1, <1>3, <2>1
  <2>. QED
    BY <1>7, <2>1, <2>2
<1>9. ASSUME NEW k \in DOMAIN stack[i].vs, stack[i].vs[k] = Top.vis,
             stack[i].node \in self.splits \/ k \in Entered(self, stack[i])
      PROVE  /\ k \in Entered(self, stack[i])
             /\ \/ Above(self, t, i, k)
                \/ self.kids[stack[i].node][k] = Top.node
  <2>1. HandedOn(self, stack, i, N)
    BY <1>2, <1>4, <1>9 DEF Nested, Shares
  <2>2. /\ k \in Entered(self, stack[i])
        /\ \E h \in i + 1 .. N : IsCall(self, stack[i], k, stack[h])
    BY <1>2, <1>3, <1>9, <2>1, SlotOfVisitor
  <2>. QED
    BY <1>7, <2>2
<1>10. ASSUME NEW k \in DOMAIN stack[i].vs, stack[i].node \in self.splits, k >= stack[i].at
       PROVE  Has(self, fl[stack[i].vs[k]], Executed(self, In(stack[i].node)))
  <2>1. k \notin Entered(self, stack[i])
    <3>1. stack[i].vs \in Seq(DOMAIN flows)
      BY <1>3 DEF Frame
    <3>2. k \in Nat /\ stack[i].at \in Nat
      BY <1>3, <3>1
    <3>3. ~(k < stack[i].at)
      BY <1>10, <3>2
    <3>. QED
      BY <1>10, <3>3 DEF Entered
  <2>2. stack[i].vs[k] # Top.vis
    BY <1>9, <1>10, <2>1
  <2>3. Has(self, flows[stack[i].vs[k]], Executed(self, In(stack[i].node)))
    BY <1>4, <1>10 DEF CallHas
  <2>. QED
    BY <1>6, <2>2, <2>3
<1>11. ASSUME NEW k \in DOMAIN stack[i].vs, k \in Entered(self, stack[i])
       PROVE  \/ Has(self, fl[stack[i].vs[k]], Executed(self, Out(self.kids[stack[i].node][k])))
              \/ Above(self, t, i, k)
  <2>1. \/ Has(self, flows[stack[i].vs[k]], Executed(self, Out(self.kids[stack[i].node][k])))
        \/ Above(self, stack, i, k)
    BY <1>4, <1>11 DEF CallHas
  <2>2. CASE stack[i].vs[k] = Top.vis
    BY <1>9, <1>11, <2>2
  <2>3. CASE stack[i].vs[k] # Top.vis
    BY <1>6, <1>8, <2>1, <2>3
  <2>. QED
    BY <2>2, <2>3
<1>. QED
  BY <1>3, <1>5, <1>10, <1>11 DEF CallHas

\* The edge of a call.
LEMMA CallParent ==
    ASSUME TypeInv, Walking, NEW c \in Caller, NEW e, e = <<stack[c].node, stack[c].at>>
    PROVE  /\ e \in Parents(self.kids, Child(c)) /\ Child(c) \in DOMAIN self.kids
           /\ self \in Walks
<1>1. stack[c].node \in Node /\ stack[c].at \in DOMAIN self.kids[stack[c].node] /\ Child(c) \in Node
  BY CallerFacts
<1>2. self.kids[e[1]][e[2]] = Child(c)
  BY DEF Child
<1>. QED
  BY <1>1, <1>2 DEF Parents, Edges, Node, TypeInv

\* What may come along the edge of a call is before the child, and what it leaves behind.
LEMMA CallBefore ==
    ASSUME TypeInv, StackInv, FlowInv, Walking, NEW c \in Caller, Once(self)
    PROVE  /\ flows[Visitor(c)] \subseteq Before(self, Child(c))
           /\ flows[Visitor(c)] \subseteq Executed(self, Out(Child(c)))
<1>1. PICK e : e = <<stack[c].node, stack[c].at>>
  OBVIOUS
<1>2. Has(self, flows[Visitor(c)], Executed(self, From(self, e)))
  BY <1>1, CallFlow
<1>3. e \in Parents(self.kids, Child(c)) /\ Child(c) \in DOMAIN self.kids /\ self \in Walks
  BY <1>1, CallParent
<1>4. /\ Executed(self, From(self, e)) \subseteq Before(self, Child(c))
      /\ Before(self, Child(c)) \subseteq Executed(self, In(Child(c)))
  BY <1>3, BeforeFacts
<1>5. Executed(self, In(Child(c))) \subseteq Executed(self, Out(Child(c)))
  BY <1>3, LeftFlow
<1>. QED
  BY <1>2, <1>4, <1>5 DEF Has

\* What a node is visited with is what was before it.
LEMMA JoinedHas ==
    ASSUME TypeInv, StackInv, SeenInv, AllJoinInv, FlowInv, Walking, NEW c \in Caller,
           ~Pends(Child(c)), Child(c) \notin DOMAIN tracker,
           Full(self) => /\ Used' = Used \union {<<stack[c].node, stack[c].at>>}
                         /\ self' = self
    PROVE  Has(self, Joined(Child(c), Visitor(c)), Before(self, Child(c)))
<1> DEFINE n == Child(c)
           v == Visitor(c)
<1>1. PICK e : e = <<stack[c].node, stack[c].at>>
  OBVIOUS
<1>2. e \in Parents(self.kids, n) /\ n \in DOMAIN self.kids /\ self \in Walks
  BY <1>1, CallParent
<1>3. n \in DOMAIN points => PointHas(self, tracker, points[n], UsedTo(n), n)
  BY DEF FlowInv
<1>4. ASSUME Once(self) PROVE Joined(n, v) \subseteq Before(self, n)
  <2>1. flows[v] \subseteq Before(self, n)
    BY <1>4, CallBefore
  <2>2. n \in DOMAIN points => points[n].vclone \subseteq Before(self, n)
    BY <1>3, <1>4 DEF PointHas
  <2>. QED
    BY <2>1, <2>2 DEF Joined, IsJoin
<1>5. ASSUME Full(self) PROVE Before(self, n) \subseteq Joined(n, v)
  <2>1. JoinInv /\ AllJoin(self)
    BY <1>5 DEF Full, AllJoinInv
  <2>2. Parents(self.kids, n) \subseteq Used'
    <3>1. e \notin Used
      BY <1>1, <2>1, CallEdge
    <3>. HIDE DEF n
    <3>2. n \in Node /\ ~Pends(n)
      BY <1>2 DEF n, Node
    <3>. QED
      BY <1>1, <1>2, <1>5, <2>1, <3>1, <3>2, VisitedByLast
  <2>3. ASSUME NEW d \in Parents(self.kids, n) PROVE Executed(self, From(self, d)) \subseteq Joined(n, v)
    <3>1. flows[v] \subseteq Joined(n, v)
      BY DEF Joined
    <3>2. CASE d = e
      <4>1. Has(self, flows[v], Executed(self, From(self, e)))
        BY <1>1, CallFlow
      <4>. QED
        BY <1>5, <3>1, <3>2, <4>1 DEF Has
    <3>3. CASE d # e
      <4>1. d \in Used
        BY <1>1, <1>5, <2>2, <2>3, <3>3
      <4>2. d \in Edges(self.kids) /\ EdgeUsed(d) /\ self.kids[d[1]][d[2]] = n
        BY <2>3, <4>1 DEF Used, Parents
      <4>3. n \in DOMAIN points
        BY <4>2, UsedSeen
      <4>4. d \in UsedTo(n)
        BY <2>3, <4>1 DEF UsedTo
      <4>5. Executed(self, From(self, d)) \subseteq points[n].vclone
        BY <1>3, <1>5, <4>3, <4>4 DEF PointHas
      <4>. QED
        BY <4>3, <4>5 DEF Joined, IsJoin
    <3>. QED
      BY <3>2, <3>3
  <2>. HIDE DEF n, v
  <2>. QED
    BY <1>2, <2>3, BeforeFacts
<1>. QED
  BY <1>4, <1>5 DEF Has

\* What the alternatives leave behind, merged, is what the branch does; and so is
\* what the last child in sequence does.
LEMMA MergedHas ==
    ASSUME TypeInv, StackInv, FlowInv, Walking, ~Top.waits, ~More(Top)
    PROVE  Has(self, Merged, Executed(self, Out(Top.node)))
<1> DEFINE N == Len(stack)
           n == Top.node
<1>1. /\ Top \in Frame /\ FrameOK(Top, self, points) /\ N \in Nat \ {0} /\ DOMAIN stack = 1 .. N
  BY PopFacts
<1>2. N \in DOMAIN stack /\ stack[N] = Top
  BY <1>1 DEF Top
<1>3. /\ CallHas(self, flows, stack, N) /\ VisitorsOK(self, Top)
  BY <1>2 DEF FlowInv, StackInv, StackOK
<1>4. self \in Walks /\ n \in DOMAIN self.kids
  BY <1>1 DEF TypeInv, Frame, Node
<1>5. /\ self.kids[n] \in Seq(Nat) /\ Len(self.kids[n]) \in Nat
      /\ DOMAIN self.kids[n] = 1 .. Len(self.kids[n])
  BY <1>4, KidsFacts
<1>6. /\ Top.vs \in Seq(DOMAIN flows) /\ Len(Top.vs) = Len(self.kids[n]) /\ Top.at \in Nat \ {0}
  BY <1>1 DEF FrameOK, Frame
<1>7. DOMAIN Top.vs = 1 .. Len(self.kids[n])
  BY <1>6
<1>8. Top.at = Len(self.kids[n]) + 1
  <2>1. Top.at > Len(self.kids[n])
    BY <1>5, <1>6 DEF More
  <2>2. Top.at <= Len(self.kids[n]) + 1
    BY <1>3 DEF VisitorsOK
  <2>3. Len(self.kids[n]) \in Nat /\ Top.at \in Nat
    BY <1>5, <1>6
  <2>. HIDE DEF n
  <2>. QED
    BY <2>1, <2>2, <2>3
<1>9. ASSUME NEW k \in Entered(self, Top)
      PROVE  Has(self, flows[Top.vs[k]], Executed(self, Out(self.kids[n][k])))
  <2>1. ~Above(self, stack, N, k)
    BY <1>1 DEF Above
  <2>2. k \in DOMAIN Top.vs
    BY <1>9 DEF Entered
  <2>. QED
    BY <1>2, <1>3, <1>9, <2>1, <2>2 DEF CallHas
<1>. HIDE DEF n, N
<1>10. /\ \A q \in FlowsOutOf(self, n) : Executed(self, q) \subseteq Executed(self, Out(n))
       /\ \A m \in Executed(self, Out(n)) : \E q \in FlowsOutOf(self, n) : m \in Executed(self, q)
  BY <1>4, LeftFlow
<1>11. CASE Len(self.kids[n]) = 0
  <2>1. FlowsOutOf(self, n) = {In(n)}
    BY <1>5, <1>11 DEF FlowsOutOf
  <2>2. Has(self, flows[Top.vis], Executed(self, In(n)))
    BY <1>2, <1>3, <1>8, <1>11 DEF CallHas, n
  <2>3. Merged = flows[Top.vis]
    BY <1>7, <1>11 DEF Merged
  <2>. QED
    BY <1>10, <2>1, <2>2, <2>3 DEF Has, n
<1>12. CASE Len(self.kids[n]) # 0 /\ n \in self.splits
  <2>1. FlowsOutOf(self, n) = { Out(self.kids[n][k]) : k \in 1 .. Len(self.kids[n]) }
    BY <1>5, <1>12 DEF FlowsOutOf, Range
  <2>2. \A k \in 1 .. Len(self.kids[n]) :
            Has(self, flows[Top.vs[k]], Executed(self, Out(self.kids[n][k])))
    <3>. SUFFICES ASSUME NEW k \in 1 .. Len(self.kids[n]) PROVE k \in Entered(self, Top)
      BY <1>9
    <3>. QED
      BY <1>5, <1>7, <1>8, <1>12 DEF Entered, n
  <2>3. Merged = UNION { flows[Top.vs[k]] : k \in 1 .. Len(self.kids[n]) }
    <3>1. 1 \in DOMAIN Top.vs /\ Top.vs[1] = Top.vis
      BY <1>3, <1>5, <1>7, <1>12 DEF VisitorsOK
    <3>. QED
      BY <1>7, <3>1 DEF Merged
  <2>4. ASSUME Once(self) PROVE Merged \subseteq Executed(self, Out(n))
    <3>. SUFFICES ASSUME NEW k \in 1 .. Len(self.kids[n])
                  PROVE  flows[Top.vs[k]] \subseteq Executed(self, Out(n))
      BY <2>3
    <3>1. flows[Top.vs[k]] \subseteq Executed(self, Out(self.kids[n][k]))
      BY <2>2, <2>4 DEF Has
    <3>2. Out(self.kids[n][k]) \in FlowsOutOf(self, n)
      BY <2>1
    <3>. QED
      BY <1>10, <3>1, <3>2
  <2>5. ASSUME Full(self) PROVE Executed(self, Out(n)) \subseteq Merged
    <3>. SUFFICES ASSUME NEW m \in Executed(self, Out(n)) PROVE m \in Merged
      OBVIOUS
    <3>1. PICK k \in 1 .. Len(self.kids[n]) : m \in Executed(self, Out(self.kids[n][k]))
      BY <1>10, <2>1
    <3>2. m \in flows[Top.vs[k]]
      BY <2>2, <2>5, <3>1 DEF Has
    <3>. QED
      BY <2>3, <3>2
  <2>. QED
    BY <2>4, <2>5 DEF Has, n
<1>13. CASE Len(self.kids[n]) # 0 /\ n \notin self.splits
  <2>1. FlowsOutOf(self, n) = {Out(self.kids[n][Len(self.kids[n])])}
    BY <1>5, <1>13 DEF FlowsOutOf
  <2>2. Len(self.kids[n]) \in DOMAIN Top.vs /\ Len(self.kids[n]) \in Entered(self, Top)
    BY <1>5, <1>7, <1>8, <1>13 DEF Entered, n
  <2>3. \A k \in DOMAIN Top.vs : Top.vs[k] = Top.vis
    BY <1>3, <1>13 DEF VisitorsOK, n
  <2>4. Merged = flows[Top.vis]
    BY <2>3 DEF Merged
  <2>5. Has(self, flows[Top.vis], Executed(self, Out(self.kids[n][Len(self.kids[n])])))
    BY <1>9, <2>2, <2>3
  <2>. QED
    BY <1>10, <2>1, <2>4, <2>5 DEF Has, n
<1>. QED
  BY <1>11, <1>12, <1>13

\* A join point that is not the one that changes.
LEMMA PointKept ==
    ASSUME FlowInv, NEW m \in DOMAIN points, NEW t, m \in DOMAIN t <=> m \in DOMAIN tracker,
           NEW p, p.vclone = points[m].vclone, p.done = points[m].done,
           NEW used, Full(self) => used \subseteq UsedTo(m)
    PROVE  PointHas(self, t, p, used, m)
<1>1. PointHas(self, tracker, points[m], UsedTo(m), m)
  BY DEF FlowInv
<1>2. CASE m \in DOMAIN tracker
  BY <1>1, <1>2 DEF PointHas
<1>3. CASE m \notin DOMAIN tracker
  BY <1>1, <1>3 DEF PointHas
<1>. QED
  BY <1>2, <1>3

\* The edges used to other nodes than the child are what they were.
LEMMA UsedElsewhere ==
    ASSUME TypeInv, Walking, NEW c \in Caller, self' = self,
           Used' = Used \union {<<stack[c].node, stack[c].at>>}
    PROVE  /\ \A m : m # Child(c) => UsedTo(m)' \subseteq UsedTo(m)
           /\ \A m : UsedTo(m)' \subseteq UsedTo(m) \union {<<stack[c].node, stack[c].at>>}
<1>1. PICK e : e = <<stack[c].node, stack[c].at>>
  OBVIOUS
<1>2. \A m : UsedTo(m)' = (Used \union {e}) \intersect Parents(self.kids, m)
  BY <1>1 DEF UsedTo
<1>3. \A m : e \in Parents(self.kids, m) => m = Child(c)
  <2>1. self.kids[e[1]][e[2]] = Child(c)
    BY <1>1 DEF Child
  <2>. QED
    BY <2>1 DEF Parents
<1>. QED
  BY <1>1, <1>2, <1>3 DEF UsedTo

LEMMA WaitFlow ==
    ASSUME TypeInv, StackInv, SeenInv, AllJoinInv, FlowInv, Walking, NEW c \in Caller, WaitAt(c)
    PROVE  FlowInv'
<1> DEFINE n == Child(c)
           v == Visitor(c)
           f == Call(n, v, TRUE, << >>)
           acc == Accumulated(points[n], flows[v])
<1>1. /\ n \in DOMAIN points /\ points[n].count > 0
      /\ points' = [points EXCEPT ![n].vclone = acc, ![n].count = @ - 1]
      /\ stack' = IF self.broken THEN Called(c) ELSE Append(Called(c), f)
      /\ UNCHANGED <<self, tracker, flows, met>>
  BY DEF WaitAt, Pends, IsJoin, history
<1>2. f.waits /\ f.node = n /\ f.vis = v
  BY DEF Call
<1>. HIDE DEF f
<1>3. PICK e : e = <<stack[c].node, stack[c].at>>
  OBVIOUS
<1>4. \A m \in DOMAIN points : points[m] \in [vclone : Flow, count : Int, done : BOOLEAN]
  BY DEF TypeInv, TypeOK
<1>5. acc = points[n].vclone \union flows[v]
  BY DEF Accumulated
<1>6. n \notin DOMAIN tracker
  BY <1>1, <1>4 DEF SeenInv, SeenOK, PointSeen
<1>7. Full(self) => Used' = Used \union {e}
  <2>1. Full(self) => JoinInv
    BY DEF Full, AllJoinInv
  <2>. QED
    BY <1>3, <2>1, WaitJoin
<1>8. \A i \in DOMAIN stack' : CallHas(self, flows, stack', i)
  <2>1. PICK s : s = Called(c)
    OBVIOUS
  <2>2. /\ DOMAIN s = DOMAIN stack /\ s \in Seq(Frame) /\ Len(s) = Len(stack)
        /\ DOMAIN stack = 1 .. Len(stack) /\ Len(stack) \in Nat /\ c \in DOMAIN stack
        /\ s[c].node = stack[c].node /\ s[c].vs = stack[c].vs
    BY <2>1, CalledFrames, CallerCases
  <2>3. CASE self.broken
    <3>1. stack' = s
      BY <1>1, <2>1, <2>3
    <3>2. Has(self, flows[v], Executed(self, Out(n)))
      <4>1. Once(self) => flows[v] \subseteq Executed(self, Out(n))
        BY CallBefore
      <4>. QED
        BY <2>3, <4>1 DEF Has, Full
    <3>. QED
      BY <2>1, <2>2, <3>1, <3>2, CalledFlows
  <2>4. CASE ~self.broken
    <3>1. PICK t : t = Append(s, f)
      OBVIOUS
    <3>2. stack' = t
      BY <1>1, <2>1, <2>4, <3>1
    <3>3. /\ DOMAIN t = 1 .. Len(stack) + 1 /\ t[Len(stack) + 1] = f
          /\ \A i \in DOMAIN stack : t[i] = s[i]
      BY <2>2, <3>1, AppendFacts
    <3>4. Above(self, t, c, stack[c].at)
      <4>1. IsCall(self, t[c], stack[c].at, t[Len(stack) + 1])
        BY <1>2, <2>2, <3>3 DEF IsCall, Child, Visitor
      <4>. QED
        BY <2>2, <3>3, <4>1 DEF Above
    <3>5. DOMAIN stack \subseteq DOMAIN t
      BY <2>2, <3>3
    <3>6. \A i \in DOMAIN stack : CallHas(self, flows, t, i)
      BY <2>1, <3>3, <3>4, <3>5, CalledFlows
    <3>7. CallHas(self, flows, t, Len(stack) + 1)
      BY <1>2, <3>3 DEF CallHas
    <3>. QED
      BY <2>2, <3>2, <3>3, <3>6, <3>7
  <2>. QED
    BY <2>3, <2>4
<1>9. ASSUME NEW m \in DOMAIN points PROVE PointHas(self, tracker, points'[m], UsedTo(m)', m)
  <2>1. CASE m # n
    <3>1. points'[m] = points[m]
      BY <1>1, <2>1
    <3>2. Full(self) => UsedTo(m)' \subseteq UsedTo(m)
      BY <1>1, <1>3, <1>7, <2>1, UsedElsewhere
    <3>. QED
      BY <3>1, <3>2, PointKept
  <2>2. CASE m = n
    <3>1. points'[n].vclone = acc
      BY <1>1, <1>4
    <3>2. PointHas(self, tracker, points[n], UsedTo(n), n)
      BY <1>1 DEF FlowInv
    <3>3. ASSUME Once(self) PROVE acc \subseteq Before(self, n)
      <4>1. flows[v] \subseteq Before(self, n)
        BY <3>3, CallBefore
      <4>. QED
        BY <1>5, <1>6, <3>2, <3>3, <4>1 DEF PointHas
    <3>4. ASSUME Full(self), NEW d \in UsedTo(m)' PROVE Executed(self, From(self, d)) \subseteq acc
      <4>1. d = e \/ d \in UsedTo(m)
        BY <1>1, <1>3, <1>7, <3>4, UsedElsewhere
      <4>2. CASE d = e
        <5>1. Executed(self, From(self, e)) \subseteq flows[v]
          BY <1>3, <3>4, CallFlow DEF Has
        <5>. QED
          BY <1>5, <4>2, <5>1
      <4>3. CASE d \in UsedTo(m)
        <5>1. Executed(self, From(self, d)) \subseteq points[n].vclone
          BY <1>6, <2>2, <3>2, <3>4, <4>3 DEF PointHas
        <5>. QED
          BY <1>5, <5>1
      <4>. QED
        BY <4>1, <4>2, <4>3
    <3>5. m \notin DOMAIN tracker /\ points'[m].vclone = acc /\ (Once(self) => acc \subseteq Before(self, m))
      BY <1>6, <2>2, <3>1, <3>3
    <3>. HIDE DEF n, acc
    <3>. QED
      BY <3>4, <3>5 DEF PointHas
  <2>. QED
    BY <2>1, <2>2
<1>10. DOMAIN points' = DOMAIN points
  BY <1>1
<1>11. Node' = Node /\ Flow' = Flow
  BY <1>1 DEF Node, Flow
<1>. QED
  BY <1>1, <1>8, <1>9, <1>10, <1>11 DEF FlowInv

LEMMA ConcatAt ==
    ASSUME NEW S, NEW s \in Seq(S), NEW t \in Seq(S), NEW i \in 1 .. Len(t)
    PROVE  (s \o t)[Len(s) + i] = t[i]
<1>1. Len(s) \in Nat /\ Len(t) \in Nat /\ i \in Nat /\ i >= 1 /\ i <= Len(t)
  OBVIOUS
<1>2. Len(s) + i \in 1 .. Len(s) + Len(t) /\ ~(Len(s) + i <= Len(s)) /\ (Len(s) + i) - Len(s) = i
  BY <1>1
<1>. QED
  BY <1>2

\* The visitors after a call has begun: the one of the call, and the new ones.
Begun(n, v, flow) == [flows EXCEPT ![v] = flow] \o Clones(n, flow)

LEMMA BegunFlows ==
    ASSUME TypeInv, NEW n \in Node, NEW v \in DOMAIN flows, NEW flow \in Flow,
           NEW fl, fl = Begun(n, v, flow),
           NEW vs, vs = Visitors(n, v, Len(flows))
    PROVE  /\ \A u \in DOMAIN flows : fl[u] = IF u = v THEN flow ELSE flows[u]
           /\ DOMAIN vs = 1 .. Len(self.kids[n]) /\ Len(self.kids[n]) \in Nat
           /\ \A k \in DOMAIN vs : n \in self.splits => fl[vs[k]] = flow
<1> DEFINE set == [flows EXCEPT ![v] = flow]
           clones == Clones(n, flow)
           l == Len(self.kids[n])
<1>1. self \in Walks /\ flows \in Seq(Flow)
  BY DEF TypeInv, TypeOK
<1>2. clones \in Seq(Flow) /\ l \in Nat /\ (n \in self.splits /\ l > 0 => Len(clones) = l - 1)
  <2>. HIDE DEF Flow
  <2>1. /\ Clones(n, flow) \in Seq(Flow) /\ Len(self.kids[n]) \in Nat
        /\ Len(Clones(n, flow)) = IF n \in self.splits /\ Len(self.kids[n]) > 0
                                  THEN Len(self.kids[n]) - 1 ELSE 0
    BY <1>1, ClonesFacts
  <2>. QED
    BY <2>1
<1>3. \A i \in DOMAIN clones : clones[i] = flow
  BY DEF Clones
<1>4. \A k \in 1 .. l : vs[k] = IF n \in self.splits /\ k > 1 THEN Len(flows) + k - 1 ELSE v
  BY DEF Visitors
<1>5. DOMAIN vs = 1 .. l
  BY DEF Visitors
<1>. HIDE DEF clones, l, Flow
<1>6. /\ set \in Seq(Flow) /\ Len(set) = Len(flows) /\ Len(flows) \in Nat
      /\ DOMAIN flows = 1 .. Len(flows)
      /\ \A u \in DOMAIN flows : set[u] = IF u = v THEN flow ELSE flows[u]
  BY <1>1
<1>. HIDE DEF set
<1>7. fl = set \o clones
  BY DEF set, clones, Begun
<1>8. \A u \in 1 .. Len(set) : fl[u] = set[u]
  BY <1>2, <1>6, <1>7
<1>9. \A i \in 1 .. Len(clones) : fl[Len(set) + i] = clones[i]
  <2>. SUFFICES ASSUME NEW i \in 1 .. Len(clones) PROVE fl[Len(set) + i] = clones[i]
    OBVIOUS
  <2>1. set \in Seq(Flow) /\ clones \in Seq(Flow)
    BY <1>2, <1>6
  <2>2. (set \o clones)[Len(set) + i] = clones[i]
    BY <2>1, ConcatAt, Zenon
  <2>. QED
    BY <1>7, <2>2, Zenon
<1>10. DOMAIN clones = 1 .. Len(clones) /\ Len(clones) \in Nat
  BY <1>2
<1>11. \A u \in DOMAIN flows : fl[u] = IF u = v THEN flow ELSE flows[u]
  BY <1>6, <1>8
<1>12. ASSUME NEW k \in 1 .. l, n \in self.splits
       PROVE  fl[vs[k]] = flow
  <2>1. CASE k = 1
    <3>1. vs[k] = v
      BY <1>4, <2>1
    <3>. QED
      BY <1>11, <3>1
  <2>2. CASE k # 1
    <3>1. vs[k] = Len(flows) + k - 1
      BY <1>2, <1>4, <1>12, <2>2
    <3>2. k - 1 \in 1 .. Len(clones)
      BY <1>2, <1>10, <1>12, <2>2
    <3>3. Len(flows) + k - 1 = Len(set) + (k - 1)
      BY <1>2, <1>6
    <3>4. fl[Len(set) + (k - 1)] = flow
      BY <1>3, <1>9, <1>10, <3>2
    <3>. QED
      BY <3>1, <3>3, <3>4
  <2>. QED
    BY <2>1, <2>2
<1>. QED
  BY <1>2, <1>5, <1>6, <1>11, <1>12 DEF l

LEMMA BeginFlow ==
    ASSUME TypeInv, StackInv, SeenInv, AllJoinInv, FlowInv, Walking, NEW c \in Caller, Begin(c)
    PROVE  FlowInv'
<1>1. PICK n : n = Child(c)
  OBVIOUS
<1>2. PICK v : v = Visitor(c)
  OBVIOUS
<1>3. PICK joined : joined = Joined(n, v)
  OBVIOUS
<1>4. PICK flow : flow = joined \union {n}
  OBVIOUS
<1>5. PICK vs : vs = Visitors(n, v, Len(flows))
  OBVIOUS
<1>6. PICK f : f = Call(n, v, FALSE, vs)
  OBVIOUS
<1>7. /\ ~Pends(n) /\ Fresh(n)
      /\ points' = Counted(n)
      /\ tracker' = With(tracker, n, "busy")
      /\ flows' = [flows EXCEPT ![v] = flow] \o Clones(n, flow)
      /\ stack' = Append(Called(c), f)
      /\ met' = [met EXCEPT ![n] = @ \union joined]
      /\ UNCHANGED self
  BY <1>1, <1>2, <1>3, <1>4, <1>5, <1>6 DEF Begin
<1>8. ~f.waits /\ f.node = n /\ f.vis = v /\ f.vs = vs /\ f.at = 1
  BY <1>6 DEF Call
<1>9. /\ n \in Node /\ v \in DOMAIN flows /\ self \in Walks /\ n \in DOMAIN self.kids
      /\ c \in DOMAIN stack
  BY <1>1, <1>2, CallerFacts DEF TypeInv, Node
<1>10. joined \in Flow /\ flow \in Flow
  <2>1. joined \in Flow
    BY <1>3, <1>9, JoinFacts
  <2>. QED
    BY <1>4, <1>9, <2>1 DEF Flow
<1>11. /\ \A u \in DOMAIN flows : flows'[u] = IF u = v THEN flow ELSE flows[u]
       /\ DOMAIN vs = 1 .. Len(self.kids[n]) /\ Len(self.kids[n]) \in Nat
       /\ \A k \in DOMAIN vs : n \in self.splits => flows'[vs[k]] = flow
  <2>1. PICK fl : fl = flows'
    OBVIOUS
  <2>2. fl = Begun(n, v, flow)
    BY <1>7, <2>1 DEF Begun
  <2>3. /\ \A u \in DOMAIN flows : fl[u] = IF u = v THEN flow ELSE flows[u]
        /\ DOMAIN vs = 1 .. Len(self.kids[n]) /\ Len(self.kids[n]) \in Nat
        /\ \A k \in DOMAIN vs : n \in self.splits => fl[vs[k]] = flow
    BY <1>5, <1>9, <1>10, <2>2, BegunFlows
  <2>. QED
    BY <2>1, <2>3
<1>12. Once(self) => n \notin DOMAIN tracker
  <2>1. CASE AllJoin(self)
    BY <1>1, <2>1, CallEdge DEF AllJoinInv
  <2>2. CASE self.visitDagOnce
    BY <1>7, <2>2 DEF Fresh
  <2>. QED
    BY <2>1, <2>2 DEF Once
<1>13. Full(self) => Used' = Used \union {<<stack[c].node, stack[c].at>>}
  BY BeginJoin DEF Full, AllJoinInv
<1>14. Full(self) => Once(self)
  BY DEF Full, Once
<1>15. Has(self, joined, Before(self, n))
  <2>1. CASE Once(self)
    BY <1>1, <1>2, <1>3, <1>7, <1>12, <1>13, <2>1, JoinedHas
  <2>2. CASE ~Once(self)
    BY <1>14, <2>2 DEF Has
  <2>. QED
    BY <2>1, <2>2
<1>16. Has(self, flow, Executed(self, In(n)))
  <2>1. /\ Before(self, n) \subseteq Executed(self, In(n)) /\ n \in Executed(self, In(n))
        /\ \A m \in Executed(self, In(n)) : m = n \/ m \in Before(self, n)
    BY <1>9, BeforeFacts
  <2>. QED
    BY <1>4, <1>15, <2>1 DEF Has
<1>17. \A i \in DOMAIN stack' : CallHas(self, flows', stack', i)
  <2>1. PICK s : s = Called(c)
    OBVIOUS
  <2>2. /\ DOMAIN s = DOMAIN stack /\ s \in Seq(Frame) /\ Len(s) = Len(stack)
        /\ DOMAIN stack = 1 .. Len(stack) /\ Len(stack) \in Nat
        /\ s[c].node = stack[c].node /\ s[c].vs = stack[c].vs
    BY <1>9, <2>1, CalledFrames
  <2>3. PICK t : t = Append(s, f)
    OBVIOUS
  <2>4. stack' = t
    BY <1>7, <2>1, <2>3
  <2>5. /\ DOMAIN t = 1 .. Len(stack) + 1 /\ t[Len(stack) + 1] = f
        /\ \A i \in DOMAIN stack : t[i] = s[i]
    BY <2>2, <2>3, AppendFacts
  <2>6. Above(self, t, c, stack[c].at)
    <3>1. IsCall(self, t[c], stack[c].at, t[Len(stack) + 1])
      BY <1>1, <1>2, <1>8, <1>9, <2>2, <2>5 DEF IsCall, Child, Visitor
    <3>. QED
      BY <1>9, <2>2, <2>5, <3>1 DEF Above
  <2>7. \A i \in DOMAIN stack : CallHas(self, flows', t, i)
    <3>1. DOMAIN stack \subseteq DOMAIN t
      BY <2>2, <2>5
    <3>2. PICK fl : fl = flows'
      OBVIOUS
    <3>3. \A u \in DOMAIN flows : u # Visitor(c) => fl[u] = flows[u]
      BY <1>2, <1>11, <3>2
    <3>4. \A i \in DOMAIN stack : CallHas(self, fl, t, i)
      BY <2>1, <2>5, <2>6, <3>1, <3>3, CalledFlows
    <3>. QED
      BY <3>2, <3>4
  <2>8. CallHas(self, flows', t, Len(stack) + 1)
    <3>1. Has(self, flows'[v], Executed(self, In(n)))
      BY <1>9, <1>11, <1>16
    <3>2. ASSUME NEW k \in DOMAIN vs, n \in self.splits
          PROVE  Has(self, flows'[vs[k]], Executed(self, In(n)))
      BY <1>11, <1>16, <3>2
    <3>3. ASSUME NEW k \in DOMAIN vs PROVE k \notin Entered(self, f)
      <4>1. k \in Nat \ {0}
        BY <1>11
      <4>. QED
        BY <1>8, <4>1 DEF Entered
    <3>. QED
      BY <1>8, <2>5, <3>1, <3>2, <3>3 DEF CallHas
  <2>. QED
    BY <2>2, <2>4, <2>5, <2>7, <2>8
<1>18. \A m \in DOMAIN points : points[m] \in [vclone : Flow, count : Int, done : BOOLEAN]
  BY DEF TypeInv, TypeOK
<1>19. /\ DOMAIN points' = DOMAIN points
       /\ \A m \in DOMAIN points :
             points'[m].vclone = points[m].vclone /\ points'[m].done = points[m].done
  BY <1>7, <1>18 DEF Counted, IsJoin
<1>20. /\ n \in DOMAIN tracker' /\ \A m : m # n => (m \in DOMAIN tracker' <=> m \in DOMAIN tracker)
  BY <1>7 DEF With
<1>21. ASSUME NEW m \in DOMAIN points PROVE PointHas(self, tracker', points'[m], UsedTo(m)', m)
  <2>1. CASE m # n
    <3>1. Full(self) => UsedTo(m)' \subseteq UsedTo(m)
      BY <1>1, <1>7, <1>13, <2>1, UsedElsewhere
    <3>. QED
      BY <1>19, <1>20, <2>1, <3>1, PointKept
  <2>2. CASE m = n
    <3>1. Once(self) => ~points'[n].done
      BY <1>12, <1>19, <1>21, <2>2 DEF SeenInv, SeenOK, PointSeen
    <3>. QED
      BY <1>14, <1>20, <2>2, <3>1 DEF PointHas, Has
  <2>. QED
    BY <2>1, <2>2
<1>22. Node' = Node /\ Flow' = Flow
  BY <1>7 DEF Node, Flow
<1>23. /\ met \in [Node -> Flow] /\ met' \in [Node -> Flow]
       /\ met'[n] = met[n] \union joined
       /\ \A m \in Node : m # n => met'[m] = met[m]
  <2>1. met \in [Node -> Flow]
    BY DEF FlowInv
  <2>2. met[n] \union joined \in Flow
    BY <1>9, <1>10, <2>1 DEF Flow
  <2>. HIDE DEF Flow
  <2>. QED
    BY <1>7, <1>9, <2>1, <2>2
<1>24. ASSUME NEW m \in Node PROVE MetHas(self, tracker', met'[m], m)
  <2>1. MetHas(self, tracker, met[m], m)
    BY DEF FlowInv
  <2>2. CASE m # n
    BY <1>20, <1>23, <2>1, <2>2 DEF MetHas
  <2>3. CASE m = n
    BY <1>15, <1>23, <2>1, <2>3 DEF MetHas, Has
  <2>. QED
    BY <2>2, <2>3
<1>. QED
  BY <1>7, <1>17, <1>19, <1>21, <1>22, <1>23, <1>24 DEF FlowInv

\* A node is visited again only where some shared nodes are no join points.
LEMMA RevisitFlow ==
    ASSUME TypeInv, StackInv, SeenInv, AllJoinInv, FlowInv, Walking, NEW c \in Caller, Revisit(c)
    PROVE  FlowInv'
<1>1. PICK n : n = Child(c)
  OBVIOUS
<1>2. PICK v : v = Visitor(c)
  OBVIOUS
<1>3. PICK flow : flow = Joined(n, v)
  OBVIOUS
<1>4. /\ ~Pends(n) /\ ~Fresh(n) /\ tracker[n] = "done"
      /\ points' = Left(Counted(n), n, flow)
      /\ flows' = [flows EXCEPT ![v] = flow]
      /\ stack' = Called(c)
      /\ UNCHANGED <<self, tracker, met>>
  BY <1>1, <1>2, <1>3 DEF Revisit, history
<1>5. n \in DOMAIN tracker /\ v \in DOMAIN flows /\ c \in DOMAIN stack
  <2>1. n \in DOMAIN tracker
    BY <1>4 DEF Fresh
  <2>. QED
    BY <1>2, <2>1, CallerFacts
<1>6. ~AllJoin(self)
  BY <1>1, <1>5, CallEdge DEF AllJoinInv
<1>7. ~Full(self)
  BY <1>6 DEF Full
<1>8. Has(self, flow, Executed(self, Out(n)))
  <2>. SUFFICES ASSUME Once(self) PROVE flow \subseteq Executed(self, Out(n))
    BY <1>7 DEF Has
  <2>1. flows[v] \subseteq Executed(self, Out(n))
    BY <1>1, <1>2, CallBefore
  <2>2. ASSUME n \in DOMAIN points PROVE points[n].vclone \subseteq Executed(self, Out(n))
    <3>1. points[n].done
      BY <1>4, <1>5, <2>2 DEF SeenInv, SeenOK, PointSeen
    <3>2. PointHas(self, tracker, points[n], UsedTo(n), n)
      BY <2>2 DEF FlowInv
    <3>. QED
      BY <1>5, <3>1, <3>2 DEF PointHas, Has
  <2>. QED
    BY <1>3, <2>1, <2>2 DEF Joined, IsJoin
<1>9. \A i \in DOMAIN stack' : CallHas(self, flows', stack', i)
  <2>1. PICK s : s = Called(c)
    OBVIOUS
  <2>2. PICK fl : fl = [flows EXCEPT ![v] = flow]
    OBVIOUS
  <2>3. DOMAIN s = DOMAIN stack
    BY <2>1, CalledFrames
  <2>4. fl[v] = flow /\ \A u \in DOMAIN flows : u # v => fl[u] = flows[u]
    BY <1>5, <2>2
  <2>5. Has(self, fl[Visitor(c)], Executed(self, Out(Child(c))))
    BY <1>1, <1>2, <1>8, <2>4
  <2>6. \A i \in DOMAIN stack : CallHas(self, fl, s, i)
    BY <1>2, <2>1, <2>3, <2>4, <2>5, CalledFlows
  <2>. QED
    BY <1>4, <2>1, <2>2, <2>3, <2>6
<1>10. /\ DOMAIN points' = DOMAIN points
       /\ \A m \in DOMAIN points : m # n => points'[m] = points[m]
       /\ n \in DOMAIN points => points'[n].vclone = flow
  BY <1>4, LeftPoints
<1>11. ASSUME NEW m \in DOMAIN points PROVE PointHas(self, tracker, points'[m], UsedTo(m)', m)
  <2>1. CASE m # n
    BY <1>7, <1>10, <2>1, PointKept
  <2>2. CASE m = n
    BY <1>5, <1>8, <1>10, <2>2 DEF PointHas
  <2>. QED
    BY <2>1, <2>2
<1>12. Node' = Node /\ Flow' = Flow
  BY <1>4 DEF Node, Flow
<1>. QED
  BY <1>4, <1>9, <1>10, <1>11, <1>12 DEF FlowInv

LEMMA FinishFlow ==
    ASSUME TypeInv, StackInv, SeenInv, AllJoinInv, FlowInv, Finish
    PROVE  FlowInv'
<1>1. PICK n : n = Top.node
  OBVIOUS
<1>2. PICK v : v = Top.vis
  OBVIOUS
<1>3. PICK flow : flow = Merged
  OBVIOUS
<1>4. /\ Walking /\ ~Top.waits /\ ~More(Top)
      /\ flows' = [flows EXCEPT ![v] = flow]
      /\ tracker' = [tracker EXCEPT ![n] = "done"]
      /\ points' = Left(points, n, flow)
      /\ stack' = Pop
      /\ UNCHANGED <<self, met>>
  BY <1>1, <1>2, <1>3 DEF Finish, Merged, history
<1>5. /\ Top \in Frame /\ Len(stack) \in DOMAIN stack /\ stack[Len(stack)] = Top
      /\ v \in DOMAIN flows
  <2>1. Top \in Frame /\ Len(stack) \in Nat \ {0} /\ DOMAIN stack = 1 .. Len(stack)
    BY <1>4, PopFacts
  <2>. QED
    BY <1>2, <2>1 DEF Frame, Top
<1>6. n \in DOMAIN tracker
  BY <1>1, <1>4, <1>5 DEF SeenInv, SeenOK, CallSeen
<1>7. Has(self, flow, Executed(self, Out(n)))
  BY <1>1, <1>3, <1>4, MergedHas
<1>8. \A i \in DOMAIN stack' : CallHas(self, flows', stack', i)
  <2>1. PICK t : t = Pop
    OBVIOUS
  <2>2. PICK fl : fl = [flows EXCEPT ![v] = flow]
    OBVIOUS
  <2>3. fl[v] = flow /\ \A u \in DOMAIN flows : u # v => fl[u] = flows[u]
    BY <1>5, <2>2
  <2>4. \A i \in DOMAIN t : CallHas(self, fl, t, i)
    BY <1>1, <1>2, <1>4, <1>7, <2>1, <2>3, PopFlows
  <2>. QED
    BY <1>4, <2>1, <2>2, <2>4
<1>9. /\ DOMAIN points' = DOMAIN points
      /\ \A m \in DOMAIN points : m # n => points'[m] = points[m]
      /\ n \in DOMAIN points => points'[n].vclone = flow
  BY <1>4, LeftPoints
<1>10. DOMAIN tracker' = DOMAIN tracker
  BY <1>4
<1>11. ASSUME Full(self), NEW m PROVE UsedTo(m)' = UsedTo(m)
  <2>1. Used' = Used
    BY <1>11, FinishJoin DEF Full, AllJoinInv
  <2>. QED
    BY <1>4, <2>1 DEF UsedTo
<1>12. ASSUME NEW m \in DOMAIN points PROVE PointHas(self, tracker', points'[m], UsedTo(m)', m)
  <2>1. CASE m # n
    <3>1. Full(self) => UsedTo(m)' \subseteq UsedTo(m)
      BY <1>11
    <3>. QED
      BY <1>9, <1>10, <2>1, <3>1, PointKept
  <2>2. CASE m = n
    BY <1>6, <1>7, <1>9, <1>10, <2>2 DEF PointHas
  <2>. QED
    BY <2>1, <2>2
<1>13. \A m \in Node : MetHas(self, tracker', met[m], m)
  BY <1>10 DEF FlowInv, MetHas
<1>14. Node' = Node /\ Flow' = Flow
  BY <1>4 DEF Node, Flow
<1>15. met \in [Node -> Flow]
  BY DEF FlowInv
<1>. QED
  BY <1>4, <1>8, <1>9, <1>12, <1>13, <1>14, <1>15 DEF FlowInv

LEMMA ResumeFlow ==
    ASSUME TypeInv, StackInv, SeenInv, AllJoinInv, FlowInv, Resume
    PROVE  FlowInv'
<1>1. PICK v : v = Top.vis
  OBVIOUS
<1>2. PICK flow : flow = points[Top.node].vclone
  OBVIOUS
<1>3. /\ Walking /\ Top.waits
      /\ flows' = [flows EXCEPT ![v] = flow]
      /\ stack' = Pop
      /\ UNCHANGED <<self, points, tracker, met>>
  BY <1>1, <1>2 DEF Resume, Resumed, AfterWait, history
<1>4. Top \in Frame /\ v \in DOMAIN flows
  <2>1. Top \in Frame
    BY <1>3, PopFacts
  <2>. QED
    BY <1>1, <2>1 DEF Frame
<1>5. Has(self, flow, Executed(self, Out(Top.node)))
  <2>1. Top.node \in DOMAIN points /\ Top.node \in DOMAIN tracker /\ points[Top.node].done
    BY ResumeDone
  <2>2. PointHas(self, tracker, points[Top.node], UsedTo(Top.node), Top.node)
    BY <2>1 DEF FlowInv
  <2>. QED
    BY <1>2, <2>1, <2>2 DEF PointHas
<1>6. \A i \in DOMAIN stack' : CallHas(self, flows', stack', i)
  <2>1. PICK t : t = Pop
    OBVIOUS
  <2>2. PICK fl : fl = [flows EXCEPT ![v] = flow]
    OBVIOUS
  <2>3. fl[v] = flow /\ \A u \in DOMAIN flows : u # v => fl[u] = flows[u]
    BY <1>4, <2>2
  <2>4. \A i \in DOMAIN t : CallHas(self, fl, t, i)
    BY <1>1, <1>3, <1>5, <2>1, <2>3, PopFlows
  <2>. QED
    BY <1>3, <2>1, <2>2, <2>4
<1>7. ASSUME Full(self), NEW m PROVE UsedTo(m)' = UsedTo(m)
  <2>1. Used' = Used
    BY <1>7, ResumeJoin DEF Full, AllJoinInv
  <2>. QED
    BY <1>3, <2>1 DEF UsedTo
<1>8. ASSUME NEW m \in DOMAIN points PROVE PointHas(self, tracker, points[m], UsedTo(m)', m)
  <2>1. Full(self) => UsedTo(m)' \subseteq UsedTo(m)
    BY <1>7
  <2>. QED
    BY <2>1, PointKept
<1>9. Node' = Node /\ Flow' = Flow
  BY <1>3 DEF Node, Flow
<1>. QED
  BY <1>3, <1>6, <1>8, <1>9 DEF FlowInv

\* Nothing is before the root.
LEMMA RootFirst ==
    ASSUME NEW w \in Walks
    PROVE  /\ 1 \in DOMAIN w.kids /\ Before(w, 1) = {} /\ Executed(w, In(1)) = {1}
           /\ Executed(w, In(1)) \subseteq DOMAIN w.kids
<1>1. 1 \in DOMAIN w.kids
  BY KidsFacts
<1>2. Parents(w.kids, 1) = {}
  <2>. SUFFICES ASSUME NEW e \in Edges(w.kids), w.kids[e[1]][e[2]] = 1 PROVE FALSE
    BY DEF Parents
  <2>1. e[1] \in DOMAIN w.kids /\ e[2] \in DOMAIN w.kids[e[1]]
    BY EdgeFacts
  <2>. QED
    BY <2>1, KidsFacts
<1>3. Before(w, 1) \subseteq {}
  <2>1. PICK F : F = {}
    OBVIOUS
  <2>2. \A e \in Parents(w.kids, 1) : Executed(w, From(w, e)) \subseteq F
    BY <1>2
  <2>3. Before(w, 1) \subseteq F
    BY <1>1, <2>2, BeforeFacts
  <2>. QED
    BY <2>1, <2>3
<1>4. 1 \in Executed(w, In(1)) /\ \A m \in Executed(w, In(1)) : m = 1 \/ m \in Before(w, 1)
  BY <1>1, BeforeFacts
<1>. QED
  BY <1>1, <1>3, <1>4 DEF Executed

LEMMA FlowInit == Init => FlowInv
<1>. SUFFICES ASSUME Init PROVE FlowInv
  OBVIOUS
<1>1. TypeInv /\ self \in Walks
  BY TypeInit DEF TypeInv
<1>2. PICK vs : vs = Visitors(1, 1, 1)
  OBVIOUS
<1>3. PICK f : f = Call(1, 1, FALSE, vs)
  OBVIOUS
<1>4. f.node = 1 /\ f.vis = 1 /\ ~f.waits /\ f.vs = vs /\ f.at = 1
  BY <1>3 DEF Call
<1>5. stack = << f >> /\ DOMAIN stack = {1} /\ stack[1] = f
  <2>1. stack = << f >>
    BY <1>2, <1>3 DEF Init
  <2>. QED
    BY <2>1
<1>6. /\ DOMAIN tracker = {1} /\ tracker[1] = "busy" /\ points = JoinPoints(self)
      /\ met = [n \in Node |-> {}]
  BY DEF Init, With, Node
<1>7. \A u \in DOMAIN flows : flows[u] = {1}
  <2>1. PICK clones : clones = Clones(1, {1})
    OBVIOUS
  <2>2. /\ clones \in Seq({{1}}) /\ << {1} >> \in Seq({{1}})
    <3>1. Len(self.kids[1]) \in Nat
      BY <1>1, KidsFacts
    <3>2. DOMAIN clones = 1 .. (IF 1 \in self.splits THEN Len(self.kids[1]) - 1 ELSE 0)
          /\ clones = [i \in DOMAIN clones |-> {1}]
      BY <2>1 DEF Clones
    <3>3. \E l \in Nat : clones \in [1 .. l -> {{1}}]
      <4>1. CASE 1 \in self.splits /\ Len(self.kids[1]) > 0
        <5>1. Len(self.kids[1]) - 1 \in Nat
          BY <3>1, <4>1
        <5>. QED
          BY <3>2, <4>1, <5>1
      <4>2. CASE ~(1 \in self.splits /\ Len(self.kids[1]) > 0)
        <5>1. DOMAIN clones = 1 .. 0
          BY <3>1, <3>2, <4>2
        <5>. QED
          BY <3>2, <5>1
      <4>. QED
        BY <4>1, <4>2
    <3>. QED
      BY <3>3
  <2>3. << {1} >> \o clones \in Seq({{1}})
    BY <2>2
  <2>4. flows \in Seq({{1}})
    BY <2>1, <2>3 DEF Init
  <2>. QED
    BY <2>4
<1>8. vs \in Seq(DOMAIN flows) /\ 1 \in DOMAIN flows
  <2>1. f \in Frame
    BY <1>1, <1>5 DEF TypeInv, TypeOK
  <2>. QED
    BY <1>4, <2>1 DEF Frame
<1>9. Has(self, {1}, Executed(self, In(1)))
  BY <1>1, RootFirst DEF Has
<1>10. CallHas(self, flows, stack, 1)
  <2>1. \A k \in DOMAIN vs : flows[vs[k]] = {1} /\ k \in Nat \ {0}
    BY <1>7, <1>8
  <2>2. \A k \in DOMAIN vs : k \notin Entered(self, f)
    BY <1>4, <2>1 DEF Entered
  <2>. QED
    BY <1>4, <1>5, <1>7, <1>8, <1>9, <2>1, <2>2 DEF CallHas
<1>11. Used = {}
  <2>. SUFFICES ASSUME NEW e \in Edges(self.kids), EdgeUsed(e) PROVE FALSE
    BY DEF Used
  <2>1. e[2] \in Nat \ {0}
    BY <1>1, EdgeFacts
  <2>. QED
    BY <1>4, <1>5, <1>6, <2>1 DEF EdgeUsed
<1>12. ASSUME NEW n \in DOMAIN points PROVE PointHas(self, tracker, points[n], UsedTo(n), n)
  <2>1. points[n].vclone = {} /\ ~points[n].done
    BY <1>6, <1>12 DEF JoinPoints, Absent
  <2>2. UsedTo(n) = {}
    BY <1>11 DEF UsedTo
  <2>. QED
    BY <2>1, <2>2 DEF PointHas
<1>13. ASSUME NEW n \in Node PROVE MetHas(self, tracker, met[n], n)
  BY <1>1, <1>6, RootFirst DEF MetHas
<1>14. met \in [Node -> Flow]
  BY <1>6 DEF Flow
<1>. QED
  BY <1>5, <1>10, <1>12, <1>13, <1>14 DEF FlowInv

LEMMA FlowStep ==
    TypeInv /\ StackInv /\ SeenInv /\ AllJoinInv /\ FlowInv /\ [Next]_vars => FlowInv'
<1>. SUFFICES ASSUME TypeInv, StackInv, SeenInv, AllJoinInv, FlowInv, [Next]_vars PROVE FlowInv'
  OBVIOUS
<1>1. ASSUME UNCHANGED <<self, points, tracker, flows, stack, met>> PROVE FlowInv'
  <2>1. \A m : UsedTo(m)' = UsedTo(m)
    BY <1>1 DEF UsedTo, Used, EdgeUsed
  <2>2. Node' = Node /\ Flow' = Flow
    BY <1>1 DEF Node, Flow
  <2>. QED
    BY <1>1, <2>1, <2>2 DEF FlowInv
<1>2. CASE VisitChild
  <2>1. Walking
    BY <1>2 DEF VisitChild
  <2>2. PICK c \in Caller : WaitAt(c) \/ Begin(c) \/ Revisit(c) \/ LoopFound(c)
    BY <1>2 DEF VisitChild
  <2>3. CASE LoopFound(c)
    BY <1>1, <2>3 DEF LoopFound, history
  <2>. QED
    BY <2>1, <2>2, <2>3, WaitFlow, BeginFlow, RevisitFlow
<1>3. CASE GiveUp
  BY <1>1, <1>3 DEF GiveUp, history
<1>4. CASE UNCHANGED vars
  BY <1>1, <1>4 DEF vars, history
<1>. QED
  BY <1>2, <1>3, <1>4, FinishFlow, ResumeFlow DEF Next

\* What the walk is to compute is what is before each node.
LEMMA BeforeOf ==
    ASSUME NEW w \in Walks, NEW n \in DOMAIN w.kids
    PROVE  BeforeIn(w)[n] = Before(w, n) \ {n}
BY DEF BeforeIn, Before, Back

(***************************************************************************)
(* No visitor comes to a node with what was not before it: for every IR    *)
(* without loops whose shared nodes are all join points, or are visited    *)
(* once, with and without the old behaviour, in every order in which the   *)
(* pending alternatives are visited.                                       *)
(***************************************************************************)
THEOREM OnlyTheorem == Spec => []OnlyWhatIsBefore
<1>1. TypeInv /\ FlowInv => OnlyWhatIsBefore
  <2>. SUFFICES ASSUME TypeInv, FlowInv, AllJoin(self) \/ self.visitDagOnce, NEW n \in Node
                PROVE  met[n] \ {n} \subseteq BeforeIn(self)[n]
    BY DEF OnlyWhatIsBefore
  <2>1. met[n] \subseteq Before(self, n)
    BY DEF FlowInv, MetHas, Once
  <2>2. BeforeIn(self)[n] = Before(self, n) \ {n}
    BY BeforeOf DEF TypeInv, Node
  <2>. QED
    BY <2>1, <2>2
<1>2. Init => AllJoinInv
  BY JoinInit DEF AllJoinInv
<1>. QED
  BY <1>1, <1>2, TypeInit, TypeStep, JoinStep, StackInit, StackStep, SeenInit, SeenStep,
     FlowInit, FlowStep, PTL DEF Spec

\* The walk is done when the call of the root returns.
DoneInv == status = "done" => stack = << >>

LEMMA DoneStep == DoneInv /\ [Next]_vars => DoneInv'
<1>. SUFFICES ASSUME DoneInv, [Next]_vars, status' = "done" PROVE stack' = << >>
  BY DEF DoneInv
<1>1. CASE Finish
  BY <1>1 DEF Finish, Walking
<1>2. ~VisitChild /\ ~Resume /\ ~GiveUp
  BY DEF VisitChild, WaitAt, Begin, Revisit, LoopFound, Resume, GiveUp, Walking
<1>3. CASE UNCHANGED vars
  BY <1>3 DEF vars, DoneInv
<1>. QED
  BY <1>1, <1>2, <1>3 DEF Next

(***************************************************************************)
(* Every node is visited, with all that may have been before it: for every *)
(* IR without loops whose shared nodes are all join points, the visitor    *)
(* that waits at them, in every order in which the pending alternatives    *)
(* are visited.                                                            *)
(***************************************************************************)
THEOREM AllTheorem == Spec => []AllThatIsBefore
<1>1. TypeInv /\ AllJoinInv /\ SeenInv /\ FlowInv /\ DoneInv => AllThatIsBefore
  <2>. SUFFICES ASSUME TypeInv, JoinInv, SeenInv, FlowInv, stack = << >>, AllJoin(self),
                       NEW n \in Node
                PROVE  times[n] > 0 /\ (~self.broken => BeforeIn(self)[n] \subseteq met[n])
    BY DEF AllThatIsBefore, AllJoinInv, DoneInv
  <2>1. n \in DOMAIN tracker
    <3>1. DOMAIN stack = {}
      OBVIOUS
    <3>. QED
      BY <3>1, Unreached
  <2>2. times[n] > 0
    BY <2>1 DEF JoinInv, VisitedLast
  <2>3. ~self.broken => Before(self, n) \subseteq met[n]
    BY <2>1 DEF FlowInv, MetHas, Full
  <2>4. BeforeIn(self)[n] = Before(self, n) \ {n}
    BY BeforeOf DEF TypeInv, Node
  <2>. QED
    BY <2>2, <2>3, <2>4
<1>2. Init => AllJoinInv /\ DoneInv
  BY JoinInit DEF AllJoinInv, DoneInv, Init
<1>. QED
  BY <1>1, <1>2, TypeInit, TypeStep, JoinStep, StackInit, StackStep, SeenInit, SeenStep,
     FlowInit, FlowStep, DoneStep, PTL DEF Spec
=============================================================================
