---------------------- MODULE TreeVisitorResults_proofs ----------------------
(* Theorems about what comes out of a walk, for every IR and every visitor. *)
EXTENDS TreeVisitorKept_proofs

(***************************************************************************)
(* In an IR without cycles the nodes can be numbered, and every node the   *)
(* walk makes can be given a number too, such that                         *)
(*   - a child comes after its parents,                                    *)
(*   - what a node became comes no earlier than the node,                  *)
(*   - so does what preorder returned, and the clone made of it, and       *)
(*   - an activation's node comes after the clones of those that called it.*)
(* So a child that is about to be visited comes after all nodes that are   *)
(* marked as being visited: it is none of them.                            *)
(***************************************************************************)
Ordered(h, rk) ==
    /\ rk \in [1 .. Len(h) -> Nat]
    /\ \A n \in 1 .. Len(h) : \A i \in 1 .. Len(h[n].kids) : rk[n] < rk[h[n].kids[i]]

ResultsAfter(v, rk) == \A n \in DOMAIN v : v[n].result # 0 => rk[n] <= rk[v[n].result]

Ascends(f, rk) == rk[f.node] <= rk[f.pre] /\ rk[f.pre] <= rk[f.copy]

CallsAfter(s, rk) ==
    /\ \A i \in 1 .. Len(s) : Ascends(s[i], rk)
    /\ \A i, j \in 1 .. Len(s) : i < j => rk[s[i].copy] < rk[s[j].node]

Ranked(h, v, s, rk) == Ordered(h, rk) /\ ResultsAfter(v, rk) /\ CallsAfter(s, rk)

LInv ==
    self.ir \in AcyclicIRs =>
        looped = {} /\ status # "bug" /\ \E rk : Ranked(heap, visited, stack, rk)

----------------------------------------------------------------------------
(* Nodes.                                                                  *)

\* The nodes a tracker and a stack refer to.
LEMMA Referred ==
    ASSUME NEW h, NEW v, NEW s, Private(h, v, s)
    PROVE  /\ Len(h) \in Nat
           /\ \A n \in DOMAIN v : n \in 1 .. Len(h) /\ v[n].result \in 0 .. Len(h)
           /\ \A i \in 1 .. Len(s) : /\ s[i].node \in 1 .. Len(h) /\ s[i].pre \in 1 .. Len(h)
                                     /\ s[i].copy \in 1 .. Len(h)
<1>1. Len(h) \in Nat
  BY NodeFacts DEF Private
<1>2. \A n \in DOMAIN v : n \in 1 .. Len(h) /\ v[n].result \in 0 .. Len(h)
  BY NoClones
<1>3. ASSUME NEW i \in 1 .. Len(s)
      PROVE  s[i].node \in 1 .. Len(h) /\ s[i].pre \in 1 .. Len(h) /\ s[i].copy \in 1 .. Len(h)
  <2>1. s[i] \in Frames(Len(h))
    BY DEF Private, Fits
  <2>. QED
    BY <2>1 DEF Frames
<1>. QED
  BY <1>1, <1>2, <1>3

\* A result that is not null is a node.
LEMMA NotNull ==
    ASSUME NEW k \in Nat, NEW r \in 0 .. k, r # 0
    PROVE  r \in 1 .. k
OBVIOUS

\* A numbering for one more node.
Numbered(k, rk, c) == [m \in 1 .. k + 1 |-> IF m = k + 1 THEN c ELSE rk[m]]

LEMMA NumberedFacts ==
    ASSUME NEW k \in Nat, NEW rk \in [1 .. k -> Nat], NEW c \in Nat
    PROVE  /\ Numbered(k, rk, c) \in [1 .. k + 1 -> Nat]
           /\ Numbered(k, rk, c)[k + 1] = c
           /\ \A m \in 1 .. k : Numbered(k, rk, c)[m] = rk[m]
<1>1. k + 1 \in 1 .. k + 1 /\ \A m \in 1 .. k : m \in 1 .. k + 1 /\ m # k + 1
  OBVIOUS
<1>2. \A m \in 1 .. k + 1 : m # k + 1 => m \in 1 .. k
  OBVIOUS
<1>. QED
  BY <1>1, <1>2 DEF Numbered

\* The tracker and the stack only look at numbers of nodes they know.
LEMMA SameNumbers ==
    ASSUME NEW h, NEW v, NEW s, Private(h, v, s), NEW rk, NEW r2,
           \A m \in 1 .. Len(h) : r2[m] = rk[m]
    PROVE  /\ ResultsAfter(v, rk) => ResultsAfter(v, r2)
           /\ CallsAfter(s, rk) => CallsAfter(s, r2)
<1>1. ASSUME ResultsAfter(v, rk), NEW n \in DOMAIN v, v[n].result # 0
      PROVE  r2[n] <= r2[v[n].result]
  <2>1. n \in 1 .. Len(h) /\ v[n].result \in 1 .. Len(h)
    <3>1. Len(h) \in Nat /\ n \in 1 .. Len(h) /\ v[n].result \in 0 .. Len(h)
      BY Referred
    <3>. QED
      BY <1>1, <3>1
  <2>2. rk[n] <= rk[v[n].result]
    BY <1>1 DEF ResultsAfter
  <2>. QED
    BY <2>1, <2>2
<1>2. ASSUME CallsAfter(s, rk) PROVE CallsAfter(s, r2)
  <2>1. \A i \in 1 .. Len(s) :
          r2[s[i].node] = rk[s[i].node] /\ r2[s[i].pre] = rk[s[i].pre] /\ r2[s[i].copy] = rk[s[i].copy]
    BY Referred
  <2>2. \A i \in 1 .. Len(s) : Ascends(s[i], r2)
    BY <1>2, <2>1 DEF CallsAfter, Ascends
  <2>3. \A i, j \in 1 .. Len(s) : i < j => r2[s[i].copy] < r2[s[j].node]
    BY <1>2, <2>1 DEF CallsAfter
  <2>. QED
    BY <2>2, <2>3 DEF CallsAfter
<1>. QED
  BY <1>1, <1>2 DEF ResultsAfter

\* A heap g with one more node x, and a number c for it.
OneMore(h, g, x) ==
    /\ x \in Nodes(Len(h)) /\ Len(g) = Len(h) + 1 /\ g[Len(h) + 1] = x
    /\ \A m \in 1 .. Len(h) : g[m] = h[m]

Before(c, x, rk) == c \in Nat /\ \A i \in 1 .. Len(x.kids) : c < rk[x.kids[i]]

Extends(r2, k, rk, c) == r2[k + 1] = c /\ \A m \in 1 .. k : r2[m] = rk[m]

\* A node is made, before all of its children.
LEMMA NodeRanked ==
    ASSUME NEW h, NEW v, NEW s, Private(h, v, s), NEW rk, Ranked(h, v, s, rk),
           NEW g, NEW x, OneMore(h, g, x), NEW c, Before(c, x, rk)
    PROVE  \E r2 : Ranked(g, v, s, r2) /\ Extends(r2, Len(h), rk, c)
<1>1. PICK k : k = Len(h)
  OBVIOUS
<1>2. /\ x \in Nodes(k) /\ Len(g) = k + 1 /\ g[k + 1] = x /\ \A m \in 1 .. k : g[m] = h[m]
      /\ c \in Nat /\ \A i \in 1 .. Len(x.kids) : c < rk[x.kids[i]]
  BY <1>1 DEF OneMore, Before
<1>3. k \in Nat /\ rk \in [1 .. k -> Nat]
  <2>1. Len(h) \in Nat
    BY Referred
  <2>2. rk \in [1 .. Len(h) -> Nat]
    BY DEF Ranked, Ordered
  <2>. QED
    BY <1>1, <2>1, <2>2
<1>4. PICK r2 : r2 = Numbered(k, rk, c)
  OBVIOUS
<1>5. /\ r2 \in [1 .. k + 1 -> Nat] /\ r2[k + 1] = c
      /\ \A m \in 1 .. k : r2[m] = rk[m]
  <2>1. /\ Numbered(k, rk, c) \in [1 .. k + 1 -> Nat]
        /\ Numbered(k, rk, c)[k + 1] = c
        /\ \A m \in 1 .. k : Numbered(k, rk, c)[m] = rk[m]
    BY <1>2, <1>3, NumberedFacts
  <2>. QED
    BY <1>4, <2>1
<1>6. ASSUME NEW y \in Nodes(k), NEW i \in 1 .. Len(y.kids)
      PROVE  y.kids[i] \in 1 .. k
  <2>1. y.kids \in Seq(1 .. k)
    BY DEF Nodes
  <2>. QED
    BY <2>1, ElementOfSeq
<1>7. ASSUME NEW n \in 1 .. k + 1, NEW i \in 1 .. Len(g[n].kids)
      PROVE  r2[n] < r2[g[n].kids[i]]
  <2>1. CASE n = k + 1
    <3>1. g[n] = x
      BY <1>2, <2>1
    <3>2. i \in 1 .. Len(x.kids)
      BY <1>7, <3>1
    <3>3. x.kids[i] \in 1 .. k
      BY <1>2, <1>6, <3>2
    <3>4. r2[x.kids[i]] = rk[x.kids[i]]
      BY <1>5, <3>3
    <3>. QED
      BY <1>2, <1>5, <2>1, <3>1, <3>2, <3>4
  <2>2. CASE n # k + 1
    <3>1. n \in 1 .. k
      BY <1>3, <2>2
    <3>2. g[n] = h[n] /\ h[n] \in Nodes(k)
      BY <1>1, <1>2, <3>1, NodeFacts DEF Private
    <3>3. i \in 1 .. Len(h[n].kids) /\ h[n].kids[i] \in 1 .. k
      BY <1>6, <1>7, <3>2
    <3>4. rk[n] < rk[h[n].kids[i]]
      BY <1>1, <3>1, <3>3 DEF Ranked, Ordered
    <3>. QED
      BY <1>5, <3>1, <3>2, <3>3, <3>4
  <2>. QED
    BY <2>1, <2>2
<1>8. Ordered(g, r2)
  BY <1>2, <1>5, <1>7 DEF Ordered
<1>9. ResultsAfter(v, r2) /\ CallsAfter(s, r2)
  <2>1. \A m \in 1 .. Len(h) : r2[m] = rk[m]
    BY <1>1, <1>5
  <2>2. ResultsAfter(v, rk) /\ CallsAfter(s, rk)
    BY DEF Ranked
  <2>. QED
    BY <2>1, <2>2, SameNumbers
<1>10. Ranked(g, v, s, r2)
  BY <1>8, <1>9 DEF Ranked
<1>11. Extends(r2, Len(h), rk, c)
  BY <1>1, <1>5 DEF Extends
<1>. QED
  BY <1>10, <1>11

\* A clone is changed, and still comes before its children.
LEMMA CloneRanked ==
    ASSUME NEW h, NEW rk, Ordered(h, rk), NEW c,
           NEW x, \A i \in 1 .. Len(x.kids) : rk[c] < rk[x.kids[i]],
           NEW g, Len(g) = Len(h), \A m \in 1 .. Len(h) : g[m] = IF m = c THEN x ELSE h[m]
    PROVE  Ordered(g, rk)
<1>1. ASSUME NEW n \in 1 .. Len(h), NEW i \in 1 .. Len(g[n].kids)
      PROVE  rk[n] < rk[g[n].kids[i]]
  <2>1. CASE n = c
    <3>1. g[n] = x
      BY <2>1
    <3>. QED
      BY <1>1, <2>1, <3>1
  <2>2. CASE n # c
    <3>1. g[n] = h[n]
      BY <2>2
    <3>. QED
      BY <1>1, <3>1 DEF Ordered
  <2>. QED
    BY <2>1, <2>2
<1>. QED
  BY <1>1 DEF Ordered

\* A child of a node comes after it.
LEMMA NamedAfter ==
    ASSUME NEW h, NEW rk, Ordered(h, rk), NEW n \in 1 .. Len(h), NEW d, Names(h[n].kids, d)
    PROVE  rk[n] < rk[d]
BY DEF Ordered, Names

----------------------------------------------------------------------------
(* The tracker.                                                            *)

\* An entry is written.
LEMMA EntryRanked ==
    ASSUME NEW v, NEW rk, ResultsAfter(v, rk), NEW n, NEW e,
           e.result = 0 \/ rk[n] <= rk[e.result],
           NEW w, w = With(v, n, e)
    PROVE  ResultsAfter(w, rk)
<1>1. /\ DOMAIN w = DOMAIN v \union {n} /\ w[n] = e
      /\ \A x \in DOMAIN v : x # n => w[x] = v[x]
  BY DEF With
<1>2. ASSUME NEW m \in DOMAIN w, w[m].result # 0
      PROVE  rk[m] <= rk[w[m].result]
  <2>1. CASE m = n
    BY <1>1, <1>2, <2>1
  <2>2. CASE m # n
    <3>1. m \in DOMAIN v /\ w[m] = v[m]
      BY <1>1, <2>2
    <3>. QED
      BY <1>2, <3>1 DEF ResultsAfter
  <2>. QED
    BY <2>1, <2>2
<1>. QED
  BY <1>2 DEF ResultsAfter

\* The results that are written.
LEMMA InfoResult ==
    ASSUME NEW b, NEW o, NEW r
    PROVE  Info(b, o, r).result = r
BY DEF Info

\* try_start.
LEMMA StartedRanked ==
    ASSUME NEW v, NEW rk, ResultsAfter(v, rk), NEW n, rk[n] \in Nat, NEW o
    PROVE  ResultsAfter(Started(v, n, o), rk)
<1>1. PICK b, o2, r : /\ Started(v, n, o) = With(v, n, Info(b, o2, r))
                      /\ r = 0 \/ rk[n] <= rk[r]
  <2>1. CASE Known(v, n)
    <3>1. Started(v, n, o) = With(v, n, Info(TRUE, v[n].once, v[n].result))
      BY <2>1 DEF Started
    <3>2. v[n].result = 0 \/ rk[n] <= rk[v[n].result]
      BY <2>1 DEF Known, ResultsAfter
    <3>. QED
      BY <3>1, <3>2
  <2>2. CASE ~Known(v, n)
    <3>1. Started(v, n, o) = With(v, n, Info(TRUE, o, n))
      BY <2>2 DEF Started
    <3>2. rk[n] <= rk[n]
      OBVIOUS
    <3>. QED
      BY <3>1, <3>2
  <2>. QED
    BY <2>1, <2>2
<1>2. PICK e, w : e = Info(b, o2, r) /\ w = With(v, n, e)
  OBVIOUS
<1>3. e.result = r
  BY <1>2, InfoResult
<1>4. ResultsAfter(w, rk)
  BY <1>1, <1>2, <1>3, EntryRanked
<1>. QED
  BY <1>1, <1>2, <1>4

\* visitAgain().
LEMMA AgainRanked ==
    ASSUME NEW v, NEW rk, ResultsAfter(v, rk), NEW n \in DOMAIN v
    PROVE  ResultsAfter(MarkedAgain(v, n), rk)
<1>1. CASE heap[n].label \in Again
  <2>1. PICK e, w, b, r :
          r = v[n].result /\ b = v[n].busy /\ e = Info(b, FALSE, r) /\ w = With(v, n, e)
    OBVIOUS
  <2>5. Info(b, FALSE, r).result = r
    BY InfoResult
  <2>2. e.result = r
    BY <2>1, <2>5
  <2>3. r = 0 \/ rk[n] <= rk[r]
    <3>1. v[n].result # 0 => rk[n] <= rk[v[n].result]
      BY DEF ResultsAfter
    <3>. QED
      BY <2>1, <3>1
  <2>4. ResultsAfter(w, rk)
    BY <2>1, <2>2, <2>3, EntryRanked
  <2>. QED
    BY <1>1, <2>1, <2>4 DEF MarkedAgain
<1>2. CASE heap[n].label \notin Again
  BY <1>2 DEF MarkedAgain
<1>. QED
  BY <1>1, <1>2

\* finish.
LEMMA FinishedRanked ==
    ASSUME NEW v, NEW rk, ResultsAfter(v, rk), NEW n \in DOMAIN v, NEW h, NEW final,
           final = 0 \/ (rk[n] <= rk[final] /\ rk[final] \in Nat)
    PROVE  ResultsAfter(Finished(v, h, n, final), rk)
<1>1. PICK o : o = v[n].once
  OBVIOUS
<1>2. PICK r : /\ Marked(v, h, n, final) = With(v, n, Info(FALSE, o, r))
               /\ r = 0 \/ rk[n] <= rk[r]
  <2>1. v[n].result = 0 \/ rk[n] <= rk[v[n].result]
    BY DEF ResultsAfter
  <2>. QED
    BY <1>1, <2>1 DEF Marked
<1>3. PICK e, m : e = Info(FALSE, o, r) /\ m = With(v, n, e)
  OBVIOUS
<1>4. ResultsAfter(m, rk) /\ m = Marked(v, h, n, final)
  <2>1. e.result = r
    BY <1>3, InfoResult
  <2>2. ResultsAfter(m, rk)
    BY <1>2, <1>3, <2>1, EntryRanked
  <2>. QED
    BY <1>2, <1>3, <2>2
<1>5. CASE final # Null /\ Replaces(h, n, final) /\ ~Known(m, final)
  <2>1. Finished(v, h, n, final) = With(m, final, Info(FALSE, o, final))
    BY <1>1, <1>4, <1>5 DEF Finished, Emplaced
  <2>2. PICK e2, w : e2 = Info(FALSE, o, final) /\ w = With(m, final, e2)
    OBVIOUS
  <2>3. e2.result = final
    BY <2>2, InfoResult
  <2>6. rk[final] \in Nat
    <3>1. final # 0
      BY <1>5 DEF Null
    <3>. QED
      BY <3>1
  <2>4. rk[final] <= rk[final]
    BY <2>6
  <2>5. ResultsAfter(w, rk)
    BY <1>4, <2>2, <2>3, <2>4, EntryRanked
  <2>. QED
    BY <2>1, <2>2, <2>5
<1>6. CASE ~(final # Null /\ Replaces(h, n, final) /\ ~Known(m, final))
  <2>1. Finished(v, h, n, final) = m
    BY <1>4, <1>6 DEF Finished, Emplaced
  <2>. QED
    BY <1>4, <2>1
<1>. QED
  BY <1>5, <1>6

----------------------------------------------------------------------------
(* Activations.                                                            *)

\* The innermost one is left.
LEMMA PoppedRanked ==
    ASSUME NEW s, IsSeq(s), s # << >>, NEW rk, CallsAfter(s, rk)
    PROVE  CallsAfter(Front(s), rk)
<1>1. PICK t : t = Front(s)
  OBVIOUS
<1>2. Len(s) \in Nat \ {0} /\ Len(t) = Len(s) - 1 /\ \A i \in 1 .. Len(s) - 1 : t[i] = s[i]
  BY <1>1, FrontFacts
<1>3. \A i \in 1 .. Len(t) : i \in 1 .. Len(s) /\ t[i] = s[i]
  BY <1>2
<1>4. CallsAfter(t, rk)
  BY <1>3 DEF CallsAfter
<1>. QED
  BY <1>1, <1>4

\* One more: its node comes after the clone that has it as a child.
LEMMA PushedRanked ==
    ASSUME NEW s, IsSeq(s), NEW rk, CallsAfter(s, rk), NEW f, Ascends(f, rk),
           \A i \in 1 .. Len(s) : rk[s[i].copy] < rk[f.node]
    PROVE  CallsAfter(Append(s, f), rk)
<1>1. PICK t : t = Append(s, f)
  OBVIOUS
<1>2. /\ Len(s) \in Nat /\ Len(t) = Len(s) + 1 /\ t[Len(s) + 1] = f
      /\ \A i \in 1 .. Len(s) : t[i] = s[i]
  BY <1>1, AppendFacts
<1>3. \A i \in 1 .. Len(t) : i \in 1 .. Len(s) \/ i = Len(s) + 1
  BY <1>2
<1>4. \A i \in 1 .. Len(t) : Ascends(t[i], rk)
  BY <1>2, <1>3 DEF CallsAfter
<1>5. ASSUME NEW i \in 1 .. Len(t), NEW j \in 1 .. Len(t), i < j
      PROVE  rk[t[i].copy] < rk[t[j].node]
  <2>1. i \in 1 .. Len(s) /\ t[i] = s[i]
    BY <1>2, <1>5
  <2>2. CASE j \in 1 .. Len(s)
    BY <1>2, <1>5, <2>1, <2>2 DEF CallsAfter
  <2>3. CASE j = Len(s) + 1
    BY <1>2, <2>1, <2>3
  <2>. QED
    BY <1>3, <2>2, <2>3
<1>. QED
  BY <1>1, <1>4, <1>5 DEF CallsAfter

\* All clones come no later than the innermost.
LEMMA ClonesBelow ==
    ASSUME NEW h, NEW v, NEW s, Private(h, v, s), s # << >>, NEW rk, Ranked(h, v, s, rk)
    PROVE  /\ Len(s) \in 1 .. Len(s)
           /\ \A i \in 1 .. Len(s) : /\ rk[s[i].node] \in Nat /\ rk[s[i].pre] \in Nat
                                     /\ rk[s[i].copy] \in Nat
                                     /\ rk[s[i].node] <= rk[s[i].copy]
                                     /\ rk[s[i].copy] <= rk[s[Len(s)].copy]
<1>1. Len(s) \in Nat \ {0} /\ Len(s) \in 1 .. Len(s)
  BY FrontFacts DEF Private
<1>2. rk \in [1 .. Len(h) -> Nat] /\ CallsAfter(s, rk)
  BY DEF Ranked, Ordered
<1>3. ASSUME NEW i \in 1 .. Len(s)
      PROVE  rk[s[i].node] \in Nat /\ rk[s[i].pre] \in Nat /\ rk[s[i].copy] \in Nat
  <2>1. s[i].node \in 1 .. Len(h) /\ s[i].pre \in 1 .. Len(h) /\ s[i].copy \in 1 .. Len(h)
    BY Referred
  <2>. QED
    BY <1>2, <2>1
<1>4. ASSUME NEW i \in 1 .. Len(s) PROVE rk[s[i].node] <= rk[s[i].copy]
  <2>1. rk[s[i].node] <= rk[s[i].pre] /\ rk[s[i].pre] <= rk[s[i].copy]
    BY <1>2 DEF CallsAfter, Ascends
  <2>. QED
    BY <1>3, <2>1
<1>5. ASSUME NEW i \in 1 .. Len(s) PROVE rk[s[i].copy] <= rk[s[Len(s)].copy]
  <2>1. CASE i = Len(s)
    BY <1>3, <2>1
  <2>2. CASE i # Len(s)
    <3>1. i < Len(s)
      BY <1>1, <2>2
    <3>2. rk[s[i].copy] < rk[s[Len(s)].node]
      BY <1>1, <1>2, <3>1 DEF CallsAfter
    <3>3. rk[s[Len(s)].node] <= rk[s[Len(s)].copy]
      BY <1>1, <1>4
    <3>. QED
      BY <1>1, <1>3, <3>2, <3>3
  <2>. QED
    BY <2>1, <2>2
<1>. QED
  BY <1>1, <1>3, <1>4, <1>5

\* The innermost goes on.
LEMMA TopRanked ==
    ASSUME NEW s, IsSeq(s), s # << >>, NEW rk, CallsAfter(s, rk), NEW f, Ascends(f, rk),
           f.node = s[Len(s)].node
    PROVE  CallsAfter(Append(Front(s), f), rk)
<1>1. PICK t : t = Front(s)
  OBVIOUS
<1>2. /\ IsSeq(t) /\ Len(s) \in Nat \ {0} /\ Len(t) = Len(s) - 1
      /\ \A i \in 1 .. Len(s) - 1 : t[i] = s[i]
  BY <1>1, FrontFacts
<1>3. CallsAfter(t, rk)
  BY <1>1, PoppedRanked
<1>4. ASSUME NEW i \in 1 .. Len(t) PROVE rk[t[i].copy] < rk[f.node]
  <2>1. i \in 1 .. Len(s) /\ Len(s) \in 1 .. Len(s) /\ i < Len(s) /\ t[i] = s[i]
    BY <1>2
  <2>2. rk[s[i].copy] < rk[s[Len(s)].node]
    BY <2>1 DEF CallsAfter
  <2>. QED
    BY <2>1, <2>2
<1>5. CallsAfter(Append(t, f), rk)
  BY <1>2, <1>3, <1>4, PushedRanked
<1>. QED
  BY <1>1, <1>5

\* The caller puts back what became of its child, and goes on.
LEMMA PutBackRanked ==
    ASSUME NEW h, NEW v, NEW s, Private(h, v, s), s # << >>, NEW rk, Ranked(h, v, s, rk),
           NEW m, m = s[Len(s)], m.at \in 1 .. Len(h[m.copy].kids),
           NEW r, r \in 0 .. Len(h), r = 0 \/ rk[h[m.copy].kids[m.at]] <= rk[r],
           NEW g, g = PutBack(h, m, r), NEW a, a = Advanced(m, r)
    PROVE  Ranked(g, v, Append(Front(s), a), rk)
<1>1. PICK c, k : c = m.copy /\ k = Len(h)
  OBVIOUS
<1>2. /\ IsSeq(s) /\ HeapOK(h) /\ k \in Nat /\ m \in Frames(k) /\ c \in 1 .. k
      /\ rk \in [1 .. k -> Nat] /\ Ordered(h, rk) /\ ResultsAfter(v, rk) /\ CallsAfter(s, rk)
  <2>1. Len(s) \in 1 .. Len(s)
    BY FrontFacts DEF Private
  <2>2. m \in Frames(k)
    BY <1>1, <2>1 DEF Private, Fits
  <2>3. k \in Nat
    BY <1>1, Referred
  <2>. QED
    BY <1>1, <2>2, <2>3 DEF Private, Ranked, Ordered, Frames
<1>3. PICK K : K = IF r = Null THEN RemoveAt(h[c].kids, m.at) ELSE ReplaceAt(h[c].kids, m.at, r)
  OBVIOUS
<1>4. PICK x : x = [h[c] EXCEPT !.kids = K]
  OBVIOUS
<1>5. /\ h[c] \in Nodes(k) /\ h[c].kids \in Seq(1 .. k) /\ m.at \in 1 .. Len(h[c].kids)
      /\ h[c].kids[m.at] \in 1 .. k
  BY <1>1, <1>2, NodeFacts
<1>6. \A d : Names(K, d) => Names(h[c].kids, d) \/ (r # 0 /\ d = r)
  <2>1. PICK Q, i : Q = h[c].kids /\ i = m.at
    OBVIOUS
  <2>2. PICK Q0, Q1 : Q0 = RemoveAt(Q, i) /\ Q1 = ReplaceAt(Q, i, r)
    OBVIOUS
  <2>3. /\ \A d : Names(Q0, d) => Names(Q, d)
        /\ \A d : Names(Q1, d) => Names(Q, d) \/ d = r
    <3>1. Q \in Seq(1 .. k) /\ i \in 1 .. Len(Q)
      BY <1>5, <2>1
    <3>2. /\ \A d : Names(RemoveAt(Q, i), d) => Names(Q, d)
          /\ \A d : Names(ReplaceAt(Q, i, r), d) => Names(Q, d) \/ d = r
      BY <3>1, KidsPutBack
    <3>. QED
      BY <2>2, <3>2
  <2>4. (r = Null => K = Q0) /\ (r # Null => K = Q1)
    BY <1>3, <2>1, <2>2
  <2>5. CASE r = Null
    BY <2>1, <2>3, <2>5, <2>4
  <2>6. CASE r # Null
    BY <2>1, <2>3, <2>6, <2>4 DEF Null
  <2>. QED
    BY <2>5, <2>6
<1>7. x \in Nodes(k) /\ x.kids = K /\ g = [h EXCEPT ![c] = x]
  <2>1. r # Null => r \in 1 .. k
    <3>1. r \in 0 .. k
      BY <1>1
    <3>. QED
      BY <1>2, <3>1, NotNull, Zenon DEF Null
  <2>2. K \in Seq(1 .. k)
    <3>1. PICK Q, i : Q = h[c].kids /\ i = m.at
      OBVIOUS
    <3>2. RemoveAt(Q, i) \in Seq(1 .. k) /\ (r \in 1 .. k => ReplaceAt(Q, i, r) \in Seq(1 .. k))
      <4>1. Q \in Seq(1 .. k) /\ i \in 1 .. Len(Q)
        BY <1>5, <3>1
      <4>. QED
        BY <4>1, KidsPutBack
    <3>3. K = IF r = Null THEN RemoveAt(Q, i) ELSE ReplaceAt(Q, i, r)
      BY <1>3, <3>1
    <3>. QED
      BY <2>1, <3>2, <3>3
  <2>3. x \in Nodes(k) /\ x.kids = K
    BY <1>4, <1>5, <2>2 DEF Nodes
  <2>4. g = [h EXCEPT ![c] = x]
    BY <1>1, <1>2, <1>3, <1>4 DEF PutBack
  <2>. QED
    BY <2>3, <2>4
<1>8. Len(g) = k /\ \A n \in 1 .. k : g[n] = IF n = c THEN x ELSE h[n]
  <2>1. h \in Seq(Nodes(k))
    BY <1>1, <1>2 DEF HeapOK
  <2>2. x \in Nodes(k) /\ c \in 1 .. Len(h)
    BY <1>1, <1>2, <1>7
  <2>3. /\ Len([h EXCEPT ![c] = x]) = Len(h)
        /\ \A n \in 1 .. Len(h) : [h EXCEPT ![c] = x][n] = IF n = c THEN x ELSE h[n]
    BY <2>1, <2>2, ExceptSeq
  <2>. QED
    BY <1>1, <1>7, <2>3
<1>9. \A i \in 1 .. Len(x.kids) : rk[c] < rk[x.kids[i]]
  <2>1. \A d : Names(h[c].kids, d) => rk[c] < rk[d]
    BY <1>1, <1>2, NamedAfter
  <2>2. ASSUME r # 0 PROVE rk[c] < rk[r]
    <3>1. PICK d : d = h[c].kids[m.at]
      OBVIOUS
    <3>2. rk[c] < rk[d]
      <4>1. Names(h[c].kids, d)
        BY <1>5, <3>1 DEF Names
      <4>. QED
        BY <2>1, <4>1
    <3>3. rk[d] <= rk[r]
      BY <1>1, <2>2, <3>1
    <3>4. r \in 1 .. k
      <4>1. r \in 0 .. k
        BY <1>1
      <4>. QED
        BY <1>2, <2>2, <4>1, NotNull, Zenon
    <3>5. PICK x1, x2, x3 \in Nat : x1 = rk[c] /\ x2 = rk[d] /\ x3 = rk[r]
      BY <1>2, <1>5, <3>1, <3>4
    <3>6. x1 < x3
      BY <3>2, <3>3, <3>5
    <3>. QED
      BY <3>5, <3>6
  <2>3. ASSUME NEW i \in 1 .. Len(x.kids) PROVE Names(K, x.kids[i])
    BY <1>7, <2>3 DEF Names
  <2>4. ASSUME NEW d, Names(K, d) PROVE rk[c] < rk[d]
    <3>1. Names(h[c].kids, d) \/ (r # 0 /\ d = r)
      BY <1>6, <2>4
    <3>. QED
      BY <2>1, <2>2, <3>1
  <2>. QED
    BY <2>3, <2>4
<1>10. Ordered(g, rk)
  <2>1. Len(g) = Len(h) /\ \A n \in 1 .. Len(h) : g[n] = IF n = c THEN x ELSE h[n]
    BY <1>1, <1>8
  <2>2. Ordered(h, rk)
    BY <1>2
  <2>. QED
    BY <1>9, <2>1, <2>2, CloneRanked
<1>11. CallsAfter(Append(Front(s), a), rk)
  <2>1. a.node = m.node /\ a.pre = m.pre /\ a.copy = m.copy
    BY <1>2 DEF Advanced, Frames
  <2>2. Len(s) \in 1 .. Len(s)
    BY FrontFacts DEF Private
  <2>3. Ascends(m, rk)
    BY <1>2, <2>2 DEF CallsAfter
  <2>4. Ascends(a, rk)
    BY <2>1, <2>3 DEF Ascends
  <2>. QED
    BY <1>2, <2>1, <2>4, TopRanked
<1>. QED
  BY <1>2, <1>10, <1>11 DEF Ranked

\* finish, for an activation that is left: what remains is no earlier than its node.
LEMMA LeftRanked ==
    ASSUME NEW h, NEW v, NEW below, NEW f, IsSeq(below), NEW t, t = Append(below, f),
           Private(h, v, t), NEW rk, Ranked(h, v, t, rk), NEW final, final \in 0 .. Len(h),
           final = 0 \/ rk[f.pre] <= rk[final]
    PROVE  /\ Ranked(h, FinishedExtra(Finished(v, h, f.node, final), h, f, final), below, rk)
           /\ rk[f.node] <= rk[f.node] /\ (final = 0 \/ rk[f.node] <= rk[final])
<1>1. /\ t # << >> /\ Front(t) = below /\ t[Len(t)] = f /\ IsSeq(t)
  BY AppendFacts, FrontAppend
<1>2. /\ Len(t) \in 1 .. Len(t) /\ Fits(h, v, f) /\ Ascends(f, rk)
      /\ f.node \in DOMAIN v /\ (f.extra => f.pre \in DOMAIN v)
      /\ f.node \in 1 .. Len(h) /\ f.pre \in 1 .. Len(h)
  <2>1. Len(t) \in 1 .. Len(t)
    BY <1>1, FrontFacts
  <2>2. Fits(h, v, f)
    BY <1>1, <2>1 DEF Private
  <2>3. Ascends(f, rk)
    BY <1>1, <2>1 DEF Ranked, CallsAfter
  <2>. QED
    BY <2>1, <2>2, <2>3 DEF Fits, Frames
<1>3. /\ rk \in [1 .. Len(h) -> Nat] /\ Ordered(h, rk) /\ ResultsAfter(v, rk)
      /\ CallsAfter(below, rk) /\ Len(h) \in Nat
  <2>1. CallsAfter(below, rk)
    BY <1>1, PoppedRanked DEF Ranked
  <2>2. Len(h) \in Nat
    BY Referred
  <2>. QED
    BY <2>1, <2>2 DEF Ranked, Ordered
<1>4. /\ rk[f.node] \in Nat /\ rk[f.node] <= rk[f.node]
      /\ final = 0 \/ (rk[f.node] <= rk[final] /\ rk[final] \in Nat)
  <2>1. rk[f.node] \in Nat /\ rk[f.pre] \in Nat /\ rk[f.node] <= rk[f.pre]
    BY <1>2, <1>3 DEF Ascends
  <2>2. ASSUME final # 0 PROVE rk[f.node] <= rk[final] /\ rk[final] \in Nat
    <3>1. final \in 1 .. Len(h)
      BY <1>3, <2>2
    <3>2. rk[final] \in Nat /\ rk[f.pre] <= rk[final]
      BY <1>3, <2>2, <3>1
    <3>. QED
      BY <2>1, <3>2
  <2>. QED
    BY <2>1, <2>2
<1>5. PICK n, p, w : n = f.node /\ p = f.pre /\ w = Finished(v, h, n, final)
  OBVIOUS
<1>6. ResultsAfter(w, rk)
  BY <1>2, <1>3, <1>4, <1>5, FinishedRanked
<1>7. ResultsAfter(FinishedExtra(w, h, f, final), rk)
  <2>1. CASE f.extra
    <3>1. p \in DOMAIN w
      <4>1. p \in DOMAIN v
        BY <1>2, <1>5, <2>1
      <4>. QED
        BY <1>5, <4>1, FinishedDomain
    <3>2. final = 0 \/ (rk[p] <= rk[final] /\ rk[final] \in Nat)
      BY <1>4, <1>5
    <3>3. ResultsAfter(Finished(w, h, p, final), rk)
      BY <1>6, <3>1, <3>2, FinishedRanked
    <3>. QED
      BY <1>5, <2>1, <3>3 DEF FinishedExtra
  <2>2. CASE ~f.extra
    BY <1>6, <2>2 DEF FinishedExtra
  <2>. QED
    BY <2>1, <2>2
<1>. QED
  BY <1>3, <1>4, <1>5, <1>7 DEF Ranked

----------------------------------------------------------------------------
(* Steps.                                                                  *)

\* The visit of f ends.
LEMMA ReturnRanked ==
    ASSUME TInv, status = "run", NEW f, NEW h, NEW v, NEW t, t = Append(Front(stack), f),
           Private(h, v, t), NEW rk, Ranked(h, v, t, rk),
           NEW final0, final0 \in 0 .. Len(h), final0 = f.copy \/ ~Clone(t, final0),
           final0 = 0 \/ rk[f.pre] <= rk[final0],
           Return(f, h, v, final0)
    PROVE  Ranked(heap', visited', stack', rk)
<1>1. PICK below : below = Front(stack)
  OBVIOUS
<1>2. IsSeq(below) /\ t = Append(below, f)
  BY <1>1, TopFits, FrontFacts DEF TInv, Private
<1>3. PICK final : final = IF final0 = f.copy /\ h[final0] = h[f.pre] THEN f.pre ELSE final0
  OBVIOUS
<1>4. PICK r : r = IF Changes(v, h, f.node, final) THEN final ELSE f.node
  OBVIOUS
<1>5. PICK w : w = FinishedExtra(Finished(v, h, f.node, final), h, f, final)
  OBVIOUS
<1>6. /\ visited' = w
      /\ below = << >> => stack' = << >> /\ heap' = h
      /\ below # << >> =>
            /\ heap' = PutBack(h, Last(below), r)
            /\ stack' = Append(Front(below), Advanced(Last(below), r))
  BY <1>1, <1>3, <1>4, <1>5 DEF Return
<1>7. /\ final \in 0 .. Len(h) /\ f.node \in 1 .. Len(h)
      /\ Private(h, w, below)
      /\ below # << >> => Waits(h, below[Len(below)], f.node)
  <2>1. final = final0 \/ final = f.pre
    BY <1>3
  <2>. QED
    BY <1>2, <1>5, <2>1, LeftPrivate
<1>8. final = 0 \/ rk[f.pre] <= rk[final]
  <2>1. rk[f.pre] \in Nat
    <3>1. t # << >> /\ t[Len(t)] = f
      BY <1>2, AppendFacts
    <3>2. Len(t) \in 1 .. Len(t) /\ rk[t[Len(t)].pre] \in Nat
      BY <3>1, ClonesBelow
    <3>. QED
      BY <3>1, <3>2
  <2>. QED
    BY <1>3, <2>1
<1>9. Ranked(h, w, below, rk) /\ (r = 0 \/ rk[f.node] <= rk[r])
  <2>1. /\ Ranked(h, w, below, rk)
        /\ rk[f.node] <= rk[f.node] /\ (final = 0 \/ rk[f.node] <= rk[final])
    BY <1>2, <1>5, <1>7, <1>8, LeftRanked
  <2>. QED
    BY <1>4, <2>1
<1>10. r \in 0 .. Len(h)
  BY <1>4, <1>7
<1>11. CASE below = << >>
  BY <1>6, <1>9, <1>11
<1>12. CASE below # << >>
  <2>1. PICK m, g, a : m = below[Len(below)] /\ g = PutBack(h, m, r) /\ a = Advanced(m, r)
    OBVIOUS
  <2>2. m.at \in 1 .. Len(h[m.copy].kids) /\ h[m.copy].kids[m.at] = f.node
    BY <1>7, <1>12, <2>1 DEF Waits
  <2>3. r = 0 \/ rk[h[m.copy].kids[m.at]] <= rk[r]
    BY <1>9, <2>2
  <2>4. Ranked(g, w, Append(Front(below), a), rk)
    BY <1>7, <1>9, <1>10, <1>12, <2>1, <2>2, <2>3, PutBackRanked
  <2>5. heap' = g /\ stack' = Append(Front(below), a)
    BY <1>6, <1>12, <2>1 DEF Last
  <2>. QED
    BY <1>6, <2>4, <2>5
<1>. QED
  BY <1>11, <1>12

\* preorder is over.
LEMMA DescendRanked ==
    ASSUME TInv, status = "run", NEW f, NEW h, NEW v, NEW t, t = Append(Front(stack), f),
           Private(h, v, t), NEW rk, Ranked(h, v, t, rk), Descend(f, h, v)
    PROVE  Ranked(heap', visited', stack', rk)
<1>1. IsSeq(Front(stack))
  BY TopFits, FrontFacts DEF TInv, Private
<1>2. /\ t # << >> /\ Front(t) = Front(stack) /\ t[Len(t)] = f /\ Len(t) \in 1 .. Len(t)
      /\ IsSeq(t)
  <2>1. t # << >> /\ t[Len(t)] = f /\ IsSeq(t)
    BY <1>1, AppendFacts
  <2>2. Len(t) \in Nat \ {0}
    BY <2>1, FrontFacts
  <2>. QED
    BY <1>1, <2>1, <2>2, FrontAppend
<1>3. Fits(h, v, f) /\ Ascends(f, rk)
  BY <1>2 DEF Private, Ranked, CallsAfter
<1>4. CASE pruneFlag
  <2>1. PICK p : p = f.pre
    OBVIOUS
  <2>2. Return(f, h, v, p)
    BY <1>4, <2>1 DEF Descend
  <2>3. p \in 0 .. Len(h) /\ f.extra \in BOOLEAN
    BY <1>3, <2>1 DEF Fits, Frames
  <2>4. p = f.copy \/ p \in DOMAIN v
    BY <1>3, <2>1, <2>3 DEF Fits
  <2>5. p = f.copy \/ ~Clone(t, p)
    BY <2>4, NoClones
  <2>6. rk[f.pre] <= rk[p]
    <3>1. rk[t[Len(t)].pre] \in Nat
      BY <1>2, ClonesBelow
    <3>. QED
      BY <1>2, <2>1, <3>1
  <2>. QED
    BY <2>2, <2>3, <2>5, <2>6, ReturnRanked
<1>5. CASE ~pruneFlag
  <2>1. PICK g : g = [f EXCEPT !.at = 1, !.step = "kids"]
    OBVIOUS
  <2>2. heap' = h /\ visited' = v /\ stack' = Append(Front(stack), g)
    BY <1>5, <2>1 DEF Descend
  <2>3. g.node = f.node /\ g.pre = f.pre /\ g.copy = f.copy
    BY <1>3, <2>1 DEF Fits, Frames
  <2>4. Ascends(g, rk) /\ g.node = t[Len(t)].node
    BY <1>2, <1>3, <2>3 DEF Ascends
  <2>5. CallsAfter(t, rk)
    BY DEF Ranked
  <2>6. CallsAfter(Append(Front(t), g), rk)
    BY <1>2, <2>4, <2>5, TopRanked
  <2>. QED
    BY <1>2, <2>2, <2>6 DEF Ranked
<1>. QED
  BY <1>4, <1>5

\* A child that is visited comes after every mark.
LEMMA ChildAfter ==
    ASSUME TInv, IInv, status = "run", NEW rk, Ranked(heap, visited, stack, rk),
           NEW i \in 1 .. Len(heap[Top.copy].kids), NEW n, n = heap[Top.copy].kids[i]
    PROVE  rk[Top.copy] < rk[n] /\ ~Busy(visited, n) /\ n \in 1 .. Len(heap)
<1>1. PICK m, k : m = Top /\ k = Len(heap)
  OBVIOUS
<1>2. /\ stack # << >> /\ m = stack[Len(stack)] /\ m.copy \in 1 .. k
      /\ Private(heap, visited, stack) /\ HeapOK(heap) /\ Len(stack) \in 1 .. Len(stack)
  BY <1>1, TopFits DEF TInv, Private
<1>3. rk \in [1 .. k -> Nat] /\ rk[m.copy] < rk[n] /\ n \in 1 .. k
  <2>1. n \in 1 .. k
    BY <1>1, <1>2, NodeFacts
  <2>. QED
    BY <1>1, <1>2, <2>1 DEF Ranked, Ordered
<1>4. rk[m.copy] \in Nat /\ rk[n] \in Nat
  BY <1>2, <1>3
<1>5. ASSUME NEW j \in 1 .. Len(stack) PROVE n # stack[j].node /\ n # stack[j].pre
  <2>1. /\ rk[stack[j].node] \in Nat /\ rk[stack[j].pre] \in Nat /\ rk[stack[j].copy] \in Nat
        /\ rk[stack[j].copy] <= rk[m.copy]
    BY <1>2, ClonesBelow
  <2>2. rk[stack[j].node] <= rk[stack[j].pre] /\ rk[stack[j].pre] <= rk[stack[j].copy]
    BY DEF Ranked, CallsAfter, Ascends
  <2>3. PICK x, y, z, u, w \in Nat :
          /\ x = rk[stack[j].node] /\ y = rk[stack[j].pre] /\ z = rk[stack[j].copy]
          /\ u = rk[m.copy] /\ w = rk[n]
    BY <1>4, <2>1
  <2>4. x <= y /\ y <= z
    BY <2>2, <2>3
  <2>5. z <= u /\ u < w
    BY <1>3, <2>1, <2>3
  <2>6. x < w /\ y < w
    BY <2>4, <2>5
  <2>7. x < rk[n] /\ y < rk[n]
    BY <2>3, <2>6
  <2>8. rk[stack[j].node] < rk[n] /\ rk[stack[j].pre] < rk[n]
    BY <2>3, <2>7
  <2>9. ~(rk[n] < rk[n])
    BY <1>4
  <2>. QED
    BY <2>8, <2>9
<1>6. ~Owned(stack, n)
  BY <1>5 DEF Owned, Marks
<1>7. ~Busy(visited, n)
  BY <1>6 DEF IInv, MarksOK
<1>. QED
  BY <1>1, <1>3, <1>7

\* What a step must establish.
RMoved == \E rk : Ranked(heap', visited', stack', rk)

\* VisitNew: the clone is given the number of its node.
LEMMA NewRanked ==
    ASSUME TInv, IInv, VisitNew, NEW rk, Ranked(heap, visited, stack, rk)
    PROVE  RMoved
<1>1. status = "run" /\ More /\ Enter(Child)
  BY DEF VisitNew
<1>2. PICK n, m, k, o : n = Child /\ m = Top /\ k = Len(heap) /\ o = self.visitDagOnce
  OBVIOUS
<1>3. PICK v : v = Started(visited, n, o)
  OBVIOUS
<1>4. /\ stack # << >> /\ m = stack[Len(stack)] /\ k \in Nat /\ IsSeq(stack)
      /\ Private(heap, visited, stack)
      /\ m.at \in 1 .. Len(heap[m.copy].kids) /\ n = heap[m.copy].kids[m.at]
      /\ n \in 1 .. k /\ ~Clone(stack, n) /\ o \in BOOLEAN
  BY <1>1, <1>2, TopFits, ChildFacts, SettingsFacts DEF TInv, Private
<1>5. rk[m.copy] < rk[n] /\ rk \in [1 .. k -> Nat] /\ rk[n] \in Nat
  <2>1. rk[m.copy] < rk[n]
    BY <1>1, <1>2, <1>4, ChildAfter
  <2>2. rk \in [1 .. k -> Nat]
    BY <1>2 DEF Ranked, Ordered
  <2>. QED
    BY <1>4, <2>1, <2>2
<1>6. Private(heap, v, stack) /\ Ranked(heap, v, stack, rk)
  <2>1. Private(heap, v, stack)
    BY <1>2, <1>3, <1>4, StartedPrivate
  <2>2. ResultsAfter(v, rk)
    BY <1>3, <1>5, StartedRanked DEF Ranked
  <2>. QED
    BY <2>1, <2>2 DEF Ranked
<1>7. PICK K, F : K = heap[n].kids /\ F = Forwarded(v, K)
  OBVIOUS
<1>8. PICK x : x = [heap[n] EXCEPT !.kids = F]
  OBVIOUS
<1>9. x \in Nodes(k) /\ x.kids = F /\ \A i \in 1 .. Len(F) : F[i] \in 1 .. k
  <2>1. heap[n] \in Nodes(k)
    BY <1>2, <1>4, NodeFacts DEF Private
  <2>2. [heap[n] EXCEPT !.kids = Forwarded(v, @)] \in Nodes(k)
    BY <1>2, <1>4, <1>6, ForwardedKids
  <2>3. x \in Nodes(k)
    BY <1>7, <1>8, <2>2
  <2>4. x.kids = F
    BY <1>8, <2>1 DEF Nodes
  <2>5. F \in Seq(1 .. k)
    BY <2>3, <2>4 DEF Nodes
  <2>. QED
    BY <2>3, <2>4, <2>5, ElementOfSeq
<1>10. ASSUME NEW i \in 1 .. Len(F) PROVE rk[n] < rk[F[i]]
  <2>1. /\ K \in Seq(1 .. k) /\ DOMAIN K = 1 .. Len(K) /\ Len(K) \in Nat
        /\ \A j \in 1 .. Len(K) : K[j] \in 1 .. k
    BY <1>2, <1>4, <1>7, NodeFacts DEF Private
  <2>2. i \in 1 .. Len(K)
    <3>1. F \in Seq(1 .. k)
      BY <1>9 DEF Nodes
    <3>2. Len(F) \in Nat /\ DOMAIN F = 1 .. Len(F)
      BY <3>1, LenProperties
    <3>3. DOMAIN F = 1 .. Len(K)
      BY <1>7, <2>1 DEF Forwarded
    <3>. QED
      BY <3>2, <3>3
  <2>3. rk[n] < rk[K[i]] /\ rk[K[i]] \in Nat
    <3>1. rk[n] < rk[K[i]]
      BY <1>2, <1>4, <1>7, <2>2 DEF Ranked, Ordered
    <3>. QED
      BY <1>5, <2>1, <2>2, <3>1
  <2>4. F[i] = IF self.forward /\ FinalResult(v, K[i]) # Null THEN FinalResult(v, K[i]) ELSE K[i]
    BY <1>7, <2>1, <2>2 DEF Forwarded
  <2>5. CASE F[i] = K[i]
    BY <2>3, <2>5
  <2>6. CASE F[i] # K[i]
    <3>1. F[i] = FinalResult(v, K[i]) /\ F[i] # Null
      BY <2>4, <2>6
    <3>2. K[i] \in DOMAIN v /\ F[i] = v[K[i]].result
      BY <3>1 DEF FinalResult, Done, Known
    <3>3. rk[K[i]] <= rk[F[i]]
      BY <1>6, <3>1, <3>2 DEF Ranked, ResultsAfter, Null
    <3>4. rk[F[i]] \in Nat
      BY <1>5, <1>9
    <3>. QED
      BY <1>5, <2>3, <3>3, <3>4
  <2>. QED
    BY <2>5, <2>6
<1>11. PICK g, c : g = Append(heap, x) /\ c = rk[n]
  OBVIOUS
<1>12. OneMore(heap, g, x)
  <2>1. HeapOK(heap) /\ k = Len(heap) /\ x \in Nodes(k)
    BY <1>2, <1>4, <1>9 DEF Private
  <2>2. /\ Len(Append(heap, x)) = k + 1 /\ Append(heap, x)[k + 1] = x
        /\ \A i \in 1 .. k : Append(heap, x)[i] = heap[i]
    BY <2>1, NodeAppended
  <2>. QED
    BY <1>11, <2>1, <2>2 DEF OneMore
<1>13. PICK r2 : Ranked(g, v, stack, r2) /\ r2[k + 1] = c /\ \A i \in 1 .. k : r2[i] = rk[i]
  <2>1. Before(c, x, rk)
    BY <1>5, <1>9, <1>10, <1>11 DEF Before
  <2>2. PICK r2 : Ranked(g, v, stack, r2) /\ Extends(r2, Len(heap), rk, c)
    BY <1>6, <1>12, <2>1, NodeRanked
  <2>. QED
    BY <1>2, <2>2 DEF Extends
<1>14. PICK f : f = Activation(n, k + 1)
  OBVIOUS
<1>15. Ascends(f, r2) /\ f.node = n
  <2>1. f.node = n /\ f.pre = k + 1 /\ f.copy = k + 1
    BY <1>14 DEF Activation
  <2>2. r2[n] = c /\ r2[k + 1] = c /\ c \in Nat
    BY <1>4, <1>5, <1>11, <1>13
  <2>. QED
    BY <2>1, <2>2 DEF Ascends
<1>16. ASSUME NEW i \in 1 .. Len(stack) PROVE r2[stack[i].copy] < r2[f.node]
  <2>1. /\ rk[stack[i].copy] \in Nat /\ rk[stack[i].copy] <= rk[m.copy] /\ rk[m.copy] \in Nat
    BY <1>4, ClonesBelow
  <2>2. stack[i].copy \in 1 .. k
    BY <1>2, <1>4, Referred
  <2>3. r2[stack[i].copy] = rk[stack[i].copy] /\ r2[f.node] = rk[n]
    BY <1>4, <1>13, <1>15, <2>2
  <2>. QED
    BY <1>5, <2>1, <2>3
<1>17. CallsAfter(Append(stack, f), r2)
  BY <1>4, <1>13, <1>15, <1>16, PushedRanked DEF Ranked
<1>18. Ranked(g, v, Append(stack, f), r2)
  BY <1>13, <1>17 DEF Ranked
<1>19. visited' = v /\ heap' = g /\ stack' = Append(stack, f)
  <2>1. visited' = v
    BY <1>1, <1>2, <1>3 DEF Enter
  <2>. QED
    BY <1>1, <1>2, <1>7, <1>8, <1>11, <1>14, <2>1 DEF Enter
<1>. QED
  BY <1>18, <1>19 DEF RMoved

\* VisitDone.
LEMMA DoneRanked ==
    ASSUME TInv, VisitDone, NEW rk, Ranked(heap, visited, stack, rk)
    PROVE  RMoved
<1>1. status = "run" /\ More /\ Done(visited, Child)
  BY DEF VisitDone
<1>2. PICK n, m, r : n = Child /\ m = Top /\ r = visited[n].result
  OBVIOUS
<1>3. /\ stack # << >> /\ m = stack[Len(stack)] /\ Private(heap, visited, stack)
      /\ m.at \in 1 .. Len(heap[m.copy].kids) /\ n = heap[m.copy].kids[m.at]
  BY <1>1, <1>2, TopFits, ChildFacts DEF TInv
<1>4. n \in DOMAIN visited
  BY <1>1, <1>2 DEF Done, Known
<1>5. r \in 0 .. Len(heap) /\ (r = 0 \/ rk[n] <= rk[r])
  <2>1. r = 0 \/ rk[n] <= rk[r]
    BY <1>2, <1>4 DEF Ranked, ResultsAfter
  <2>. QED
    BY <1>2, <1>3, <1>4, <2>1, Referred
<1>6. PICK g, a : g = PutBack(heap, m, r) /\ a = Advanced(m, r)
  OBVIOUS
<1>7. Ranked(g, visited, Append(Front(stack), a), rk)
  BY <1>3, <1>5, <1>6, PutBackRanked
<1>8. heap' = g /\ stack' = Append(Front(stack), a) /\ visited' = visited
  BY <1>2, <1>6 DEF VisitDone, ResultOf
<1>. QED
  BY <1>7, <1>8 DEF RMoved

\* No node is met while it is being visited.
LEMMA NotBusy ==
    ASSUME TInv, IInv, NEW rk, Ranked(heap, visited, stack, rk)
    PROVE  ~VisitBusy
<1>1. SUFFICES ASSUME VisitBusy PROVE FALSE
  OBVIOUS
<1>2. status = "run" /\ More /\ Busy(visited, Child)
  BY <1>1 DEF VisitBusy
<1>3. Top.at \in 1 .. Len(heap[Top.copy].kids) /\ Child = heap[Top.copy].kids[Top.at]
  BY <1>2, ChildFacts
<1>4. ~Busy(visited, Child)
  BY <1>2, <1>3, ChildAfter
<1>. QED
  BY <1>2, <1>4

\* prune().
LEMMA PruneRanked ==
    ASSUME TInv, Prune, NEW rk, Ranked(heap, visited, stack, rk)
    PROVE  RMoved
<1>1. PICK m, b : m = Top /\ b = [m EXCEPT !.skips = TRUE]
  OBVIOUS
<1>2. /\ status = "run" /\ heap' = heap /\ visited' = visited
      /\ stack' = Append(Front(stack), b)
  BY <1>1 DEF Prune, In
<1>3. /\ stack # << >> /\ m = stack[Len(stack)] /\ m \in Frames(Len(heap))
      /\ IsSeq(stack) /\ Len(stack) \in 1 .. Len(stack)
  BY <1>1, <1>2, TopFits DEF TInv, Private
<1>4. Ascends(m, rk)
  BY <1>3 DEF Ranked, CallsAfter
<1>5. b.node = m.node /\ b.pre = m.pre /\ b.copy = m.copy
  BY <1>1, <1>3 DEF Frames
<1>6. Ascends(b, rk) /\ b.node = stack[Len(stack)].node
  BY <1>3, <1>4, <1>5 DEF Ascends
<1>7. CallsAfter(Append(Front(stack), b), rk)
  BY <1>3, <1>6, TopRanked DEF Ranked
<1>. QED
  BY <1>2, <1>7 DEF RMoved, Ranked

\* The innermost activation stays what it is.
LEMMA StaysRanked ==
    ASSUME TInv, status = "run", NEW h, NEW v, NEW rk, Ranked(h, v, stack, rk)
    PROVE  Ranked(h, v, Append(Front(stack), Top), rk) /\ Ascends(Top, rk)
<1>1. PICK m : m = Top
  OBVIOUS
<1>2. stack # << >> /\ Len(stack) \in 1 .. Len(stack) /\ m = stack[Len(stack)] /\ IsSeq(stack)
  BY <1>1, TopFits DEF TInv, Private
<1>3. Ascends(m, rk) /\ m.node = stack[Len(stack)].node /\ CallsAfter(stack, rk)
  BY <1>2 DEF Ranked, CallsAfter
<1>4. CallsAfter(Append(Front(stack), m), rk)
  BY <1>2, <1>3, TopRanked
<1>. QED
  BY <1>1, <1>3, <1>4 DEF Ranked

\* And it has the same clones.
LEMMA SameClones ==
    ASSUME TInv, status = "run", NEW d, ~Clone(stack, d)
    PROVE  ~Clone(Append(Front(stack), Top), d)
<1>1. PICK b, t : b = Front(stack) /\ t = Append(b, Top)
  OBVIOUS
<1>2. /\ stack # << >> /\ IsSeq(stack) /\ Top = stack[Len(stack)]
  BY TopFits DEF TInv, Private
<1>3. /\ IsSeq(b) /\ Len(stack) \in Nat \ {0} /\ Len(b) = Len(stack) - 1
      /\ \A i \in 1 .. Len(stack) - 1 : b[i] = stack[i]
  BY <1>1, <1>2, FrontFacts
<1>4. /\ Len(t) = Len(b) + 1 /\ t[Len(b) + 1] = Top /\ \A i \in 1 .. Len(b) : t[i] = b[i]
  BY <1>1, <1>3, AppendFacts
<1>5. \A i \in 1 .. Len(t) : i \in 1 .. Len(stack) /\ t[i] = stack[i]
  BY <1>2, <1>3, <1>4
<1>6. ~Clone(t, d)
  BY <1>5 DEF Clone
<1>. QED
  BY <1>1, <1>6

\* A visit ends with something that comes no earlier than what preorder returned.
LEMMA EndRanked ==
    ASSUME TInv, status = "run", NEW h, NEW v, Private(h, v, stack),
           NEW rk, Ranked(h, v, stack, rk),
           NEW final, final \in 0 .. Len(h), final = Top.copy \/ ~Clone(stack, final),
           final = 0 \/ rk[Top.pre] <= rk[final],
           Return(Top, h, v, final)
    PROVE  RMoved
<1>1. PICK m : m = Top
  OBVIOUS
<1>2. PICK t : t = Append(Front(stack), m)
  OBVIOUS
<1>3. Private(h, v, t) /\ Ranked(h, v, t, rk)
  BY <1>1, <1>2, TopStays, StaysRanked
<1>4. final = m.copy \/ ~Clone(t, final)
  BY <1>1, <1>2, SameClones
<1>5. Return(m, h, v, final) /\ (final = 0 \/ rk[m.pre] <= rk[final])
  BY <1>1
<1>6. Ranked(heap', visited', stack', rk)
  BY <1>2, <1>3, <1>4, <1>5, ReturnRanked
<1>. QED
  BY <1>6 DEF RMoved

\* The numbers of the innermost activation.
LEMMA TopNumbers ==
    ASSUME TInv, status = "run", NEW rk, Ranked(heap, visited, stack, rk)
    PROVE  /\ rk \in [1 .. Len(heap) -> Nat]
           /\ rk[Top.node] \in Nat /\ rk[Top.pre] \in Nat /\ rk[Top.copy] \in Nat
           /\ rk[Top.node] <= rk[Top.pre] /\ rk[Top.pre] <= rk[Top.copy]
           /\ \A i \in 1 .. Len(heap[Top.copy].kids) :
                 rk[Top.pre] <= rk[heap[Top.copy].kids[i]]
<1>1. PICK m : m = Top
  OBVIOUS
<1>2. /\ stack # << >> /\ m = stack[Len(stack)] /\ Private(heap, visited, stack)
      /\ Len(stack) \in 1 .. Len(stack) /\ m.copy \in 1 .. Len(heap) /\ HeapOK(heap)
  BY <1>1, TopFits DEF TInv, Private
<1>3. rk[m.node] \in Nat /\ rk[m.pre] \in Nat /\ rk[m.copy] \in Nat
  BY <1>2, ClonesBelow
<1>4. rk[m.node] <= rk[m.pre] /\ rk[m.pre] <= rk[m.copy]
  BY <1>2 DEF Ranked, CallsAfter, Ascends
<1>5. rk \in [1 .. Len(heap) -> Nat]
  BY DEF Ranked, Ordered
<1>6. ASSUME NEW i \in 1 .. Len(heap[m.copy].kids) PROVE rk[m.pre] <= rk[heap[m.copy].kids[i]]
  <2>1. rk[m.copy] < rk[heap[m.copy].kids[i]]
    BY <1>2 DEF Ranked, Ordered
  <2>2. rk[heap[m.copy].kids[i]] \in Nat
    <3>1. heap[m.copy].kids[i] \in 1 .. Len(heap)
      BY <1>2, NodeFacts
    <3>. QED
      BY <1>5, <3>1
  <2>. QED
    BY <1>3, <1>4, <2>1, <2>2
<1>. QED
  BY <1>1, <1>3, <1>4, <1>5, <1>6

\* The fields of the innermost clone are changed.
LEMMA RelabelRanked ==
    ASSUME TInv, status = "run", NEW rk, Ranked(heap, visited, stack, rk),
           NEW l \in Label, NEW h, h = Relabelled(heap, Top.copy, l)
    PROVE  Ranked(h, visited, stack, rk)
<1>1. PICK c, k : c = Top.copy /\ k = Len(heap)
  OBVIOUS
<1>2. c \in 1 .. k /\ heap[c] \in Nodes(k) /\ heap \in Seq(Nodes(k))
  BY <1>1, TopFits DEF TInv, Private, HeapOK
<1>3. PICK x : x = [heap[c] EXCEPT !.label = l]
  OBVIOUS
<1>4. x \in Nodes(k) /\ x.kids = heap[c].kids
  BY <1>2, <1>3 DEF Nodes
<1>5. h = [heap EXCEPT ![c] = x]
  BY <1>1, <1>2, <1>3 DEF Relabelled
<1>6. /\ Len(h) = k /\ \A m \in 1 .. k : h[m] = IF m = c THEN x ELSE heap[m]
  BY <1>1, <1>2, <1>4, <1>5, ExceptSeq
<1>7. Ordered(heap, rk)
  BY DEF Ranked
<1>8. \A i \in 1 .. Len(x.kids) : rk[c] < rk[x.kids[i]]
  BY <1>1, <1>2, <1>4, <1>7 DEF Ordered
<1>9. Ordered(h, rk)
  <2>1. Len(h) = Len(heap) /\ \A m \in 1 .. Len(heap) : h[m] = IF m = c THEN x ELSE heap[m]
    BY <1>1, <1>6
  <2>. QED
    BY <1>7, <1>8, <2>1, CloneRanked
<1>. QED
  BY <1>9 DEF Ranked

\* The visitor makes a node.
LEMMA MadeNode ==
    ASSUME TInv, status = "run", NEW l \in Label,
           NEW h, h = Append(heap, [heap[Top.copy] EXCEPT !.label = l])
    PROVE  \E x : OneMore(heap, h, x) /\ x.kids = heap[Top.copy].kids
<1>1. PICK c, k : c = Top.copy /\ k = Len(heap)
  OBVIOUS
<1>2. heap[c] \in Nodes(k) /\ HeapOK(heap)
  BY <1>1, TopFits DEF TInv, Private
<1>3. PICK x : x = [heap[c] EXCEPT !.label = l]
  OBVIOUS
<1>4. x \in Nodes(k) /\ x.kids = heap[c].kids
  BY <1>2, <1>3 DEF Nodes
<1>5. /\ Len(Append(heap, x)) = k + 1 /\ Append(heap, x)[k + 1] = x
      /\ \A i \in 1 .. k : Append(heap, x)[i] = heap[i]
  BY <1>1, <1>2, <1>4, NodeAppended
<1>6. h = Append(heap, x)
  BY <1>1, <1>3
<1>7. OneMore(heap, h, x)
  BY <1>1, <1>4, <1>5, <1>6 DEF OneMore
<1>. QED
  BY <1>1, <1>4, <1>7

\* It is given the number of the clone that it takes its children from.
LEMMA MadeRanked ==
    ASSUME TInv, status = "run", NEW rk, Ranked(heap, visited, stack, rk),
           NEW h, NEW x, OneMore(heap, h, x), x.kids = heap[Top.copy].kids
    PROVE  \E r2 : Ranked(h, visited, stack, r2) /\ r2[Top.pre] <= r2[Len(heap) + 1]
<1>1. PICK m, k : m = Top /\ k = Len(heap)
  OBVIOUS
<1>2. /\ m.copy \in 1 .. k /\ m.pre \in 1 .. k /\ Private(heap, visited, stack)
  BY <1>1, TopFits DEF TInv, Frames
<1>3. PICK c : c = rk[m.copy]
  OBVIOUS
<1>4. rk[m.pre] <= rk[m.copy] /\ rk[m.copy] \in Nat
  BY <1>1, TopNumbers
<1>5. Before(c, x, rk)
  <2>1. \A i \in 1 .. Len(heap[m.copy].kids) : rk[m.copy] < rk[heap[m.copy].kids[i]]
    BY <1>1, <1>2 DEF Ranked, Ordered
  <2>. QED
    BY <1>1, <1>3, <1>4, <2>1 DEF Before
<1>6. PICK r2 : Ranked(h, visited, stack, r2) /\ Extends(r2, Len(heap), rk, c)
  BY <1>2, <1>5, NodeRanked
<1>7. r2[m.pre] <= r2[k + 1]
  BY <1>1, <1>2, <1>3, <1>4, <1>6 DEF Extends
<1>. QED
  BY <1>1, <1>6, <1>7

\* postorder.
LEMMA PostorderRanked ==
    ASSUME TInv, Postorder, NEW rk, Ranked(heap, visited, stack, rk)
    PROVE  RMoved
<1>1. status = "run"
  BY DEF Postorder, PostorderKeeps, PostorderRemoves, PostorderReturnsChild, PostorderReturnsNew,
         AtPostorder, In
<1>2. /\ Private(heap, visited, stack) /\ Len(heap) \in Nat
      /\ Top.copy \in 1 .. Len(heap) /\ Top.copy \in 0 .. Len(heap)
  BY <1>1, TopFits DEF TInv
<1>3. CASE PostorderKeeps
  <2>1. PICK l \in Label : Return(Top, Relabelled(heap, Top.copy, l), visited, Top.copy)
    BY <1>3 DEF PostorderKeeps
  <2>2. PICK h, c : h = Relabelled(heap, Top.copy, l) /\ c = Top.copy
    OBVIOUS
  <2>3. Private(h, visited, stack) /\ Len(h) = Len(heap)
    BY <1>1, <2>2, Relabels
  <2>4. Ranked(h, visited, stack, rk)
    BY <1>1, <2>2, RelabelRanked
  <2>5. Return(Top, h, visited, c) /\ c \in 0 .. Len(h) /\ c = Top.copy
    BY <1>2, <2>1, <2>2, <2>3
  <2>6. rk[Top.pre] <= rk[c]
    BY <1>1, <2>2, TopNumbers
  <2>. QED
    BY <1>1, <2>3, <2>4, <2>5, <2>6, EndRanked
<1>4. CASE PostorderRemoves
  <2>1. PICK z : z = Null
    OBVIOUS
  <2>2. Return(Top, heap, visited, z) /\ z \in 0 .. Len(heap) /\ ~Clone(stack, z) /\ z = 0
    BY <1>2, <1>4, <2>1, NoClones DEF PostorderRemoves, Null
  <2>. QED
    BY <1>1, <1>2, <2>2, EndRanked
<1>5. CASE PostorderReturnsChild
  <2>1. PICK i \in DOMAIN Kids(heap, Top) : Return(Top, heap, visited, Kids(heap, Top)[i])
    BY <1>5 DEF PostorderReturnsChild
  <2>2. PICK z : z = Kids(heap, Top)[i]
    OBVIOUS
  <2>3. z \in 0 .. Len(heap) /\ ~Clone(stack, z) /\ rk[Top.pre] <= rk[z]
    <3>1. i \in 1 .. Len(heap[Top.copy].kids)
      BY <1>2, NodeFacts DEF Kids, Private
    <3>2. heap[Top.copy].kids[i] \in 1 .. Len(heap)
      BY <1>2, <3>1, NodeFacts DEF Private
    <3>3. ~Clone(stack, heap[Top.copy].kids[i])
      BY <1>2, <3>1, NoClones
    <3>4. rk[Top.pre] <= rk[heap[Top.copy].kids[i]]
      BY <1>1, <3>1, TopNumbers
    <3>. QED
      BY <1>2, <2>2, <3>2, <3>3, <3>4 DEF Kids
  <2>4. Return(Top, heap, visited, z)
    BY <2>1, <2>2
  <2>. QED
    BY <1>1, <1>2, <2>3, <2>4, EndRanked
<1>6. CASE PostorderReturnsNew
  <2>1. PICK l \in Label :
          Return(Top, Append(heap, [heap[Top.copy] EXCEPT !.label = l]), visited, Len(heap) + 1)
    BY <1>6 DEF PostorderReturnsNew
  <2>2. PICK h, z : h = Append(heap, [heap[Top.copy] EXCEPT !.label = l]) /\ z = Len(heap) + 1
    OBVIOUS
  <2>3. /\ Private(h, visited, stack) /\ Len(heap) <= Len(h)
        /\ Len(heap) + 1 \in 1 .. Len(h) /\ ~Clone(stack, Len(heap) + 1)
    BY <1>1, <2>2, MakesNew
  <2>4. PICK r2 : Ranked(h, visited, stack, r2) /\ r2[Top.pre] <= r2[Len(heap) + 1]
    <3>1. PICK x : OneMore(heap, h, x) /\ x.kids = heap[Top.copy].kids
      BY <1>1, <2>2, MadeNode
    <3>. QED
      BY <1>1, <3>1, MadeRanked
  <2>5. /\ Return(Top, h, visited, z) /\ z \in 0 .. Len(h) /\ ~Clone(stack, z)
        /\ r2[Top.pre] <= r2[z]
    <3>1. Len(h) \in Nat
      BY <2>3, NodeFacts DEF Private
    <3>. QED
      BY <2>1, <2>2, <2>3, <2>4, <3>1
  <2>. QED
    BY <1>1, <2>3, <2>4, <2>5, EndRanked
<1>. QED
  BY <1>3, <1>4, <1>5, <1>6 DEF Postorder

\* The tracker as preorder leaves it.
LEMMA PreorderTrackerRanked ==
    ASSUME TInv, status = "run", NEW h, NEW rk, Ranked(h, visited, stack, rk)
    PROVE  Ranked(h, MarkedAgain(visited, Top.node), stack, rk)
<1>1. PICK n : n = Top.node
  OBVIOUS
<1>2. n \in DOMAIN visited
  BY <1>1, TopFits
<1>3. ResultsAfter(MarkedAgain(visited, n), rk)
  BY <1>2, AgainRanked DEF Ranked
<1>. QED
  BY <1>1, <1>3 DEF Ranked

\* preorder kept the clone.
LEMMA KeepsRanked ==
    ASSUME TInv, status = "run", NEW h, Private(h, visited, stack),
           NEW rk, Ranked(h, visited, stack, rk),
           Descend(Top, h, MarkedAgain(visited, Top.node))
    PROVE  RMoved
<1>1. PICK v, m : v = MarkedAgain(visited, Top.node) /\ m = Top
  OBVIOUS
<1>2. PICK t : t = Append(Front(stack), m)
  OBVIOUS
<1>3. Private(h, v, stack) /\ Ranked(h, v, stack, rk)
  BY <1>1, PreorderTracker, PreorderTrackerRanked
<1>4. Private(h, v, t) /\ Ranked(h, v, t, rk)
  BY <1>1, <1>2, <1>3, TopStays, StaysRanked
<1>5. Descend(m, h, v)
  BY <1>1
<1>6. Ranked(heap', visited', stack', rk)
  BY <1>2, <1>4, <1>5, DescendRanked
<1>. QED
  BY <1>6 DEF RMoved

\* preorder returned another node p, which comes no earlier than the node visited.
LEMMA ReplacedRanked ==
    ASSUME TInv, IInv, In("pre"), NEW h, Private(h, visited, stack), Len(heap) <= Len(h),
           NEW p, p \in 1 .. Len(h), ~Clone(stack, p), ~Busy(visited, p),
           NEW rk, Ranked(h, visited, stack, rk), rk[Top.pre] <= rk[p], ReplacedBy(p, h)
    PROVE  RMoved
<1>1. status = "run"
  BY DEF In
<1>2. PICK v, m : v = MarkedAgain(visited, Top.node) /\ m = Top
  OBVIOUS
<1>3. Private(h, v, stack) /\ Ranked(h, v, stack, rk)
  BY <1>1, <1>2, PreorderTracker, PreorderTrackerRanked
<1>4. ~Busy(v, p)
  BY <1>1, <1>2, AfterPreorder
<1>5. CASE Done(v, p) /\ Return(Top, h, v, v[p].result)
  <2>1. PICK z : z = v[p].result
    OBVIOUS
  <2>2. p \in DOMAIN v
    BY <1>5 DEF Done, Known
  <2>3. z \in 0 .. Len(h) /\ ~Clone(stack, z) /\ Len(h) \in Nat
    BY <1>3, <2>1, <2>2, NoClones, Referred
  <2>4. z = 0 \/ rk[Top.pre] <= rk[z]
    <3>1. CASE z # 0
      <4>1. rk[p] <= rk[z]
        BY <1>3, <2>1, <2>2, <3>1 DEF Ranked, ResultsAfter
      <4>2. rk \in [1 .. Len(h) -> Nat] /\ z \in 1 .. Len(h)
        BY <2>3, <3>1 DEF Ranked, Ordered
      <4>3. rk[p] \in Nat /\ rk[z] \in Nat /\ rk[m.pre] \in Nat
        <5>1. rk[m.pre] \in Nat
          <6>1. stack # << >> /\ m = stack[Len(stack)]
            BY <1>1, <1>2, TopFits
          <6>. QED
            BY <1>3, <6>1, ClonesBelow
        <5>. QED
          BY <4>2, <5>1
      <4>4. rk[m.pre] <= rk[p]
        BY <1>2
      <4>5. rk[m.pre] <= rk[z]
        BY <4>1, <4>3, <4>4
      <4>. QED
        BY <1>2, <4>5
    <3>. QED
      BY <3>1
  <2>5. Return(Top, h, v, z)
    BY <1>5, <2>1
  <2>. QED
    BY <1>1, <1>3, <2>3, <2>4, <2>5, EndRanked
<1>6. CASE Descend([Top EXCEPT !.pre = p, !.copy = Len(h) + 1, !.extra = TRUE],
                   Append(h, h[p]), Started(v, p, v[Top.node].once))
  <2>1. PICK k, c, o : k = Len(h) /\ c = rk[p] /\ o = v[Top.node].once
    OBVIOUS
  <2>2. PICK g, w, f : Second(h, v, p, k, g, w, f)
    BY <1>1, <1>3, <2>1, SecondClone
  <2>3. Private(h, w, stack) /\ Ranked(h, w, stack, rk)
    <3>1. w = Started(v, p, o) /\ o \in BOOLEAN
      <4>1. Top.node \in DOMAIN v
        <5>1. stack # << >> /\ m = stack[Len(stack)] /\ Len(stack) \in 1 .. Len(stack)
          BY <1>1, <1>2, TopFits
        <5>2. Fits(h, v, m)
          BY <1>3, <5>1 DEF Private
        <5>. QED
          BY <1>2, <5>2 DEF Fits
      <4>2. o \in BOOLEAN
        BY <1>3, <2>1, <4>1, NoClones
      <4>. QED
        BY <2>1, <2>2, <4>2 DEF Second
    <3>2. Private(h, w, stack)
      BY <1>3, <3>1, StartedPrivate
    <3>3. rk[p] \in Nat
      BY DEF Ranked, Ordered
    <3>4. ResultsAfter(w, rk)
      BY <1>3, <3>1, <3>3, StartedRanked DEF Ranked
    <3>. QED
      BY <1>3, <3>2, <3>4 DEF Ranked
  <2>4. PICK x : x = h[p]
    OBVIOUS
  <2>5. OneMore(h, g, x) /\ Before(c, x, rk)
    <3>1. OneMore(h, g, x)
      BY <2>1, <2>2, <2>4 DEF Second, OneMore
    <3>2. rk \in [1 .. Len(h) -> Nat]
      BY DEF Ranked, Ordered
    <3>3. \A i \in 1 .. Len(h[p].kids) : rk[p] < rk[h[p].kids[i]]
      BY DEF Ranked, Ordered
    <3>. QED
      BY <2>1, <2>4, <3>1, <3>2, <3>3 DEF Before
  <2>6. PICK r2 : Ranked(g, w, stack, r2) /\ Extends(r2, Len(h), rk, c)
    BY <2>3, <2>5, NodeRanked
  <2>7. Ascends(f, r2) /\ f.node = stack[Len(stack)].node
    <3>1. /\ stack # << >> /\ m = stack[Len(stack)] /\ Len(stack) \in 1 .. Len(stack)
      BY <1>1, <1>2, TopFits
    <3>2. m.node \in 1 .. k /\ rk[m.node] <= rk[m.pre] /\ rk[m.node] \in Nat /\ rk[m.pre] \in Nat
      <4>1. rk[m.node] \in Nat /\ rk[m.pre] \in Nat
        BY <1>3, <3>1, ClonesBelow
      <4>2. m.node \in 1 .. k
        BY <1>3, <2>1, <3>1, Referred
      <4>3. rk[m.node] <= rk[m.pre]
        BY <1>3, <3>1 DEF Ranked, CallsAfter, Ascends
      <4>. QED
        BY <4>1, <4>2, <4>3
    <3>3. rk[p] \in Nat /\ rk[m.pre] <= rk[p]
      BY <1>2 DEF Ranked, Ordered
    <3>4. rk[m.node] <= rk[p]
      BY <3>2, <3>3
    <3>5. r2[m.node] = rk[m.node] /\ r2[p] = rk[p] /\ r2[k + 1] = rk[p]
      BY <2>1, <2>6, <3>2 DEF Extends
    <3>6. f.node = m.node /\ f.pre = p /\ f.copy = k + 1
      BY <1>2, <2>2 DEF Second
    <3>7. r2[f.node] <= r2[f.pre]
      BY <3>4, <3>5, <3>6
    <3>8. r2[f.pre] <= r2[f.copy]
      BY <3>3, <3>5, <3>6
    <3>. QED
      BY <3>1, <3>6, <3>7, <3>8 DEF Ascends
  <2>8. PICK t : t = Append(Front(stack), f)
    OBVIOUS
  <2>9. Ranked(g, w, t, r2)
    <3>1. IsSeq(stack) /\ stack # << >>
      BY <1>1, TopFits DEF TInv, Private
    <3>2. CallsAfter(stack, r2)
      BY <2>6 DEF Ranked
    <3>3. CallsAfter(t, r2)
      BY <2>7, <2>8, <3>1, <3>2, TopRanked
    <3>. QED
      BY <2>6, <3>3 DEF Ranked
  <2>10. Private(g, w, t) /\ Descend(f, g, w)
    BY <1>6, <2>1, <2>2, <2>8 DEF Second
  <2>11. Ranked(heap', visited', stack', r2)
    BY <1>1, <2>8, <2>9, <2>10, DescendRanked
  <2>. QED
    BY <2>11 DEF RMoved
<1>. QED
  BY <1>2, <1>4, <1>5, <1>6 DEF ReplacedBy


\* Only an IR loop stops the walk before its end.
LEMMA ReturnStatus ==
    ASSUME NEW f, NEW h, NEW v, NEW z, Return(f, h, v, z)
    PROVE  status' = status \/ status' = "done"
BY DEF Return

LEMMA DescendStatus ==
    ASSUME NEW f, NEW h, NEW v, Descend(f, h, v)
    PROVE  status' = status \/ status' = "done"
<1>1. CASE pruneFlag
  <2>1. Return(f, h, v, f.pre)
    BY <1>1 DEF Descend
  <2>. QED
    BY <2>1, ReturnStatus
<1>2. CASE ~pruneFlag
  BY <1>2 DEF Descend
<1>. QED
  BY <1>1, <1>2

LEMMA ReplacedStatus ==
    ASSUME IInv, status = "run", NEW p, NEW h, ~Busy(visited, p), ReplacedBy(p, h)
    PROVE  status' = status \/ status' = "done"
<1>1. PICK v : v = MarkedAgain(visited, Top.node)
  OBVIOUS
<1>2. ~Busy(v, p)
  BY <1>1, AfterPreorder
<1>3. \/ Return(Top, h, v, v[p].result)
      \/ Descend([Top EXCEPT !.pre = p, !.copy = Len(h) + 1, !.extra = TRUE],
                 Append(h, h[p]), Started(v, p, v[Top.node].once))
  BY <1>1, <1>2 DEF ReplacedBy
<1>. QED
  BY <1>3, ReturnStatus, DescendStatus

\* preorder.
LEMMA PreorderRanked ==
    ASSUME TInv, IInv, Preorder, NEW rk, Ranked(heap, visited, stack, rk)
    PROVE  RMoved /\ (status' = status \/ status' = "done")
<1>1. CASE Prune
  <2>1. status' = status
    BY <1>1 DEF Prune
  <2>. QED
    BY <1>1, <2>1, PruneRanked
<1>2. CASE PreorderKeeps
  <2>1. PICK l \in Label :
          Descend(Top, Relabelled(heap, Top.copy, l), MarkedAgain(visited, Top.node))
    BY <1>2 DEF PreorderKeeps
  <2>2. PICK h : h = Relabelled(heap, Top.copy, l)
    OBVIOUS
  <2>3. status = "run" /\ Descend(Top, h, MarkedAgain(visited, Top.node))
    BY <1>2, <2>1, <2>2 DEF PreorderKeeps, In
  <2>4. Private(h, visited, stack) /\ Ranked(h, visited, stack, rk)
    BY <2>2, <2>3, Relabels, RelabelRanked
  <2>5. RMoved
    BY <2>3, <2>4, KeepsRanked
  <2>. QED
    BY <2>3, <2>5, DescendStatus
<1>3. CASE PreorderRemoves
  <2>1. PICK z, v : z = Null /\ v = MarkedAgain(visited, Top.node)
    OBVIOUS
  <2>2. status = "run" /\ Return(Top, heap, v, z)
    BY <1>3, <2>1 DEF PreorderRemoves, In
  <2>3. Private(heap, visited, stack) /\ Len(heap) \in Nat
    BY <2>2, TopFits DEF TInv
  <2>4. z = 0 /\ z \in 0 .. Len(heap) /\ ~Clone(stack, z) /\ Private(heap, v, stack)
    BY <2>1, <2>2, <2>3, NoClones, PreorderTracker DEF Null
  <2>5. Ranked(heap, v, stack, rk)
    BY <2>1, <2>2, PreorderTrackerRanked
  <2>6. RMoved
    BY <2>2, <2>4, <2>5, EndRanked
  <2>. QED
    BY <2>2, <2>6, ReturnStatus
<1>4. CASE PreorderReturnsChild
  <2>1. PICK i \in DOMAIN Kids(heap, Top) : ReplacedBy(Kids(heap, Top)[i], heap)
    BY <1>4 DEF PreorderReturnsChild
  <2>2. PICK p : p = Kids(heap, Top)[i]
    OBVIOUS
  <2>3. In("pre") /\ status = "run" /\ ReplacedBy(p, heap)
    BY <1>4, <2>1, <2>2 DEF PreorderReturnsChild, In
  <2>4. /\ Private(heap, visited, stack) /\ Len(heap) \in Nat /\ Len(heap) <= Len(heap)
        /\ Top.copy \in 1 .. Len(heap)
    BY <2>3, TopFits DEF TInv
  <2>5. i \in 1 .. Len(heap[Top.copy].kids) /\ p = heap[Top.copy].kids[i]
    BY <2>2, <2>4, NodeFacts DEF Kids, Private
  <2>6. p \in 1 .. Len(heap) /\ ~Busy(visited, p)
    BY <2>3, <2>5, ChildAfter
  <2>7. ~Clone(stack, p)
    BY <2>4, <2>5, NoClones
  <2>8. rk[Top.pre] <= rk[p]
    BY <2>3, <2>5, TopNumbers
  <2>9. RMoved
    BY <2>3, <2>4, <2>6, <2>7, <2>8, ReplacedRanked
  <2>. QED
    BY <2>3, <2>6, <2>9, ReplacedStatus
<1>5. CASE PreorderReturnsNew
  <2>1. PICK l \in Label :
          ReplacedBy(Len(heap) + 1, Append(heap, [heap[Top.copy] EXCEPT !.label = l]))
    BY <1>5 DEF PreorderReturnsNew
  <2>2. PICK h, p : h = Append(heap, [heap[Top.copy] EXCEPT !.label = l]) /\ p = Len(heap) + 1
    OBVIOUS
  <2>3. In("pre") /\ status = "run" /\ ReplacedBy(p, h)
    BY <1>5, <2>1, <2>2 DEF PreorderReturnsNew, In
  <2>4. /\ Private(h, visited, stack) /\ Len(heap) <= Len(h)
        /\ p \in 1 .. Len(h) /\ ~Clone(stack, p)
    <3>1. /\ Private(h, visited, stack) /\ Len(heap) <= Len(h)
          /\ Len(heap) + 1 \in 1 .. Len(h) /\ ~Clone(stack, Len(heap) + 1)
      BY <2>2, <2>3, MakesNew
    <3>. QED
      BY <2>2, <3>1
  <2>5. PICK r2 : Ranked(h, visited, stack, r2) /\ r2[Top.pre] <= r2[Len(heap) + 1]
    <3>1. PICK x : OneMore(heap, h, x) /\ x.kids = heap[Top.copy].kids
      BY <2>2, <2>3, MadeNode
    <3>. QED
      BY <2>3, <3>1, MadeRanked
  <2>6. ~Busy(visited, p)
    <3>1. DOMAIN visited \subseteq 1 .. Len(heap) /\ Len(heap) \in Nat
      BY NodeFacts DEF TInv, Private, TrackerTyped
    <3>2. p \notin 1 .. Len(heap)
      BY <2>2, <3>1
    <3>. QED
      BY <3>1, <3>2 DEF Busy, Known
  <2>7. r2[Top.pre] <= r2[p]
    BY <2>2, <2>5
  <2>8. RMoved
    BY <2>3, <2>4, <2>5, <2>6, <2>7, ReplacedRanked
  <2>. QED
    BY <2>3, <2>6, <2>8, ReplacedStatus
<1>. QED
  BY <1>1, <1>2, <1>3, <1>4, <1>5 DEF Preorder

\* postorder.
LEMMA PostorderStatus ==
    ASSUME Postorder
    PROVE  status' = status \/ status' = "done"
<1>1. CASE PostorderKeeps
  BY <1>1, ReturnStatus DEF PostorderKeeps
<1>2. CASE PostorderRemoves
  BY <1>2, ReturnStatus DEF PostorderRemoves
<1>3. CASE PostorderReturnsChild
  BY <1>3, ReturnStatus DEF PostorderReturnsChild
<1>4. CASE PostorderReturnsNew
  BY <1>4, ReturnStatus DEF PostorderReturnsNew
<1>. QED
  BY <1>1, <1>2, <1>3, <1>4 DEF Postorder

----------------------------------------------------------------------------
(* The walk.                                                               *)

\* The inductive step.
LEMMA LoopsKept ==
    ASSUME TInv, IInv, LInv, [Next]_vars
    PROVE  LInv'
<1>1. CASE UNCHANGED vars
  BY <1>1 DEF vars, history, LInv, AcyclicIRs
<1>2. CASE Next
  <2>1. self' = self
    BY <1>2 DEF Next, VisitChild, VisitNew, VisitDone, VisitBusy, Preorder, Prune, PreorderKeeps,
                PreorderRemoves, PreorderReturnsChild, PreorderReturnsNew, Postorder, PostorderKeeps,
                PostorderRemoves, PostorderReturnsChild, PostorderReturnsNew
  <2>2. SUFFICES ASSUME self.ir \in AcyclicIRs
                 PROVE  looped' = {} /\ status' # "bug" /\ RMoved
    BY <2>1 DEF LInv, RMoved, AcyclicIRs
  <2>3. looped = {} /\ status # "bug"
    BY <2>2 DEF LInv
  <2>4. PICK rk : Ranked(heap, visited, stack, rk)
    BY <2>2 DEF LInv
  <2>5. ~VisitBusy
    BY <2>4, NotBusy
  <2>6. looped' = looped
    BY <1>2, <2>5 DEF Next, VisitChild, VisitNew, VisitDone, Preorder, Prune, PreorderKeeps,
                PreorderRemoves, PreorderReturnsChild, PreorderReturnsNew, Postorder, PostorderKeeps,
                PostorderRemoves, PostorderReturnsChild, PostorderReturnsNew, history
  <2>7. RMoved /\ (status' = status \/ status' = "done")
    <3>1. CASE VisitNew
      <4>1. status' = status
        BY <3>1 DEF VisitNew
      <4>. QED
        BY <2>4, <3>1, <4>1, NewRanked
    <3>2. CASE VisitDone
      <4>1. status' = status
        BY <3>2 DEF VisitDone
      <4>. QED
        BY <2>4, <3>2, <4>1, DoneRanked
    <3>3. CASE Preorder
      BY <2>4, <3>3, PreorderRanked
    <3>4. CASE Postorder
      BY <2>4, <3>4, PostorderRanked, PostorderStatus
    <3>. QED
      BY <1>2, <2>5, <3>1, <3>2, <3>3, <3>4 DEF Next, VisitChild
  <2>. QED
    BY <2>3, <2>6, <2>7
<1>. QED
  BY <1>1, <1>2

\* The numbers of the IR are those of its numbering; the root's clone has the root's.
LEMMA InitLoops == Init => LInv
<1>1. SUFFICES ASSUME Init, self.ir \in AcyclicIRs
               PROVE  looped = {} /\ status # "bug" /\ \E rk : Ranked(heap, visited, stack, rk)
  BY DEF LInv
<1>2. PICK x \in Visits :
        /\ self = x
        /\ heap = Append(x.ir, x.ir[1])
        /\ visited = With(<< >>, 1, Info(TRUE, x.visitDagOnce, 1))
        /\ stack = << Activation(1, Len(x.ir) + 1) >>
  BY <1>1 DEF Init
<1>3. PICK h, k, s : h = x.ir /\ k = Len(h) /\ s = << >>
  OBVIOUS
<1>4. HeapOK(h) /\ k \in Nat \ {0}
  <2>1. x.ir \in Seq(Nodes(Len(x.ir))) /\ Len(x.ir) > 0
    BY GraphAssumption DEF Nodes
  <2>2. HeapOK(h)
    BY <1>3, <2>1 DEF HeapOK
  <2>. QED
    BY <1>3, <2>1, <2>2, NodeFacts
<1>5. PICK rk \in [1 .. k -> Nat] :
        \A n \in 1 .. k : \A i \in 1 .. Len(h[n].kids) : rk[n] < rk[h[n].kids[i]]
  <2>1. DOMAIN h = 1 .. k /\ \A n \in 1 .. k : DOMAIN h[n].kids = 1 .. Len(h[n].kids)
    <3>1. DOMAIN h = 1 .. k
      BY <1>3, <1>4, LenProperties DEF HeapOK
    <3>2. \A n \in 1 .. k : DOMAIN h[n].kids = 1 .. Len(h[n].kids)
      BY <1>3, <1>4, NodeFacts
    <3>. QED
      BY <3>1, <3>2
  <2>2. Acyclic(h)
    BY <1>1, <1>2, <1>3 DEF AcyclicIRs
  <2>3. PICK number \in [DOMAIN h -> DOMAIN h] :
          \A n \in DOMAIN h : \A i \in DOMAIN h[n].kids : number[n] < number[h[n].kids[i]]
    BY <2>2 DEF Acyclic
  <2>4. number \in [1 .. k -> Nat]
    <3>1. number \in [1 .. k -> 1 .. k]
      BY <2>1, <2>3
    <3>2. \A i \in 1 .. k : number[i] \in Nat
      BY <1>4, <3>1
    <3>. QED
      BY <3>1, <3>2
  <2>5. \A n \in 1 .. k : \A i \in 1 .. Len(h[n].kids) : number[n] < number[h[n].kids[i]]
    BY <2>1, <2>3
  <2>. QED
    BY <2>4, <2>5
<1>6. PICK e, w, o : o = x.visitDagOnce /\ e = Info(TRUE, o, 1) /\ w = With(s, 1, e)
  OBVIOUS
<1>7. visited = w
  BY <1>2, <1>3, <1>6
<1>8. DOMAIN w = {1} /\ w[1] = e /\ e.result = 1
  <2>1. DOMAIN w = DOMAIN s \union {1} /\ w[1] = e
    BY <1>6 DEF With
  <2>2. DOMAIN s = {}
    BY <1>3
  <2>3. e.result = 1
    BY <1>6, InfoResult
  <2>. QED
    BY <2>1, <2>2, <2>3
<1>9. s \in Seq({}) /\ IsSeq(s) /\ Len(s) = 0
  <2>1. s \in Seq({}) /\ Len(s) = 0
    BY <1>3
  <2>. QED
    BY <2>1 DEF IsSeq
<1>10. Private(h, w, s)
  <2>1. e \in Entries(k)
    <3>1. 1 \in 0 .. k
      BY <1>4
    <3>2. x.visitDagOnce \in BOOLEAN
      BY GraphAssumption
    <3>. QED
      BY <1>6, <3>1, <3>2, InfoIsEntry
  <2>2. TrackerTyped(k, w)
    BY <1>4, <1>8, <2>1 DEF TrackerTyped
  <2>. QED
    BY <1>3, <1>4, <1>9, <2>2 DEF Private
<1>11. Ranked(h, w, s, rk)
  <2>1. Ordered(h, rk)
    BY <1>3, <1>5 DEF Ordered
  <2>2. ResultsAfter(w, rk)
    <3>1. rk[1] \in Nat
      BY <1>4, <1>5
    <3>2. \A n \in DOMAIN w : n = 1 /\ w[n].result = 1
      BY <1>8
    <3>. QED
      BY <3>1, <3>2 DEF ResultsAfter
  <2>3. CallsAfter(s, rk)
    BY <1>9 DEF CallsAfter
  <2>. QED
    BY <2>1, <2>2, <2>3 DEF Ranked
<1>12. PICK c, y, g : c = rk[1] /\ y = h[1] /\ g = Append(h, y)
  OBVIOUS
<1>13. OneMore(h, g, y) /\ Before(c, y, rk)
  <2>1. 1 \in 1 .. k
    BY <1>4
  <2>2. y \in Nodes(k) /\ c \in Nat
    BY <1>3, <1>4, <1>5, <1>12, <2>1, NodeFacts
  <2>3. /\ Len(Append(h, y)) = k + 1 /\ Append(h, y)[k + 1] = y
        /\ \A m \in 1 .. k : Append(h, y)[m] = h[m]
    BY <1>3, <1>4, <2>2, NodeAppended
  <2>4. OneMore(h, g, y)
    BY <1>3, <1>12, <2>2, <2>3 DEF OneMore
  <2>5. \A i \in 1 .. Len(y.kids) : c < rk[y.kids[i]]
    BY <1>5, <1>12, <2>1
  <2>. QED
    BY <2>2, <2>4, <2>5 DEF Before
<1>14. PICK r2 : Ranked(g, w, s, r2) /\ Extends(r2, Len(h), rk, c)
  BY <1>10, <1>11, <1>13, NodeRanked
<1>15. PICK f : f = Activation(1, k + 1)
  OBVIOUS
<1>16. Ascends(f, r2)
  <2>1. f.node = 1 /\ f.pre = k + 1 /\ f.copy = k + 1
    BY <1>15 DEF Activation
  <2>2. r2[1] = rk[1] /\ r2[k + 1] = rk[1] /\ rk[1] \in Nat
    BY <1>3, <1>4, <1>5, <1>12, <1>14 DEF Extends
  <2>. QED
    BY <2>1, <2>2 DEF Ascends
<1>17. CallsAfter(Append(s, f), r2)
  <2>1. \A i \in 1 .. Len(s) : r2[s[i].copy] < r2[f.node]
    BY <1>9
  <2>. QED
    BY <1>9, <1>14, <1>16, <2>1, PushedRanked DEF Ranked
<1>18. Ranked(g, w, Append(s, f), r2)
  BY <1>14, <1>17 DEF Ranked
<1>19. stack = << f >> /\ heap = g
  BY <1>2, <1>3, <1>12, <1>15
<1>20. Append(s, f) = stack
  BY <1>3, <1>19
<1>21. Ranked(heap, visited, stack, r2)
  BY <1>7, <1>18, <1>19, <1>20
<1>22. looped = {} /\ status = "run"
  BY <1>1 DEF Init
<1>. QED
  BY <1>21, <1>22

(***************************************************************************)
(* loop_revisit and BUG("IR loop detected "): in an IR without cycles no   *)
(* node is met while it is being visited, for every such IR and every      *)
(* visitor, although the visitor may return a child, a node it has just    *)
(* made, or one that has been replaced in other parts of the IR: whatever  *)
(* it returns comes no earlier than what it was given.                     *)
(***************************************************************************)
THEOREM NoLoopTheorem == Spec => []NoLoopFound
<1>1. Init => TInv /\ IInv /\ LInv
  BY InitTypes, InitMarks, InitLoops
<1>2. (TInv /\ IInv /\ LInv) /\ [Next]_vars => (TInv /\ IInv /\ LInv)'
  BY TypesKept, StepKept, LoopsKept
<1>3. LInv => NoLoopFound
  BY DEF LInv, NoLoopFound
<1>. QED
  BY <1>1, <1>2, <1>3, PTL DEF Spec


----------------------------------------------------------------------------
(***************************************************************************)
(* What a child has become is settled for good when later visits cannot    *)
(* change it: the node is Calm.  It is Fine when its own children are      *)
(* calm too, or need not be.  The walk keeps                               *)
(*   - every result that stands fine,                                      *)
(*   - the children of a clone that have been visited fine, up to the next *)
(*     one to visit, and                                                   *)
(*   - what apply_visitor returned for a node fine, and, if all parents    *)
(*     are to rely on it, what the tracker knows.                          *)
(* A node that is visited for the first time still is its own result.      *)
(***************************************************************************)
Calm(v, lp, k) ==
    Known(v, k) /\ (~v[k].once \/ (~v[k].busy /\ v[k].result = k) \/ k \in lp)

AllCalm(h, v, lp, k) == \A i \in 1 .. Len(h[k].kids) : Calm(v, lp, h[k].kids[i])

Fine(h, v, pr, lp, k) ==
    k = 0 \/ (Calm(v, lp, k) /\ (k \in pr \/ k \in lp \/ AllCalm(h, v, lp, k)))

ResultsFine(h, v, pr, lp) == \A n \in DOMAIN v : Done(v, n) => Fine(h, v, pr, lp, v[n].result)

FirstVisits(v) == \A n \in DOMAIN v : v[n].busy /\ v[n].once => v[n].result = n

CallFine(h, v, f, pr, lp) ==
    \A j \in 1 .. Len(h[f.copy].kids) : j < f.at => Fine(h, v, pr, lp, h[f.copy].kids[j])

CallsFine(h, v, s, pr, lp) == \A i \in 1 .. Len(s) : CallFine(h, v, s[i], pr, lp)

LastFine(h, v, l, pr, lp) ==
    \A n \in DOMAIN l : /\ Fine(h, v, pr, lp, l[n]) /\ n \in DOMAIN v
                        /\ v[n].once => ~v[n].busy /\ v[n].result = l[n]

Sound(h, v, s, l, pr, lp) ==
    /\ ResultsFine(h, v, pr, lp) /\ FirstVisits(v)
    /\ CallsFine(h, v, s, pr, lp) /\ LastFine(h, v, l, pr, lp)

\* prune_flag is what prune() made it in this activation, and is put back for the caller.
FlagOK(s, flag) ==
    /\ s # << >> => flag = s[Len(s)].skips
    /\ \A i \in 1 .. Len(s) : s[i].step = "kids" => ~s[i].skips
    /\ \A i \in 1 .. Len(s) : i < Len(s) => s[i + 1].saved = s[i].skips

SInv == Sound(heap, visited, stack, last, pruned, looped) /\ FlagOK(stack, pruneFlag)

\* So what the run checks follows.
LEMMA SettledFor ==
    ASSUME TInv, SInv
    PROVE  ResultsSettled
<1>1. ASSUME NEW k, Calm(visited, looped, k) PROVE Settled(k)
  BY <1>1 DEF Calm, Settled
<1>2. ASSUME NEW n \in DOMAIN last, ~Busy(visited, n)
      PROVE  /\ last[n] \notin pruned \union looped \union {Null} =>
                    \A i \in DOMAIN heap[last[n]].kids : Settled(heap[last[n]].kids[i])
             /\ visited[n].once => visited[n].result = last[n]
  <2>1. PICK r : r = last[n]
    OBVIOUS
  <2>2. /\ Fine(heap, visited, pruned, looped, r) /\ n \in DOMAIN visited
        /\ visited[n].once => visited[n].result = r
    BY <2>1 DEF SInv, Sound, LastFine
  <2>3. ASSUME r \notin pruned \union looped \union {Null}
        PROVE  \A i \in DOMAIN heap[r].kids : Settled(heap[r].kids[i])
    <3>1. r \in DOMAIN visited /\ AllCalm(heap, visited, looped, r)
      BY <2>2, <2>3 DEF Fine, Calm, Known, Null
    <3>2. Private(heap, visited, stack)
      BY DEF TInv
    <3>3. r \in 1 .. Len(heap) /\ HeapOK(heap)
      BY <3>1, <3>2, Referred DEF Private
    <3>4. DOMAIN heap[r].kids = 1 .. Len(heap[r].kids)
      BY <3>3, NodeFacts
    <3>. QED
      BY <1>1, <3>1, <3>4 DEF AllCalm
  <2>. QED
    BY <2>1, <2>2, <2>3
<1>. QED
  BY <1>2 DEF ResultsSettled

\* A later tracker: what stands stands, and what is to be visited again still is.
Later(v, w) ==
    \A x \in DOMAIN v : /\ x \in DOMAIN w /\ (~v[x].once => ~w[x].once)
                        /\ Done(v, x) => w[x] = v[x]

LEMMA LaterTrans ==
    ASSUME NEW u, NEW v, NEW w, Later(u, v), Later(v, w)
    PROVE  Later(u, w)
BY Zenon DEF Later, Done, Known

LEMMA CalmGrows ==
    ASSUME NEW v, NEW w, Later(v, w), NEW lp, NEW lp2, lp \subseteq lp2, NEW k, Calm(v, lp, k)
    PROVE  Calm(w, lp2, k)
<1>1. /\ k \in DOMAIN v /\ k \in DOMAIN w /\ (~v[k].once => ~w[k].once)
      /\ Done(v, k) => w[k] = v[k]
  BY DEF Calm, Known, Later
<1>2. CASE ~v[k].once
  BY <1>1, <1>2, Zenon DEF Calm, Known
<1>3. CASE k \in lp
  BY <1>1, <1>3, Zenon DEF Calm, Known
<1>4. CASE v[k].once /\ k \notin lp
  <2>1. ~v[k].busy /\ v[k].result = k
    BY <1>4, Zenon DEF Calm
  <2>2. Done(v, k)
    BY <1>1, <1>4, <2>1, Zenon DEF Done, Known
  <2>. QED
    BY <1>1, <2>1, <2>2, Zenon DEF Calm, Known
<1>. QED
  BY <1>2, <1>3, <1>4

\* The same children in another heap, in a later tracker.
LEMMA FineGrows ==
    ASSUME NEW v, NEW w, Later(v, w), NEW pr, NEW pr2, pr \subseteq pr2,
           NEW lp, NEW lp2, lp \subseteq lp2, NEW k,
           NEW h, NEW g, k # 0 => g[k].kids = h[k].kids, Fine(h, v, pr, lp, k)
    PROVE  Fine(g, w, pr2, lp2, k)
<1>1. CASE k = 0
  BY <1>1 DEF Fine
<1>2. CASE k # 0
  <2>1. Calm(v, lp, k) /\ (k \in pr \/ k \in lp \/ AllCalm(h, v, lp, k)) /\ g[k].kids = h[k].kids
    BY <1>2 DEF Fine
  <2>2. Calm(w, lp2, k)
    BY <2>1, CalmGrows
  <2>3. ASSUME AllCalm(h, v, lp, k) PROVE AllCalm(g, w, lp2, k)
    <3>1. ASSUME NEW i \in 1 .. Len(g[k].kids) PROVE Calm(w, lp2, g[k].kids[i])
      <4>1. Calm(v, lp, g[k].kids[i])
        BY <2>1, <2>3 DEF AllCalm
      <4>. QED
        BY <4>1, CalmGrows
    <3>. QED
      BY <3>1 DEF AllCalm
  <2>. QED
    BY <2>1, <2>2, <2>3 DEF Fine
<1>. QED
  BY <1>1, <1>2

\* Only the clones of s have changed.
Alike(h, g, s) == \A k \in 1 .. Len(h) : ~Clone(s, k) => g[k].kids = h[k].kids

LEMMA FineMoves ==
    ASSUME NEW h, NEW v, NEW s, Private(h, v, s), NEW g, Alike(h, g, s), NEW w, Later(v, w),
           NEW pr, NEW pr2, pr \subseteq pr2, NEW lp, NEW lp2, lp \subseteq lp2,
           NEW k, Fine(h, v, pr, lp, k)
    PROVE  Fine(g, w, pr2, lp2, k)
<1>1. CASE k # 0
  <2>1. k \in DOMAIN v
    BY <1>1 DEF Fine, Calm, Known
  <2>2. k \in 1 .. Len(h) /\ ~Clone(s, k)
    BY <2>1, NoClones
  <2>3. g[k].kids = h[k].kids
    BY <2>2 DEF Alike
  <2>. QED
    BY <2>3, FineGrows
<1>2. CASE k = 0
  BY <1>2 DEF Fine
<1>. QED
  BY <1>1, <1>2

LEMMA LastMoves ==
    ASSUME NEW h, NEW v, NEW s, Private(h, v, s), NEW g, Alike(h, g, s), NEW w, Later(v, w),
           NEW pr, NEW pr2, pr \subseteq pr2, NEW lp, NEW lp2, lp \subseteq lp2,
           NEW l, LastFine(h, v, l, pr, lp)
    PROVE  LastFine(g, w, l, pr2, lp2)
<1>1. ASSUME NEW n \in DOMAIN l
      PROVE  /\ Fine(g, w, pr2, lp2, l[n]) /\ n \in DOMAIN w
             /\ w[n].once => ~w[n].busy /\ w[n].result = l[n]
  <2>1. /\ Fine(h, v, pr, lp, l[n]) /\ n \in DOMAIN v
        /\ v[n].once => ~v[n].busy /\ v[n].result = l[n]
    BY DEF LastFine
  <2>2. Fine(g, w, pr2, lp2, l[n])
    BY <2>1, FineMoves
  <2>3. /\ n \in DOMAIN w /\ (~v[n].once => ~w[n].once)
        /\ Done(v, n) => w[n] = v[n]
    BY <2>1 DEF Later
  <2>4. v[n].once => Done(v, n)
    BY <2>1, Zenon DEF Done, Known
  <2>. QED
    BY <2>1, <2>2, <2>3, <2>4, Zenon
<1>. QED
  BY <1>1 DEF LastFine

LEMMA ResultsMove ==
    ASSUME NEW h, NEW v, NEW s, Private(h, v, s), NEW g, Alike(h, g, s), NEW w, Later(v, w),
           NEW pr, NEW pr2, pr \subseteq pr2, NEW lp, NEW lp2, lp \subseteq lp2,
           ResultsFine(h, v, pr, lp),
           \A n \in DOMAIN w : Done(w, n) => Done(v, n) \/ Fine(g, w, pr2, lp2, w[n].result)
    PROVE  ResultsFine(g, w, pr2, lp2)
<1>1. ASSUME NEW n \in DOMAIN w, Done(w, n), Done(v, n) PROVE Fine(g, w, pr2, lp2, w[n].result)
  <2>1. n \in DOMAIN v
    BY <1>1 DEF Done, Known
  <2>2. w[n] = v[n] /\ Fine(h, v, pr, lp, v[n].result)
    BY <1>1, <2>1 DEF Later, ResultsFine
  <2>3. Fine(g, w, pr2, lp2, v[n].result)
    BY <2>2, FineMoves
  <2>. QED
    BY <2>2, <2>3
<1>. QED
  BY <1>1, Zenon DEF ResultsFine

\* An activation whose clone keeps its children.
LEMMA CallMoves ==
    ASSUME NEW h, NEW v, NEW s, Private(h, v, s), NEW g, Alike(h, g, s), NEW w, Later(v, w),
           NEW pr, NEW pr2, pr \subseteq pr2, NEW lp, NEW lp2, lp \subseteq lp2,
           NEW f, g[f.copy].kids = h[f.copy].kids, CallFine(h, v, f, pr, lp)
    PROVE  CallFine(g, w, f, pr2, lp2)
<1>1. ASSUME NEW j \in 1 .. Len(g[f.copy].kids), j < f.at
      PROVE  Fine(g, w, pr2, lp2, g[f.copy].kids[j])
  <2>1. Fine(h, v, pr, lp, g[f.copy].kids[j])
    BY <1>1 DEF CallFine
  <2>. QED
    BY <2>1, FineMoves
<1>. QED
  BY <1>1 DEF CallFine

\* No node changes its children.
LEMMA SoundMoves ==
    ASSUME NEW h, NEW v, NEW s, Private(h, v, s), NEW g, NEW w, Later(v, w),
           \A k \in 1 .. Len(h) : g[k].kids = h[k].kids,
           NEW pr, NEW pr2, pr \subseteq pr2, NEW lp, NEW lp2, lp \subseteq lp2,
           NEW l, Sound(h, v, s, l, pr, lp), FirstVisits(w),
           \A n \in DOMAIN w : Done(w, n) => Done(v, n) \/ Fine(g, w, pr2, lp2, w[n].result)
    PROVE  Sound(g, w, s, l, pr2, lp2)
<1>1. Alike(h, g, s)
  BY DEF Alike
<1>2. ResultsFine(g, w, pr2, lp2) /\ LastFine(g, w, l, pr2, lp2)
  BY <1>1, ResultsMove, LastMoves DEF Sound
<1>3. ASSUME NEW i \in 1 .. Len(s) PROVE CallFine(g, w, s[i], pr2, lp2)
  <2>1. g[s[i].copy].kids = h[s[i].copy].kids
    BY Referred
  <2>2. CallFine(h, v, s[i], pr, lp)
    BY DEF Sound, CallsFine
  <2>. QED
    BY <1>1, <2>1, <2>2, CallMoves
<1>. QED
  BY <1>2, <1>3 DEF Sound, CallsFine


----------------------------------------------------------------------------
(* The tracker.                                                            *)

\* An entry that is no result, or not yet one, is written.
LEMMA EntryLater ==
    ASSUME NEW v, NEW n, ~Done(v, n), NEW e, n \in DOMAIN v => (~v[n].once => ~e.once),
           NEW w, w = With(v, n, e)
    PROVE  Later(v, w)
<1>1. /\ DOMAIN w = DOMAIN v \union {n} /\ w[n] = e
      /\ \A x \in DOMAIN v : x # n => w[x] = v[x]
  BY DEF With
<1>2. ASSUME NEW x \in DOMAIN v
      PROVE  x \in DOMAIN w /\ (~v[x].once => ~w[x].once) /\ (Done(v, x) => w[x] = v[x])
  <2>1. CASE x = n
    BY <1>1, <2>1, Zenon
  <2>2. CASE x # n
    BY <1>1, <2>2, Zenon
  <2>. QED
    BY <2>1, <2>2
<1>. QED
  BY <1>2 DEF Later

LEMMA EntryFirst ==
    ASSUME NEW v, FirstVisits(v), NEW n, NEW e, e.busy /\ e.once => e.result = n,
           NEW w, w = With(v, n, e)
    PROVE  FirstVisits(w)
<1>1. /\ DOMAIN w = DOMAIN v \union {n} /\ w[n] = e
      /\ \A x \in DOMAIN v : x # n => w[x] = v[x]
  BY DEF With
<1>2. ASSUME NEW x \in DOMAIN w, w[x].busy, w[x].once PROVE w[x].result = x
  <2>1. CASE x = n
    BY <1>1, <1>2, <2>1, Zenon
  <2>2. CASE x # n
    BY <1>1, <1>2, <2>2, Zenon DEF FirstVisits
  <2>. QED
    BY <2>1, <2>2
<1>. QED
  BY <1>2 DEF FirstVisits

\* No result is added.
LEMMA EntryOpen ==
    ASSUME NEW v, NEW n, NEW e, e.busy \/ ~e.once, NEW w, w = With(v, n, e)
    PROVE  \A x \in DOMAIN w : Done(w, x) => Done(v, x)
<1>1. /\ DOMAIN w = DOMAIN v \union {n} /\ w[n] = e
      /\ \A x \in DOMAIN v : x # n => w[x] = v[x]
  BY DEF With
<1>2. ASSUME NEW x \in DOMAIN w, Done(w, x) PROVE Done(v, x)
  <2>1. CASE x = n
    BY <1>1, <1>2, <2>1, Zenon DEF Done
  <2>2. CASE x # n
    <3>1. x \in DOMAIN v /\ w[x] = v[x]
      BY <1>1, <2>2, Zenon
    <3>. QED
      BY <1>2, <3>1, Zenon DEF Done, Known
  <2>. QED
    BY <2>1, <2>2
<1>. QED
  BY <1>2

\* A tracker that is later, with the same results.
Opens(v, w) == Later(v, w) /\ FirstVisits(w) /\ \A x \in DOMAIN w : Done(w, x) => Done(v, x)

LEMMA EntryOpens ==
    ASSUME NEW v, FirstVisits(v), NEW n, ~Done(v, n), NEW e, e.busy \/ ~e.once,
           n \in DOMAIN v => (~v[n].once => ~e.once), e.busy /\ e.once => e.result = n,
           NEW w, w = With(v, n, e)
    PROVE  Opens(v, w)
<1>1. Later(v, w)
  BY EntryLater
<1>2. FirstVisits(w)
  BY EntryFirst
<1>3. \A x \in DOMAIN w : Done(w, x) => Done(v, x)
  BY EntryOpen
<1>. QED
  BY <1>1, <1>2, <1>3 DEF Opens

\* try_start: a node that is known and not done is one to be visited every time.
LEMMA StartedOpens ==
    ASSUME NEW v, FirstVisits(v), NEW n, ~Done(v, n), ~Busy(v, n), NEW o
    PROVE  Opens(v, Started(v, n, o))
<1>1. CASE Known(v, n)
  <2>1. PICK c, r : c = v[n].once /\ r = v[n].result
    OBVIOUS
  <2>2. PICK e, w : e = Info(TRUE, c, r) /\ w = With(v, n, e)
    OBVIOUS
  <2>3. w = Started(v, n, o)
    BY <1>1, <2>1, <2>2 DEF Started
  <2>4. e.busy = TRUE /\ e.once = c
    BY <2>2 DEF Info
  <2>5. ~c
    BY <1>1, <2>1, Zenon DEF Done, Busy
  <2>6. /\ e.busy \/ ~e.once
        /\ n \in DOMAIN v => (~v[n].once => ~e.once)
        /\ e.busy /\ e.once => e.result = n
    BY <2>4, <2>5, Zenon
  <2>7. Opens(v, w)
    BY <2>2, <2>6, EntryOpens, Zenon
  <2>. QED
    BY <2>3, <2>7
<1>2. CASE ~Known(v, n)
  <2>1. PICK e, w : e = Info(TRUE, o, n) /\ w = With(v, n, e)
    OBVIOUS
  <2>2. w = Started(v, n, o)
    BY <1>2, <2>1 DEF Started
  <2>3. e.busy = TRUE /\ e.result = n
    BY <2>1 DEF Info
  <2>4. n \notin DOMAIN v
    BY <1>2 DEF Known
  <2>5. /\ e.busy \/ ~e.once
        /\ n \in DOMAIN v => (~v[n].once => ~e.once)
        /\ e.busy /\ e.once => e.result = n
    BY <2>3, <2>4, Zenon
  <2>6. Opens(v, w)
    BY <2>1, <2>5, EntryOpens, Zenon
  <2>. QED
    BY <2>2, <2>6
<1>. QED
  BY <1>1, <1>2

\* visitAgain().
LEMMA AgainOpens ==
    ASSUME NEW v, FirstVisits(v), NEW n, Busy(v, n)
    PROVE  Opens(v, MarkedAgain(v, n))
<1>1. CASE heap[n].label \in Again
  <2>1. PICK b, r : b = v[n].busy /\ r = v[n].result
    OBVIOUS
  <2>2. PICK e, w : e = Info(b, FALSE, r) /\ w = With(v, n, e)
    OBVIOUS
  <2>3. w = MarkedAgain(v, n)
    BY <1>1, <2>1, <2>2 DEF MarkedAgain
  <2>4. ~e.once
    BY <2>2 DEF Info
  <2>5. ~Done(v, n)
    BY Zenon DEF Done, Busy
  <2>6. /\ e.busy \/ ~e.once
        /\ n \in DOMAIN v => (~v[n].once => ~e.once)
        /\ e.busy /\ e.once => e.result = n
    BY <2>4, Zenon
  <2>7. Opens(v, w)
    BY <2>2, <2>5, <2>6, EntryOpens, Zenon
  <2>. QED
    BY <2>3, <2>7
<1>2. CASE heap[n].label \notin Again
  <2>1. MarkedAgain(v, n) = v
    BY <1>2 DEF MarkedAgain
  <2>2. Opens(v, v)
    BY Zenon DEF Opens, Later, Done, Known
  <2>. QED
    BY <2>1, <2>2
<1>. QED
  BY <1>1, <1>2

\* Such a tracker changes nothing of what is settled.
LEMMA OpensSound ==
    ASSUME NEW h, NEW v, NEW s, Private(h, v, s), NEW w, Opens(v, w),
           NEW g, \A k \in 1 .. Len(h) : g[k].kids = h[k].kids,
           NEW l, NEW pr, NEW lp, Sound(h, v, s, l, pr, lp)
    PROVE  Sound(g, w, s, l, pr, lp)
<1>1. Later(v, w) /\ FirstVisits(w) /\ \A x \in DOMAIN w : Done(w, x) => Done(v, x)
  BY DEF Opens
<1>. QED
  BY <1>1, SoundMoves


\* finish: the entry of n is settled, and one may be added for what it became.
Ended(v, w, h, n, final) ==
    /\ n \in DOMAIN v /\ \A x \in DOMAIN v : x \in DOMAIN w /\ (x # n => w[x] = v[x])
    /\ ~w[n].busy /\ w[n].once = v[n].once
    /\ Changes(v, h, n, final) => w[n].result = final
    /\ ~Changes(v, h, n, final) => w[n].result = v[n].result
    /\ \A x \in DOMAIN w : x \notin DOMAIN v =>
          /\ x = final /\ x # 0 /\ Replaces(h, n, final)
          /\ ~w[x].busy /\ w[x].once = v[n].once /\ w[x].result = final
    /\ final # 0 /\ Replaces(h, n, final) => final \in DOMAIN w

LEMMA FinishedEnds ==
    ASSUME NEW v, NEW n \in DOMAIN v, NEW h, NEW final
    PROVE  Ended(v, Finished(v, h, n, final), h, n, final)
<1>1. PICK o, r : o = v[n].once /\ r = IF Changes(v, h, n, final) THEN final ELSE v[n].result
  OBVIOUS
<1>2. PICK e, m : e = Info(FALSE, o, r) /\ m = With(v, n, e)
  OBVIOUS
<1>3. m = Marked(v, h, n, final)
  BY <1>1, <1>2 DEF Marked
<1>4. /\ DOMAIN m = DOMAIN v /\ m[n] = e /\ \A x \in DOMAIN v : x # n => m[x] = v[x]
  BY <1>2 DEF With
<1>5. ~e.busy /\ e.once = o /\ e.result = r
  BY <1>2 DEF Info
<1>6. /\ Changes(v, h, n, final) => e.result = final
      /\ ~Changes(v, h, n, final) => e.result = v[n].result
  BY <1>1, <1>5
<1>7. CASE final # 0 /\ Replaces(h, n, final) /\ ~Known(m, final)
  <2>1. PICK e2, w : e2 = Info(FALSE, o, final) /\ w = With(m, final, e2)
    OBVIOUS
  <2>2. w = Finished(v, h, n, final)
    BY <1>1, <1>3, <1>7, <2>1 DEF Finished, Emplaced, Null
  <2>3. /\ DOMAIN w = DOMAIN m \union {final} /\ w[final] = e2
        /\ \A x \in DOMAIN m : x # final => w[x] = m[x]
    BY <2>1 DEF With
  <2>4. ~e2.busy /\ e2.once = o /\ e2.result = final
    BY <2>1 DEF Info
  <2>5. final \notin DOMAIN v
    BY <1>4, <1>7 DEF Known
  <2>6. \A x \in DOMAIN v : x \in DOMAIN w /\ w[x] = m[x]
    BY <1>4, <2>3, <2>5, Zenon
  <2>7. w[n] = e
    BY <1>4, <2>6, Zenon
  <2>8. \A x \in DOMAIN w : x \notin DOMAIN v => x = final /\ w[x] = e2
    BY <1>4, <2>3, Zenon
  <2>9. Ended(v, w, h, n, final)
    BY <1>1, <1>4, <1>5, <1>6, <1>7, <2>3, <2>4, <2>6, <2>7, <2>8, Zenon DEF Ended
  <2>. QED
    BY <2>2, <2>9
<1>8. CASE ~(final # 0 /\ Replaces(h, n, final) /\ ~Known(m, final))
  <2>1. m = Finished(v, h, n, final)
    BY <1>3, <1>8 DEF Finished, Emplaced, Null
  <2>2. final # 0 /\ Replaces(h, n, final) => final \in DOMAIN m
    BY <1>8 DEF Known
  <2>3. Ended(v, m, h, n, final)
    BY <1>1, <1>4, <1>5, <1>6, <2>2, Zenon DEF Ended
  <2>. QED
    BY <2>1, <2>3
<1>. QED
  BY <1>7, <1>8

LEMMA EndedLater ==
    ASSUME NEW v, NEW w, NEW h, NEW n, NEW final, Busy(v, n), Ended(v, w, h, n, final)
    PROVE  Later(v, w)
<1>1. ~Done(v, n)
  BY Zenon DEF Done, Busy
<1>2. /\ \A x \in DOMAIN v : x \in DOMAIN w /\ (x # n => w[x] = v[x])
      /\ w[n].once = v[n].once
  BY DEF Ended
<1>3. ASSUME NEW x \in DOMAIN v
      PROVE  x \in DOMAIN w /\ (~v[x].once => ~w[x].once) /\ (Done(v, x) => w[x] = v[x])
  <2>1. CASE x = n
    BY <1>1, <1>2, <2>1, Zenon
  <2>2. CASE x # n
    BY <1>2, <2>2, Zenon
  <2>. QED
    BY <2>1, <2>2
<1>. QED
  BY <1>3 DEF Later

LEMMA EndedFirst ==
    ASSUME NEW v, NEW w, NEW h, NEW n, NEW final, FirstVisits(v), Ended(v, w, h, n, final)
    PROVE  FirstVisits(w)
<1>1. ASSUME NEW x \in DOMAIN w, w[x].busy, w[x].once PROVE w[x].result = x
  <2>1. x # n /\ x \in DOMAIN v
    BY <1>1, Zenon DEF Ended
  <2>2. w[x] = v[x]
    BY <2>1 DEF Ended
  <2>3. v[x].busy /\ v[x].once
    BY <1>1, <2>2
  <2>4. v[x].result = x
    BY <2>1, <2>3 DEF FirstVisits
  <2>. QED
    BY <2>2, <2>4
<1>. QED
  BY <1>1 DEF FirstVisits

\* A result in w either stood in v, or is that of n or of the node that was added.
LEMMA EndedResults ==
    ASSUME NEW v, NEW w, NEW h, NEW n, NEW final, Ended(v, w, h, n, final), NEW x \in DOMAIN w
    PROVE  \/ x \in DOMAIN v /\ x # n /\ w[x] = v[x]
           \/ x = n
           \/ x = final /\ w[x].result = final /\ ~w[x].busy /\ Replaces(h, n, final) /\ x \notin DOMAIN v
BY Zenon DEF Ended


\* The end of a visit of n, and of the node p that its preorder returned (if ex).
BothEnded(v, u, w, h, n, p, ex, final) ==
    /\ Ended(v, u, h, n, final) /\ Busy(v, n)
    /\ ex => Ended(u, w, h, p, final) /\ Busy(v, p) /\ p # n
    /\ ~ex => w = u

\* What it must establish: apply_visitor returns r for n.
Rests(h, v, w, n, pr, lp, r) ==
    /\ Later(v, w) /\ FirstVisits(w) /\ Fine(h, w, pr, lp, r)
    /\ n \in DOMAIN w /\ (w[n].once => ~w[n].busy /\ w[n].result = r)
    /\ \A x \in DOMAIN w : Done(w, x) => Done(v, x) \/ Fine(h, w, pr, lp, w[x].result)

LEMMA BothLater ==
    ASSUME NEW v, NEW u, NEW w, NEW h, NEW n, NEW p, NEW ex \in BOOLEAN, NEW final,
           FirstVisits(v), BothEnded(v, u, w, h, n, p, ex, final)
    PROVE  /\ Later(v, u) /\ Later(v, w) /\ FirstVisits(w)
           /\ n \in DOMAIN v /\ n \in DOMAIN u /\ n \in DOMAIN w /\ w[n] = u[n]
           /\ ex => p \in DOMAIN v /\ p \in DOMAIN u /\ u[p] = v[p]
<1>1. Ended(v, u, h, n, final) /\ Busy(v, n)
  BY DEF BothEnded
<1>2. Later(v, u) /\ FirstVisits(u)
  BY <1>1, EndedLater, EndedFirst
<1>3. n \in DOMAIN v /\ \A x \in DOMAIN v : x \in DOMAIN u /\ (x # n => u[x] = v[x])
  BY <1>1 DEF Ended
<1>4. CASE ex
  <2>1. Ended(u, w, h, p, final) /\ Busy(v, p) /\ p # n
    BY <1>4 DEF BothEnded
  <2>2. p \in DOMAIN v /\ u[p] = v[p] /\ p \in DOMAIN u
    BY <1>3, <2>1 DEF Busy, Known
  <2>3. Busy(u, p)
    BY <2>1, <2>2, Zenon DEF Busy, Known
  <2>4. Later(u, w) /\ FirstVisits(w)
    BY <1>2, <2>1, <2>3, EndedLater, EndedFirst
  <2>5. n \in DOMAIN w /\ w[n] = u[n]
    BY <1>3, <2>1 DEF Ended
  <2>6. Later(v, w)
    BY <1>2, <2>4, LaterTrans
  <2>. QED
    BY <1>2, <1>3, <2>2, <2>4, <2>5, <2>6
<1>5. CASE ~ex
  <2>1. w = u
    BY <1>5 DEF BothEnded
  <2>. QED
    BY <1>2, <1>3, <1>5, <2>1
<1>. QED
  BY <1>4, <1>5

\* Where the results that are written are those of n, of p, or of what they became.
LEMMA BothResults ==
    ASSUME NEW v, NEW u, NEW w, NEW h, NEW n, NEW p, NEW ex \in BOOLEAN, NEW final,
           FirstVisits(v), BothEnded(v, u, w, h, n, p, ex, final), NEW x \in DOMAIN w, Done(w, x)
    PROVE  \/ Done(v, x)
           \/ x = n
           \/ ex /\ x = p
           \/ w[x].result = final /\ (Replaces(h, n, final) \/ (ex /\ Replaces(h, p, final)))
<1>1. ASSUME NEW y \in DOMAIN u, Done(u, y)
      PROVE  Done(v, y) \/ y = n \/ (u[y].result = final /\ Replaces(h, n, final))
  <2>1. Ended(v, u, h, n, final)
    BY DEF BothEnded
  <2>2. \/ y \in DOMAIN v /\ y # n /\ u[y] = v[y]
        \/ y = n
        \/ y = final /\ u[y].result = final /\ ~u[y].busy /\ Replaces(h, n, final) /\ y \notin DOMAIN v
    BY <2>1, EndedResults
  <2>3. y \in DOMAIN v /\ u[y] = v[y] => Done(v, y)
    BY <1>1, Zenon DEF Done, Known
  <2>. QED
    BY <2>2, <2>3, Zenon
<1>2. CASE ex
  <2>1. Ended(u, w, h, p, final)
    BY <1>2 DEF BothEnded
  <2>2. \/ x \in DOMAIN u /\ x # p /\ w[x] = u[x]
        \/ x = p
        \/ x = final /\ w[x].result = final /\ ~w[x].busy /\ Replaces(h, p, final) /\ x \notin DOMAIN u
    BY <2>1, EndedResults
  <2>3. x \in DOMAIN u /\ w[x] = u[x] => Done(u, x)
    BY Zenon DEF Done, Known
  <2>4. CASE x \in DOMAIN u /\ w[x] = u[x]
    BY <1>1, <2>3, <2>4, Zenon
  <2>. QED
    BY <1>2, <2>2, <2>4, Zenon
<1>3. CASE ~ex
  <2>1. w = u
    BY <1>3 DEF BothEnded
  <2>2. x \in DOMAIN u /\ Done(u, x) /\ w[x] = u[x]
    BY <2>1
  <2>. QED
    BY <1>1, <2>2, Zenon
<1>. QED
  BY <1>2, <1>3

\* n, and p, became something that is fine.
LEMMA ChangedRests ==
    ASSUME NEW v, NEW u, NEW w, NEW h, NEW n, NEW p, NEW ex \in BOOLEAN, NEW final,
           FirstVisits(v), BothEnded(v, u, w, h, n, p, ex, final), NEW pr, NEW lp,
           Changes(v, h, n, final), ex => Changes(u, h, p, final), Fine(h, w, pr, lp, final)
    PROVE  Rests(h, v, w, n, pr, lp, final)
<1>1. /\ Later(v, w) /\ FirstVisits(w) /\ n \in DOMAIN w /\ w[n] = u[n]
  BY BothLater
<1>2. ~u[n].busy /\ u[n].result = final
  BY DEF BothEnded, Ended
<1>3. w[n].result = final /\ ~w[n].busy
  BY <1>1, <1>2
<1>4. ex => w[p].result = final
  BY DEF BothEnded, Ended
<1>5. ASSUME NEW x \in DOMAIN w, Done(w, x), ~Done(v, x) PROVE w[x].result = final
  <2>1. \/ Done(v, x)
        \/ x = n
        \/ ex /\ x = p
        \/ w[x].result = final /\ (Replaces(h, n, final) \/ (ex /\ Replaces(h, p, final)))
    BY <1>5, BothResults
  <2>. QED
    BY <1>3, <1>4, <1>5, <2>1, Zenon
<1>6. \A x \in DOMAIN w : Done(w, x) => Done(v, x) \/ Fine(h, w, pr, lp, w[x].result)
  BY <1>5, Zenon
<1>. QED
  BY <1>1, <1>3, <1>6 DEF Rests


LEMMA AllCalmGrows ==
    ASSUME NEW v, NEW w, Later(v, w), NEW h, NEW lp, NEW k, AllCalm(h, v, lp, k)
    PROVE  AllCalm(h, w, lp, k)
BY CalmGrows DEF AllCalm

\* finish does not copy a node that is equal to the one it has.
LEMMA Equal ==
    ASSUME NEW v, NEW h, NEW n \in DOMAIN v, NEW final, final # 0, ~Known(v, final),
           ~Replaces(h, n, final)
    PROVE  h[final] = h[n] /\ ~Changes(v, h, n, final)
BY DEF Replaces, Changes, Known, Null

\* n stays what it is; p may have become something else.
LEMMA UnchangedRests ==
    ASSUME NEW v, NEW u, NEW w, NEW h, NEW n, NEW p, NEW ex \in BOOLEAN, NEW final,
           FirstVisits(v), BothEnded(v, u, w, h, n, p, ex, final), NEW pr, NEW lp,
           final # 0, ~Known(v, final), ~Replaces(h, n, final),
           n \in pr \/ AllCalm(h, v, lp, final), ex => AllCalm(h, v, lp, final)
    PROVE  Rests(h, v, w, n, pr, lp, n)
<1>1. /\ Later(v, w) /\ FirstVisits(w) /\ n \in DOMAIN w /\ w[n] = u[n] /\ n \in DOMAIN v
      /\ ex => p \in DOMAIN v /\ p \in DOMAIN u /\ u[p] = v[p]
  BY BothLater
<1>2. Ended(v, u, h, n, final) /\ Busy(v, n)
  BY DEF BothEnded
<1>3. h[final] = h[n] /\ ~Changes(v, h, n, final)
  BY <1>1, Equal
<1>4. ~w[n].busy /\ w[n].once = v[n].once /\ w[n].result = v[n].result
  BY <1>1, <1>2, <1>3, Zenon DEF Ended
<1>5. w[n].once => w[n].result = n
  <2>1. v[n].busy
    BY <1>2 DEF Busy
  <2>2. v[n].once => v[n].result = n
    BY <1>1, <2>1, Zenon DEF FirstVisits
  <2>. QED
    BY <1>4, <2>2, Zenon
<1>6. final \notin DOMAIN u
  BY <1>2, Zenon DEF Ended, Known
<1>7. Fine(h, w, pr, lp, n)
  <2>1. Calm(w, lp, n)
    BY <1>1, <1>4, <1>5, Zenon DEF Calm, Known
  <2>2. n \in pr \/ AllCalm(h, w, lp, n)
    <3>1. AllCalm(h, v, lp, final) => AllCalm(h, w, lp, final)
      BY <1>1, AllCalmGrows
    <3>2. AllCalm(h, w, lp, final) => AllCalm(h, w, lp, n)
      BY <1>3 DEF AllCalm
    <3>. QED
      BY <3>1, <3>2
  <2>. QED
    BY <2>1, <2>2, Zenon DEF Fine
<1>8. ASSUME ex, Replaces(h, p, final)
      PROVE  w[p].result = final /\ Fine(h, w, pr, lp, final)
  <2>1. Ended(u, w, h, p, final)
    BY <1>8 DEF BothEnded
  <2>2. Changes(u, h, p, final)
    BY <1>8 DEF Changes
  <2>3. w[p].result = final
    BY <2>1, <2>2 DEF Ended
  <2>4. final \in DOMAIN w /\ ~w[final].busy /\ w[final].result = final
    BY <1>6, <1>8, <2>1, Zenon DEF Ended
  <2>5. Calm(w, lp, final)
    BY <2>4, Zenon DEF Calm, Known
  <2>6. AllCalm(h, w, lp, final)
    BY <1>1, <1>8, AllCalmGrows
  <2>. QED
    BY <2>3, <2>5, <2>6, Zenon DEF Fine
<1>9. ASSUME ex, ~Replaces(h, p, final), Done(w, p)
      PROVE  w[p].result = p /\ Fine(h, w, pr, lp, p)
  <2>1. Ended(u, w, h, p, final) /\ Busy(v, p)
    BY <1>9 DEF BothEnded
  <2>2. h[final] = h[p] /\ ~Changes(u, h, p, final)
    <3>1. ~Known(u, final) /\ p \in DOMAIN u
      BY <1>1, <1>6, <1>9 DEF Known
    <3>. QED
      BY <1>9, <3>1, Equal
  <2>3. ~w[p].busy /\ w[p].once = v[p].once /\ w[p].result = v[p].result
    BY <1>1, <1>9, <2>1, <2>2, Zenon DEF Ended
  <2>4. p \in DOMAIN w /\ w[p].once
    BY <1>9 DEF Done, Known
  <2>5. v[p].busy /\ p \in DOMAIN v
    BY <2>1 DEF Busy, Known
  <2>6. w[p].result = p
    BY <2>3, <2>4, <2>5, Zenon DEF FirstVisits
  <2>7. Calm(w, lp, p)
    BY <2>3, <2>4, <2>6, Zenon DEF Calm, Known
  <2>8. AllCalm(h, w, lp, final)
    BY <1>1, <1>9, AllCalmGrows
  <2>9. AllCalm(h, w, lp, p)
    BY <2>2, <2>8 DEF AllCalm
  <2>. QED
    BY <2>6, <2>7, <2>9, Zenon DEF Fine
<1>10. ASSUME NEW x \in DOMAIN w, Done(w, x), ~Done(v, x)
       PROVE  Fine(h, w, pr, lp, w[x].result)
  <2>1. \/ x = n
        \/ ex /\ x = p
        \/ w[x].result = final /\ ex /\ Replaces(h, p, final)
    <3>1. \/ Done(v, x)
          \/ x = n
          \/ ex /\ x = p
          \/ w[x].result = final /\ (Replaces(h, n, final) \/ (ex /\ Replaces(h, p, final)))
      BY <1>10, BothResults
    <3>. QED
      BY <1>10, <3>1, Zenon
  <2>2. CASE x = n
    <3>1. w[n].once
      BY <1>10, <2>2 DEF Done
    <3>. QED
      BY <1>5, <1>7, <2>2, <3>1
  <2>3. CASE ex /\ x = p /\ Replaces(h, p, final)
    BY <1>8, <2>3
  <2>4. CASE ex /\ x = p /\ ~Replaces(h, p, final)
    BY <1>9, <1>10, <2>4
  <2>5. CASE w[x].result = final /\ ex /\ Replaces(h, p, final)
    BY <1>8, <2>5
  <2>. QED
    BY <2>1, <2>2, <2>3, <2>4, <2>5, Zenon
<1>11. \A x \in DOMAIN w : Done(w, x) => Done(v, x) \/ Fine(h, w, pr, lp, w[x].result)
  BY <1>10, Zenon
<1>. QED
  BY <1>1, <1>4, <1>5, <1>7, <1>11, Zenon DEF Rests

\* What a visit may end with: something fine, a clone or new node whose children are calm, or,
\* if the children were pruned, what they were pruned of.
EndsWith(h, v, f, pr, lp, final) ==
    \/ Fine(h, v, pr, lp, final)
    \/ /\ final # 0
       /\ ~Known(v, final) \/ (f.extra /\ final = f.pre)
       /\ AllCalm(h, v, lp, final) \/ (f.skips /\ final = f.pre)

\* The marks of f are in v.
Held(v, f) ==
    /\ f.extra \in BOOLEAN /\ Busy(v, f.node)
    /\ f.extra => Busy(v, f.pre) /\ f.pre # f.node

LEMMA EndRests ==
    ASSUME NEW h, NEW v, NEW f, NEW pr, NEW lp, NEW final, FirstVisits(v), Held(v, f),
           EndsWith(h, v, f, pr, lp, final), NEW n, n = f.node,
           NEW r, r = IF Changes(v, h, n, final) THEN final ELSE n,
           NEW pr2, pr2 = IF f.skips THEN pr \union {r} ELSE pr,
           NEW w, w = FinishedExtra(Finished(v, h, n, final), h, f, final)
    PROVE  Rests(h, v, w, n, pr2, lp, r)
<1>1. PICK u, p, ex : u = Finished(v, h, n, final) /\ p = f.pre /\ ex = f.extra
  OBVIOUS
<1>2. ex \in BOOLEAN /\ BothEnded(v, u, w, h, n, p, ex, final)
  <2>1. n \in DOMAIN v /\ Busy(v, n) /\ ex \in BOOLEAN
    BY <1>1 DEF Held, Busy, Known
  <2>2. Ended(v, u, h, n, final)
    BY <1>1, <2>1, FinishedEnds
  <2>3. CASE ex
    <3>1. Busy(v, p) /\ p # n /\ p \in DOMAIN v
      BY <1>1, <2>3 DEF Held, Busy, Known
    <3>2. p \in DOMAIN u
      BY <2>2, <3>1 DEF Ended
    <3>3. w = Finished(u, h, p, final)
      BY <1>1, <2>3 DEF FinishedExtra
    <3>4. Ended(u, w, h, p, final)
      BY <3>2, <3>3, FinishedEnds
    <3>. QED
      BY <2>1, <2>2, <2>3, <3>1, <3>4 DEF BothEnded
  <2>4. CASE ~ex
    <3>1. w = u
      BY <1>1, <2>4 DEF FinishedExtra
    <3>. QED
      BY <2>1, <2>2, <2>4, <3>1 DEF BothEnded
  <2>. QED
    BY <2>1, <2>3, <2>4
<1>3. Later(v, w) /\ Later(v, u) /\ n \in DOMAIN v /\ (ex => p \in DOMAIN v)
  BY <1>2, BothLater
<1>4. pr \subseteq pr2
  OBVIOUS
<1>5. CASE Fine(h, v, pr, lp, final)
  <2>1. final = 0 \/ Known(v, final)
    BY <1>5 DEF Fine, Calm
  <2>2. Changes(v, h, n, final)
    BY <2>1 DEF Changes, Null
  <2>3. Changes(u, h, p, final)
    <3>1. Known(v, final) => Known(u, final)
      BY <1>3 DEF Later, Known
    <3>. QED
      BY <2>1, <3>1 DEF Changes, Null
  <2>4. Fine(h, w, pr2, lp, final)
    BY <1>3, <1>4, <1>5, FineGrows
  <2>5. r = final
    BY <2>2
  <2>6. Rests(h, v, w, n, pr2, lp, final)
    BY <1>2, <2>2, <2>3, <2>4, ChangedRests
  <2>. QED
    BY <2>5, <2>6
<1>6. CASE final # 0 /\ ex /\ final = p /\ (AllCalm(h, v, lp, final) \/ f.skips)
  <2>1. Changes(v, h, n, final) /\ Changes(u, h, p, final) /\ r = final
    <3>1. Known(v, final) /\ Known(u, final)
      BY <1>3, <1>6 DEF Known, Later
    <3>2. Changes(v, h, n, final) /\ Changes(u, h, p, final)
      BY <3>1 DEF Changes
    <3>. QED
      BY <3>2
  <2>2. Calm(w, lp, final)
    <3>1. Ended(u, w, h, p, final)
      BY <1>2, <1>6 DEF BothEnded
    <3>2. ~w[p].busy /\ w[p].result = final /\ p \in DOMAIN w
      BY <1>3, <1>6, <2>1, <3>1 DEF Ended, Later
    <3>. QED
      BY <1>6, <3>2, Zenon DEF Calm, Known
  <2>3. AllCalm(h, w, lp, final) \/ final \in pr2
    BY <1>3, <1>6, <2>1, AllCalmGrows
  <2>4. Fine(h, w, pr2, lp, final)
    BY <2>2, <2>3, Zenon DEF Fine
  <2>5. Rests(h, v, w, n, pr2, lp, final)
    BY <1>2, <2>1, <2>4, ChangedRests
  <2>. QED
    BY <2>1, <2>5
<1>7. CASE /\ final # 0 /\ ~Known(v, final)
           /\ AllCalm(h, v, lp, final) \/ (f.skips /\ final = p /\ ~ex)
  <2>1. CASE Replaces(h, n, final)
    <3>1. Changes(v, h, n, final) /\ r = final
      <4>1. Changes(v, h, n, final)
        BY <2>1 DEF Changes
      <4>. QED
        BY <4>1
    <3>2. Ended(v, u, h, n, final)
      BY <1>2 DEF BothEnded
    <3>3. final \in DOMAIN u /\ ~u[final].busy /\ u[final].result = final
      BY <1>7, <2>1, <3>2, Zenon DEF Ended, Known
    <3>4. Changes(u, h, p, final)
      BY <3>3 DEF Changes, Known
    <3>5. final \in DOMAIN w /\ w[final] = u[final]
      <4>1. CASE ex
        <5>1. Ended(u, w, h, p, final) /\ p # final
          BY <1>2, <1>3, <1>7, <4>1 DEF BothEnded, Known
        <5>. QED
          BY <3>3, <5>1, Zenon DEF Ended
      <4>2. CASE ~ex
        BY <1>2, <3>3, <4>2 DEF BothEnded
      <4>. QED
        BY <4>1, <4>2
    <3>6. Calm(w, lp, final)
      BY <3>3, <3>5, Zenon DEF Calm, Known
    <3>7. AllCalm(h, w, lp, final) \/ final \in pr2
      BY <1>3, <1>7, <3>1, AllCalmGrows
    <3>8. Fine(h, w, pr2, lp, final)
      BY <3>6, <3>7, Zenon DEF Fine
    <3>9. Rests(h, v, w, n, pr2, lp, final)
      BY <1>2, <3>1, <3>4, <3>8, ChangedRests
    <3>. QED
      BY <3>1, <3>9
  <2>2. CASE ~Replaces(h, n, final)
    <3>1. ~Changes(v, h, n, final)
      BY <1>3, <1>7, <2>2, Equal
    <3>2. r = n
      BY <3>1
    <3>3. n \in pr2 \/ AllCalm(h, v, lp, final)
      BY <1>7, <3>2
    <3>4. Rests(h, v, w, n, pr2, lp, n)
      BY <1>2, <1>7, <2>2, <3>3, UnchangedRests
    <3>. QED
      BY <3>2, <3>4
  <2>. QED
    BY <2>1, <2>2
<1>8. \/ Fine(h, v, pr, lp, final)
      \/ /\ final # 0
         /\ ~Known(v, final) \/ (ex /\ final = p)
         /\ AllCalm(h, v, lp, final) \/ (f.skips /\ final = p)
  BY <1>1 DEF EndsWith
<1>9. ex /\ ~Known(v, final) => final # p
  BY <1>3 DEF Known
<1>. QED
  BY <1>2, <1>5, <1>6, <1>7, <1>8, <1>9, Zenon


----------------------------------------------------------------------------
(* The stack of the calls.                                                 *)

LEMMA CallsPopped ==
    ASSUME NEW s, IsSeq(s), s # << >>, NEW h, NEW v, NEW pr, NEW lp, CallsFine(h, v, s, pr, lp)
    PROVE  CallsFine(h, v, Front(s), pr, lp)
<1>1. PICK t : t = Front(s)
  OBVIOUS
<1>2. Len(s) \in Nat \ {0} /\ Len(t) = Len(s) - 1 /\ \A i \in 1 .. Len(s) - 1 : t[i] = s[i]
  BY <1>1, FrontFacts
<1>3. \A i \in 1 .. Len(t) : i \in 1 .. Len(s) /\ t[i] = s[i]
  BY <1>2
<1>4. CallsFine(h, v, t, pr, lp)
  BY <1>3 DEF CallsFine
<1>. QED
  BY <1>1, <1>4

LEMMA CallsPushed ==
    ASSUME NEW s, IsSeq(s), NEW h, NEW v, NEW pr, NEW lp, CallsFine(h, v, s, pr, lp),
           NEW f, CallFine(h, v, f, pr, lp)
    PROVE  CallsFine(h, v, Append(s, f), pr, lp)
<1>1. PICK t : t = Append(s, f)
  OBVIOUS
<1>2. /\ Len(s) \in Nat /\ Len(t) = Len(s) + 1 /\ t[Len(s) + 1] = f
      /\ \A i \in 1 .. Len(s) : t[i] = s[i]
  BY <1>1, AppendFacts
<1>3. \A i \in 1 .. Len(t) : i \in 1 .. Len(s) \/ i = Len(s) + 1
  BY <1>2
<1>4. \A i \in 1 .. Len(t) : CallFine(h, v, t[i], pr, lp)
  BY <1>2, <1>3 DEF CallsFine
<1>. QED
  BY <1>1, <1>4 DEF CallsFine

\* The innermost goes on.
LEMMA CallsTop ==
    ASSUME NEW s, IsSeq(s), s # << >>, NEW h, NEW v, NEW pr, NEW lp, CallsFine(h, v, s, pr, lp),
           NEW f, CallFine(h, v, f, pr, lp)
    PROVE  CallsFine(h, v, Append(Front(s), f), pr, lp)
<1>1. PICK t : t = Front(s)
  OBVIOUS
<1>2. IsSeq(t) /\ CallsFine(h, v, t, pr, lp)
  BY <1>1, FrontFacts, CallsPopped
<1>3. CallsFine(h, v, Append(t, f), pr, lp)
  BY <1>2, CallsPushed
<1>. QED
  BY <1>1, <1>3

\* prune_flag is put back when a call ends,
LEMMA FlagPopped ==
    ASSUME NEW s, IsSeq(s), s # << >>, NEW flag, FlagOK(s, flag), NEW f, f = s[Len(s)]
    PROVE  FlagOK(Front(s), f.saved) /\ flag = f.skips /\ (f.step = "kids" => ~f.skips)
<1>1. PICK t, n : t = Front(s) /\ n = Len(s)
  OBVIOUS
<1>2. /\ n \in Nat \ {0} /\ Len(t) = n - 1 /\ \A i \in 1 .. n - 1 : t[i] = s[i]
      /\ IsSeq(t) /\ n \in 1 .. n
  BY <1>1, FrontFacts
<1>3. /\ flag = s[n].skips
      /\ \A i \in 1 .. n : s[i].step = "kids" => ~s[i].skips
      /\ \A i \in 1 .. n : i < n => s[i + 1].saved = s[i].skips
  BY <1>1 DEF FlagOK
<1>4. \A i \in 1 .. Len(t) : i \in 1 .. n /\ t[i] = s[i]
  BY <1>2
<1>5. \A i \in 1 .. Len(t) : t[i].step = "kids" => ~t[i].skips
  BY <1>3, <1>4, Zenon
<1>6. ASSUME NEW i \in 1 .. Len(t), i < Len(t) PROVE t[i + 1].saved = t[i].skips
  <2>1. i \in 1 .. n /\ i < n /\ i + 1 \in 1 .. Len(t)
    BY <1>2, <1>6
  <2>2. s[i + 1].saved = s[i].skips
    BY <1>3, <2>1
  <2>3. t[i] = s[i] /\ t[i + 1] = s[i + 1]
    BY <1>4, <2>1
  <2>. QED
    BY <2>2, <2>3
<1>7. ASSUME t # << >> PROVE f.saved = t[Len(t)].skips
  <2>1. Len(t) \in Nat \ {0}
    BY <1>2, <1>7, FrontFacts
  <2>2. Len(t) \in 1 .. Len(t) /\ Len(t) \in 1 .. n /\ Len(t) < n /\ Len(t) + 1 = n
    BY <1>2, <2>1
  <2>3. s[n].saved = s[Len(t)].skips
    BY <1>3, <2>2
  <2>4. t[Len(t)] = s[Len(t)]
    BY <1>4, <2>2
  <2>. QED
    BY <1>1, <2>3, <2>4
<1>8. FlagOK(t, f.saved)
  BY <1>5, <1>6, <1>7 DEF FlagOK
<1>9. s[n].step = "kids" => ~s[n].skips
  BY <1>2, <1>3, Zenon
<1>. QED
  BY <1>1, <1>3, <1>8, <1>9

\* and saved when one begins.
LEMMA FlagPushed ==
    ASSUME NEW s, IsSeq(s), NEW flag, FlagOK(s, flag), NEW f, f.saved = flag,
           f.step = "kids" => ~f.skips
    PROVE  FlagOK(Append(s, f), f.skips)
<1>1. PICK t, n : t = Append(s, f) /\ n = Len(s)
  OBVIOUS
<1>2. /\ n \in Nat /\ Len(t) = n + 1 /\ t[n + 1] = f /\ \A i \in 1 .. n : t[i] = s[i]
  BY <1>1, AppendFacts
<1>3. /\ s # << >> => flag = s[n].skips
      /\ \A i \in 1 .. n : s[i].step = "kids" => ~s[i].skips
      /\ \A i \in 1 .. n : i < n => s[i + 1].saved = s[i].skips
  BY <1>1 DEF FlagOK
<1>4. \A i \in 1 .. Len(t) : (i \in 1 .. n /\ t[i] = s[i]) \/ t[i] = f
  BY <1>2
<1>5. \A i \in 1 .. Len(t) : t[i].step = "kids" => ~t[i].skips
  BY <1>3, <1>4, Zenon
<1>6. ASSUME NEW i \in 1 .. Len(t), i < Len(t) PROVE t[i + 1].saved = t[i].skips
  <2>1. i \in 1 .. n /\ t[i] = s[i]
    BY <1>2, <1>6
  <2>2. CASE i < n
    <3>1. i + 1 \in 1 .. n
      BY <1>2, <2>1, <2>2
    <3>2. s[i + 1].saved = s[i].skips /\ t[i + 1] = s[i + 1]
      BY <1>2, <1>3, <2>1, <2>2, <3>1
    <3>. QED
      BY <2>1, <3>2
  <2>3. CASE ~(i < n)
    <3>1. i = n /\ t[i + 1] = f
      BY <1>2, <2>1, <2>3
    <3>2. s # << >>
      BY <1>1, <2>1
    <3>3. f.saved = s[n].skips
      BY <1>3, <3>2
    <3>. QED
      BY <2>1, <3>1, <3>3
  <2>. QED
    BY <2>2, <2>3
<1>7. t[Len(t)] = f
  BY <1>2
<1>8. FlagOK(t, f.skips)
  BY <1>5, <1>6, <1>7 DEF FlagOK
<1>. QED
  BY <1>1, <1>8

\* The innermost goes on.
LEMMA FlagTop ==
    ASSUME NEW s, IsSeq(s), s # << >>, NEW flag, FlagOK(s, flag), NEW f,
           f.saved = s[Len(s)].saved, f.step = "kids" => ~f.skips
    PROVE  FlagOK(Append(Front(s), f), f.skips)
<1>1. PICK t, m : t = Front(s) /\ m = s[Len(s)]
  OBVIOUS
<1>2. IsSeq(t) /\ FlagOK(t, m.saved) /\ f.saved = m.saved
  BY <1>1, FrontFacts, FlagPopped
<1>3. FlagOK(Append(t, f), f.skips)
  BY <1>2, FlagPushed
<1>. QED
  BY <1>1, <1>3

\* With the flag it had.
LEMMA FlagStays ==
    ASSUME NEW s, IsSeq(s), s # << >>, NEW flag, FlagOK(s, flag), NEW m, m = s[Len(s)], NEW f,
           f.saved = m.saved, f.skips = m.skips, f.step = m.step
    PROVE  FlagOK(Append(Front(s), f), flag)
<1>1. flag = m.skips /\ (m.step = "kids" => ~m.skips)
  BY FlagPopped
<1>2. f.step = "kids" => ~f.skips
  BY <1>1
<1>3. FlagOK(Append(Front(s), f), f.skips)
  BY <1>2, FlagTop
<1>. QED
  BY <1>1, <1>3


\* Up to the child that is put back, the children stay.
LEMMA EarlierKids ==
    ASSUME NEW S, NEW kids \in Seq(S), NEW i \in 1 .. Len(kids), NEW r
    PROVE  /\ \A j \in 1 .. Len(RemoveAt(kids, i)) : j < i => RemoveAt(kids, i)[j] = kids[j]
           /\ \A j \in 1 .. Len(ReplaceAt(kids, i, r)) :
                 ReplaceAt(kids, i, r)[j] = IF j = i THEN r ELSE kids[j]
           /\ \A j \in 1 .. Len(kids) : j < i => j \in 1 .. i - 1
           /\ Len(ReplaceAt(kids, i, r)) = Len(kids)
<1>1. Len(kids) \in Nat /\ \A j \in 1 .. Len(kids) : kids[j] \in S
  BY LenProperties, ElementOfSeq
<1>2. PICK a, b, z : a = i - 1 /\ b = i + 1 /\ z = Len(kids)
  OBVIOUS
<1>3. /\ a \in Int /\ b \in Int /\ z \in Int /\ 1 \in Int /\ a \in Nat
      /\ \A j \in 1 .. a : j \in 1 .. Len(kids)
      /\ \A j \in b .. z : j \in 1 .. Len(kids)
  BY <1>1, <1>2
<1>4. PICK p, q : p = SubSeq(kids, 1, a) /\ q = SubSeq(kids, b, z)
  OBVIOUS
<1>5. /\ SubSeq(kids, 1, a) \in Seq(S)
      /\ Len(SubSeq(kids, 1, a)) = IF 1 <= a THEN a - 1 + 1 ELSE 0
      /\ \A j \in 1 .. a - 1 + 1 : SubSeq(kids, 1, a)[j] = kids[1 + j - 1]
  BY <1>1, <1>3, SubSeqProperties
<1>6. p \in Seq(S) /\ Len(p) = a /\ \A j \in 1 .. a : p[j] = kids[j]
  <2>1. a - 1 + 1 = a /\ \A j \in 1 .. a : 1 + j - 1 = j
    BY <1>3
  <2>2. Len(p) = a
    BY <1>3, <1>4, <1>5
  <2>. QED
    BY <1>4, <1>5, <2>1, <2>2
<1>7. q \in Seq(S)
  BY <1>1, <1>3, <1>4, SubSeqProperties
<1>8. /\ Len(p \o q) = Len(p) + Len(q) /\ Len(q) \in Nat
      /\ \A j \in 1 .. Len(p) + Len(q) :
            (p \o q)[j] = IF j <= Len(p) THEN p[j] ELSE q[j - Len(p)]
  BY <1>6, <1>7, ConcatProperties, LenProperties
<1>9. RemoveAt(kids, i) = p \o q
  BY <1>2, <1>4 DEF RemoveAt
<1>10. ASSUME NEW j \in 1 .. Len(p \o q), j < i PROVE (p \o q)[j] = kids[j]
  <2>1. j \in 1 .. a /\ j <= Len(p) /\ j \in 1 .. Len(p) + Len(q)
    BY <1>2, <1>3, <1>6, <1>8, <1>10
  <2>2. (p \o q)[j] = p[j]
    BY <1>8, <2>1
  <2>. QED
    BY <1>6, <2>1, <2>2
<1>11. PICK U : U = S \union {r}
  OBVIOUS
<1>12. kids \in Seq(U) /\ r \in U
  BY <1>11, SeqMonotonic
<1>13. /\ Len(ReplaceAt(kids, i, r)) = Len(kids)
       /\ \A j \in 1 .. Len(kids) : ReplaceAt(kids, i, r)[j] = IF j = i THEN r ELSE kids[j]
  BY <1>12, ExceptSeq DEF ReplaceAt
<1>14. \A j \in 1 .. Len(kids) : j < i => j \in 1 .. i - 1
  BY <1>1
<1>. QED
  BY <1>9, <1>10, <1>13, <1>14

\* Which fields a call keeps when it goes on.
LEMMA AdvancedFields ==
    ASSUME NEW k, NEW m \in Frames(k), NEW r
    PROVE  LET a == Advanced(m, r) IN
             /\ a.node = m.node /\ a.copy = m.copy /\ a.saved = m.saved /\ a.skips = m.skips
             /\ a.step = m.step /\ a.at = IF r = Null THEN m.at ELSE m.at + 1
<1>1. PICK n, a : n = m.at + 1 /\ a = Advanced(m, r)
  OBVIOUS
<1>2. m.at \in Nat /\ n \in Nat \ {0}
  BY <1>1 DEF Frames
<1>3. CASE r = Null
  BY <1>1, <1>3 DEF Advanced
<1>4. CASE r # Null
  <2>1. a = [m EXCEPT !.at = n]
    BY <1>1, <1>4 DEF Advanced, Frames
  <2>2. /\ a.node = m.node /\ a.copy = m.copy /\ a.saved = m.saved /\ a.skips = m.skips
        /\ a.step = m.step /\ a.at = n
    BY <1>2, <2>1 DEF Frames
  <2>. QED
    BY <1>1, <1>4, <2>2
<1>. QED
  BY <1>3, <1>4

\* What became of a child is put back.
LEMMA PutBackSound ==
    ASSUME NEW h, NEW v, NEW s, Private(h, v, s), s # << >>, NEW m, m = s[Len(s)],
           m.at \in 1 .. Len(h[m.copy].kids), NEW r, r \in 0 .. Len(h),
           NEW l, NEW pr, NEW lp, Sound(h, v, s, l, pr, lp), Fine(h, v, pr, lp, r),
           NEW g, g = PutBack(h, m, r), NEW a, a = Advanced(m, r)
    PROVE  Sound(g, v, Append(Front(s), a), l, pr, lp)
<1>1. PICK c, k, K0 : c = m.copy /\ k = Len(h) /\ K0 = h[c].kids
  OBVIOUS
<1>2. /\ IsSeq(s) /\ HeapOK(h) /\ k \in Nat /\ m \in Frames(k) /\ c \in 1 .. k
      /\ Len(s) \in 1 .. Len(s)
  <2>1. Len(s) \in 1 .. Len(s)
    BY FrontFacts DEF Private
  <2>2. m \in Frames(k)
    BY <1>1, <2>1 DEF Private, Fits
  <2>3. c \in 1 .. k
    BY <1>1, <2>2 DEF Frames
  <2>. QED
    BY <1>1, <2>1, <2>2, <2>3, Referred DEF Private
<1>3. h[c] \in Nodes(k) /\ K0 \in Seq(1 .. k) /\ m.at \in 1 .. Len(K0) /\ Len(K0) \in Nat
  BY <1>1, <1>2, NodeFacts
<1>4. PICK K : K = IF r = Null THEN RemoveAt(K0, m.at) ELSE ReplaceAt(K0, m.at, r)
  OBVIOUS
<1>5. PICK x : x = [h[c] EXCEPT !.kids = K]
  OBVIOUS
<1>6. g = [h EXCEPT ![c] = x]
  BY <1>1, <1>2, <1>4, <1>5 DEF PutBack
<1>7. g[c].kids = K /\ \A i \in 1 .. k : i # c => g[i] = h[i]
  <2>1. x.kids = K
    BY <1>3, <1>5 DEF Nodes
  <2>2. DOMAIN h = 1 .. k
    BY <1>1, <1>2, NodeFacts
  <2>. QED
    BY <1>2, <1>6, <2>1, <2>2
<1>8. Alike(h, g, s)
  <2>1. Clone(s, c)
    BY <1>1, <1>2 DEF Clone
  <2>. QED
    BY <1>1, <1>7, <2>1 DEF Alike
<1>9. Later(v, v)
  BY Zenon DEF Later
<1>10. ASSUME NEW y, Fine(h, v, pr, lp, y) PROVE Fine(g, v, pr, lp, y)
  BY <1>8, <1>9, <1>10, FineMoves
<1>11. ResultsFine(g, v, pr, lp) /\ LastFine(g, v, l, pr, lp) /\ FirstVisits(v)
  <2>1. ResultsFine(g, v, pr, lp)
    BY <1>10 DEF Sound, ResultsFine
  <2>2. LastFine(g, v, l, pr, lp)
    BY <1>10 DEF Sound, LastFine
  <2>. QED
    BY <2>1, <2>2 DEF Sound
<1>12. PICK t : t = Front(s)
  OBVIOUS
<1>13. /\ IsSeq(t) /\ Len(t) = Len(s) - 1 /\ \A i \in 1 .. Len(s) - 1 : t[i] = s[i]
       /\ Len(s) \in Nat
  BY <1>2, <1>12, FrontFacts
<1>14. CallsFine(g, v, t, pr, lp)
  <2>1. ASSUME NEW i \in 1 .. Len(t) PROVE CallFine(g, v, t[i], pr, lp)
    <3>1. t[i] = s[i] /\ i \in 1 .. Len(s) /\ i # Len(s)
      BY <1>13
    <3>2. s[i].copy # c /\ s[i].copy \in 1 .. k
      BY <1>1, <1>2, <3>1, Referred DEF Private
    <3>3. g[s[i].copy].kids = h[s[i].copy].kids
      BY <1>7, <3>2
    <3>4. CallFine(h, v, s[i], pr, lp)
      BY <3>1 DEF Sound, CallsFine
    <3>5. CallFine(g, v, s[i], pr, lp)
      BY <1>10, <3>3, <3>4 DEF CallFine
    <3>. QED
      BY <3>1, <3>5
  <2>. QED
    BY <2>1 DEF CallsFine
<1>15. a.copy = c /\ a.at = IF r = Null THEN m.at ELSE m.at + 1
  BY <1>1, <1>2, AdvancedFields
<1>16. ASSUME NEW j \in 1 .. Len(K), j < a.at PROVE Fine(h, v, pr, lp, K[j])
  <2>1. ASSUME j < m.at, K[j] = K0[j] PROVE Fine(h, v, pr, lp, K[j])
    <3>1. j \in 1 .. Len(K0)
      BY <1>3, <2>1
    <3>2. CallFine(h, v, m, pr, lp)
      BY <1>2 DEF Sound, CallsFine
    <3>3. Fine(h, v, pr, lp, K0[j])
      BY <1>1, <2>1, <3>1, <3>2 DEF CallFine
    <3>. QED
      BY <2>1, <3>3
  <2>2. CASE r = Null
    <3>1. K = RemoveAt(K0, m.at) /\ j < m.at
      BY <1>4, <1>15, <1>16, <2>2
    <3>2. K[j] = K0[j]
      BY <1>3, <3>1, EarlierKids
    <3>. QED
      BY <2>1, <3>1, <3>2
  <2>3. CASE r # Null
    <3>1. K = ReplaceAt(K0, m.at, r) /\ j < m.at + 1
      BY <1>4, <1>15, <1>16, <2>3
    <3>2. K[j] = IF j = m.at THEN r ELSE K0[j]
      <4>1. PICK n : n = m.at
        OBVIOUS
      <4>2. n \in 1 .. Len(K0) /\ K = ReplaceAt(K0, n, r)
        BY <1>3, <3>1, <4>1
      <4>3. \A e \in 1 .. Len(ReplaceAt(K0, n, r)) :
               ReplaceAt(K0, n, r)[e] = IF e = n THEN r ELSE K0[e]
        BY <1>3, <4>2, EarlierKids
      <4>4. K[j] = IF j = n THEN r ELSE K0[j]
        BY <4>2, <4>3
      <4>. QED
        BY <4>1, <4>4
    <3>3. CASE j = m.at
      BY <3>2, <3>3
    <3>4. CASE j # m.at
      <4>1. j < m.at
        BY <1>3, <3>1, <3>4
      <4>. QED
        BY <2>1, <3>2, <3>4, <4>1
    <3>. QED
      BY <3>3, <3>4
  <2>. QED
    BY <2>2, <2>3
<1>17. CallFine(g, v, a, pr, lp)
  BY <1>7, <1>10, <1>15, <1>16 DEF CallFine
<1>18. CallsFine(g, v, Append(t, a), pr, lp)
  BY <1>13, <1>14, <1>17, CallsPushed
<1>. QED
  BY <1>11, <1>12, <1>18 DEF Sound


----------------------------------------------------------------------------
(* The end of a call.                                                      *)

LEMMA RestsSound ==
    ASSUME NEW h, NEW v, NEW s, Private(h, v, s), NEW w, NEW n, NEW r, NEW pr, NEW pr2, pr \subseteq pr2,
           NEW lp, Rests(h, v, w, n, pr2, lp, r), NEW l, Sound(h, v, s, l, pr, lp)
    PROVE  Sound(h, w, s, With(l, n, r), pr2, lp)
<1>1. /\ Later(v, w) /\ FirstVisits(w) /\ Fine(h, w, pr2, lp, r)
      /\ n \in DOMAIN w /\ (w[n].once => ~w[n].busy /\ w[n].result = r)
      /\ \A x \in DOMAIN w : Done(w, x) => Done(v, x) \/ Fine(h, w, pr2, lp, w[x].result)
  BY DEF Rests
<1>2. \A k \in 1 .. Len(h) : h[k].kids = h[k].kids
  OBVIOUS
<1>3. Sound(h, w, s, l, pr2, lp)
  BY <1>1, <1>2, SoundMoves
<1>4. PICK l2 : l2 = With(l, n, r)
  OBVIOUS
<1>5. /\ DOMAIN l2 = DOMAIN l \union {n} /\ l2[n] = r
      /\ \A x \in DOMAIN l : x # n => l2[x] = l[x]
  BY <1>4 DEF With
<1>6. ASSUME NEW x \in DOMAIN l2
      PROVE  /\ Fine(h, w, pr2, lp, l2[x]) /\ x \in DOMAIN w
             /\ w[x].once => ~w[x].busy /\ w[x].result = l2[x]
  <2>1. CASE x = n
    BY <1>1, <1>5, <2>1, Zenon
  <2>2. CASE x # n
    <3>1. x \in DOMAIN l /\ l2[x] = l[x]
      BY <1>5, <2>2, Zenon
    <3>2. /\ Fine(h, w, pr2, lp, l[x]) /\ x \in DOMAIN w
          /\ w[x].once => ~w[x].busy /\ w[x].result = l[x]
      BY <1>3, <3>1 DEF Sound, LastFine
    <3>. QED
      BY <3>1, <3>2
  <2>. QED
    BY <2>1, <2>2
<1>7. LastFine(h, w, l2, pr2, lp)
  BY <1>6 DEF LastFine
<1>. QED
  BY <1>3, <1>4, <1>7 DEF Sound

\* A clone that came out equal is dropped.
LEMMA Coalesced ==
    ASSUME NEW h, NEW v, NEW f, Fits(h, v, f), f.extra \in BOOLEAN, f.copy # 0, NEW pr, NEW lp,
           NEW final0, EndsWith(h, v, f, pr, lp, final0), f.pre # 0,
           NEW final, final = IF final0 = f.copy /\ h[final0] = h[f.pre] THEN f.pre ELSE final0
    PROVE  EndsWith(h, v, f, pr, lp, final)
<1>1. /\ f.copy \notin DOMAIN v /\ (f.extra => f.pre \in DOMAIN v)
      /\ ~f.extra => f.pre = f.copy
  BY DEF Fits, Unlisted
<1>2. CASE final0 = f.copy /\ h[final0] = h[f.pre]
  <2>1. ~Fine(h, v, pr, lp, final0)
    BY <1>1, <1>2 DEF Fine, Calm, Known
  <2>2. AllCalm(h, v, lp, final0) \/ f.skips
    BY <2>1 DEF EndsWith
  <2>3. AllCalm(h, v, lp, f.pre) \/ f.skips
    BY <1>2, <2>2 DEF AllCalm
  <2>4. ~Known(v, f.pre) \/ f.extra
    BY <1>1 DEF Known
  <2>5. final = f.pre
    BY <1>2
  <2>. QED
    BY <2>3, <2>4, <2>5, Zenon DEF EndsWith
<1>3. CASE ~(final0 = f.copy /\ h[final0] = h[f.pre])
  <2>1. final = final0
    BY <1>3
  <2>. QED
    BY <2>1
<1>. QED
  BY <1>2, <1>3

\* What a step must establish, unless it meets a node that is being visited.
SMoved == Sound(heap', visited', stack', last', pruned', looped) /\ FlagOK(stack', pruneFlag')

LEMMA ReturnSound ==
    ASSUME TInv, status = "run", NEW f, NEW h, NEW v, NEW t, t = Append(Front(stack), f),
           Private(h, v, t), Sound(h, v, Front(stack), last, pruned, looped), FlagOK(t, pruneFlag),
           Held(v, f),
           NEW final0, final0 \in 0 .. Len(h), final0 = f.copy \/ ~Clone(t, final0),
           EndsWith(h, v, f, pruned, looped, final0), Return(f, h, v, final0)
    PROVE  SMoved
<1>1. PICK below : below = Front(stack)
  OBVIOUS
<1>2. IsSeq(below) /\ t = Append(below, f)
  BY <1>1, TopFits, FrontFacts DEF TInv, Private
<1>3. PICK n, final : n = f.node /\ final = IF final0 = f.copy /\ h[final0] = h[f.pre] THEN f.pre ELSE final0
  OBVIOUS
<1>4. PICK r : r = IF Changes(v, h, n, final) THEN final ELSE n
  OBVIOUS
<1>5. PICK w, pr2, l2 : /\ w = FinishedExtra(Finished(v, h, n, final), h, f, final)
                        /\ pr2 = (IF f.skips THEN pruned \union {r} ELSE pruned)
                        /\ l2 = With(last, n, r)
  OBVIOUS
<1>6. /\ visited' = w /\ last' = l2 /\ pruned' = pr2 /\ pruneFlag' = f.saved
      /\ below = << >> => stack' = << >> /\ heap' = h
      /\ below # << >> =>
            /\ heap' = PutBack(h, Last(below), r)
            /\ stack' = Append(Front(below), Advanced(Last(below), r))
  BY <1>1, <1>3, <1>4, <1>5 DEF Return, FlagRestored
<1>7. /\ final \in 0 .. Len(h) /\ n \in 1 .. Len(h) /\ Private(h, w, below)
      /\ below # << >> => Waits(h, below[Len(below)], f.node)
  <2>1. final = final0 \/ final = f.pre
    BY <1>3
  <2>2. PICK u : u = FinishedExtra(Finished(v, h, f.node, final), h, f, final)
    OBVIOUS
  <2>3. /\ final \in 0 .. Len(h) /\ f.node \in 1 .. Len(h) /\ Private(h, u, below)
        /\ below # << >> => Waits(h, below[Len(below)], f.node)
    BY <1>2, <2>1, <2>2, LeftPrivate
  <2>4. u = w
    BY <1>3, <1>5, <2>2
  <2>. QED
    BY <1>3, <2>3, <2>4
<1>8. /\ t # << >> /\ t[Len(t)] = f /\ Front(t) = below /\ IsSeq(t) /\ Len(t) \in 1 .. Len(t)
  <2>1. t # << >> /\ t[Len(t)] = f /\ IsSeq(t)
    BY <1>2, AppendFacts
  <2>2. Len(t) \in Nat \ {0}
    BY <2>1, FrontFacts
  <2>. QED
    BY <1>2, <2>1, <2>2, FrontAppend
<1>9. EndsWith(h, v, f, pruned, looped, final)
  <2>1. Fits(h, v, f)
    BY <1>8 DEF Private
  <2>2. f.pre \in 1 .. Len(h) /\ f.copy \in 1 .. Len(h) /\ f.extra \in BOOLEAN
    BY <2>1 DEF Fits, Frames
  <2>3. f.pre # 0 /\ f.copy # 0
    BY <2>2
  <2>. QED
    BY <1>3, <2>1, <2>2, <2>3, Coalesced
<1>10. Rests(h, v, w, n, pr2, looped, r)
  <2>1. FirstVisits(v)
    BY DEF Sound
  <2>. QED
    BY <1>3, <1>4, <1>5, <1>9, <2>1, EndRests
<1>11. Private(h, v, below) /\ Sound(h, v, below, last, pruned, looped)
  <2>1. Private(h, v, Front(t))
    BY <1>8, PoppedPrivate
  <2>. QED
    BY <1>1, <1>8, <2>1
<1>12. Sound(h, w, below, l2, pr2, looped)
  <2>1. pruned \subseteq pr2
    BY <1>5
  <2>. QED
    BY <1>5, <1>10, <1>11, <2>1, RestsSound
<1>13. FlagOK(below, f.saved)
  <2>1. FlagOK(Front(t), f.saved)
    BY <1>8, FlagPopped
  <2>. QED
    BY <1>8, <2>1
<1>14. CASE below = << >>
  BY <1>6, <1>12, <1>13, <1>14 DEF SMoved
<1>15. CASE below # << >>
  <2>1. PICK m, g, a : m = below[Len(below)] /\ g = PutBack(h, m, r) /\ a = Advanced(m, r)
    OBVIOUS
  <2>2. m.at \in 1 .. Len(h[m.copy].kids)
    BY <1>7, <1>15, <2>1 DEF Waits
  <2>3. r \in 0 .. Len(h) /\ Fine(h, w, pr2, looped, r)
    <3>1. Fine(h, w, pr2, looped, r)
      BY <1>10 DEF Rests
    <3>2. r \in 0 .. Len(h)
      BY <1>4, <1>7
    <3>. QED
      BY <3>1, <3>2
  <2>4. Sound(g, w, Append(Front(below), a), l2, pr2, looped)
    BY <1>7, <1>12, <1>15, <2>1, <2>2, <2>3, PutBackSound
  <2>5. a.saved = m.saved /\ a.skips = m.skips /\ a.step = m.step
    <3>1. Len(below) \in Nat \ {0}
      BY <1>2, <1>15, FrontFacts
    <3>2. Fits(h, w, m)
      BY <1>7, <2>1, <3>1 DEF Private
    <3>3. m \in Frames(Len(h))
      BY <3>2 DEF Fits
    <3>. QED
      BY <2>1, <3>3, AdvancedFields
  <2>6. FlagOK(Append(Front(below), a), f.saved)
    BY <1>2, <1>13, <1>15, <2>1, <2>5, FlagStays
  <2>7. heap' = g /\ stack' = Append(Front(below), a)
    BY <1>6, <1>15, <2>1 DEF Last
  <2>. QED
    BY <1>6, <2>4, <2>6, <2>7 DEF SMoved
<1>. QED
  BY <1>14, <1>15


LEMMA PoppedSound ==
    ASSUME NEW h, NEW v, NEW s, IsSeq(s), s # << >>, NEW l, NEW pr, NEW lp, Sound(h, v, s, l, pr, lp)
    PROVE  Sound(h, v, Front(s), l, pr, lp)
BY CallsPopped DEF Sound

\* preorder is over.
LEMMA DescendSound ==
    ASSUME TInv, status = "run", NEW f, NEW h, NEW v, NEW t, t = Append(Front(stack), f),
           Private(h, v, t), Sound(h, v, Front(stack), last, pruned, looped), FlagOK(t, pruneFlag),
           Held(v, f), Descend(f, h, v)
    PROVE  SMoved
<1>1. PICK below : below = Front(stack)
  OBVIOUS
<1>2. IsSeq(below) /\ t = Append(below, f)
  BY <1>1, TopFits, FrontFacts DEF TInv, Private
<1>3. /\ t # << >> /\ t[Len(t)] = f /\ Front(t) = below /\ IsSeq(t) /\ Len(t) \in 1 .. Len(t)
  <2>1. t # << >> /\ t[Len(t)] = f /\ IsSeq(t)
    BY <1>2, AppendFacts
  <2>2. Len(t) \in Nat \ {0}
    BY <2>1, FrontFacts
  <2>. QED
    BY <1>2, <2>1, <2>2, FrontAppend
<1>4. /\ Fits(h, v, f) /\ f \in Frames(Len(h)) /\ f.pre \in 1 .. Len(h) /\ f.extra \in BOOLEAN
  <2>1. Fits(h, v, f)
    BY <1>3 DEF Private
  <2>. QED
    BY <2>1 DEF Fits, Frames
<1>5. pruneFlag = f.skips
  BY <1>3, FlagPopped
<1>6. CASE pruneFlag
  <2>1. PICK p : p = f.pre
    OBVIOUS
  <2>2. Return(f, h, v, p)
    BY <1>6, <2>1 DEF Descend
  <2>3. p \in 0 .. Len(h) /\ p # 0
    BY <1>4, <2>1
  <2>4. p = f.copy \/ p \in DOMAIN v
    BY <1>4, <2>1 DEF Fits
  <2>5. p = f.copy \/ ~Clone(t, p)
    BY <2>4, NoClones
  <2>6. ~Known(v, p) \/ f.extra
    BY <1>4, <2>1 DEF Fits, Unlisted, Known
  <2>7. EndsWith(h, v, f, pruned, looped, p)
    BY <1>5, <1>6, <2>1, <2>3, <2>6, Zenon DEF EndsWith
  <2>. QED
    BY <2>2, <2>3, <2>5, <2>7, ReturnSound
<1>7. CASE ~pruneFlag
  <2>1. PICK g : g = [f EXCEPT !.at = 1, !.step = "kids"]
    OBVIOUS
  <2>2. /\ heap' = h /\ visited' = v /\ stack' = Append(below, g)
        /\ pruneFlag' = pruneFlag /\ last' = last /\ pruned' = pruned
    BY <1>1, <1>7, <2>1 DEF Descend
  <2>3. g.at = 1 /\ g.saved = f.saved /\ g.skips = f.skips
    BY <1>4, <2>1 DEF Frames
  <2>4. CallFine(h, v, g, pruned, looped)
    <3>1. \A j \in 1 .. Len(h[g.copy].kids) : ~(j < g.at)
      BY <2>3
    <3>. QED
      BY <3>1 DEF CallFine
  <2>5. Sound(h, v, Append(below, g), last, pruned, looped)
    <3>1. Sound(h, v, below, last, pruned, looped)
      BY <1>1
    <3>. QED
      BY <1>2, <2>4, <3>1, CallsPushed DEF Sound
  <2>6. FlagOK(Append(below, g), g.skips)
    <3>1. g.saved = t[Len(t)].saved /\ (g.step = "kids" => ~g.skips)
      BY <1>3, <1>5, <1>7, <2>3
    <3>2. FlagOK(Append(Front(t), g), g.skips)
      BY <1>3, <3>1, FlagTop
    <3>. QED
      BY <1>3, <3>2
  <2>7. g.skips = pruneFlag'
    BY <1>5, <2>2, <2>3
  <2>. QED
    BY <2>2, <2>5, <2>6, <2>7 DEF SMoved
<1>. QED
  BY <1>6, <1>7

----------------------------------------------------------------------------
(* Steps, and what is settled.                                             *)

\* The innermost activation.
LEMMA TopSound ==
    ASSUME TInv, IInv, SInv, status = "run"
    PROVE  /\ Held(visited, Top) /\ CallFine(heap, visited, Top, pruned, looped)
           /\ Sound(heap, visited, stack, last, pruned, looped)
           /\ FlagOK(stack, pruneFlag) /\ FlagOK(Append(Front(stack), Top), pruneFlag)
           /\ IsSeq(stack) /\ FirstVisits(visited)
<1>1. PICK m : m = Top
  OBVIOUS
<1>2. /\ stack # << >> /\ m = stack[Len(stack)] /\ IsSeq(stack) /\ Len(stack) \in 1 .. Len(stack)
  BY <1>1, TopFits DEF TInv, Private
<1>3. /\ m.extra \in BOOLEAN /\ (m.extra => m.pre # m.node)
      /\ \A n \in Marks(m) : Busy(visited, n)
  <2>1. m.extra \in BOOLEAN /\ (m.extra => m.pre # m.node)
    BY <1>1, TopOK
  <2>2. MarksOK(visited, stack)
    BY DEF IInv
  <2>. QED
    BY <1>2, <2>1, <2>2, TopFacts
<1>4. Held(visited, m)
  <2>1. m.node \in Marks(m) /\ (m.extra => m.pre \in Marks(m))
    BY DEF Marks
  <2>. QED
    BY <1>3, <2>1 DEF Held
<1>5. /\ Sound(heap, visited, stack, last, pruned, looped) /\ FlagOK(stack, pruneFlag)
      /\ FirstVisits(visited) /\ CallsFine(heap, visited, stack, pruned, looped)
  BY DEF SInv, Sound
<1>6. CallFine(heap, visited, m, pruned, looped)
  BY <1>2, <1>5 DEF CallsFine
<1>7. FlagOK(Append(Front(stack), m), pruneFlag)
  BY <1>2, <1>5, FlagStays
<1>. QED
  BY <1>1, <1>2, <1>4, <1>5, <1>6, <1>7

\* Its call ends.
LEMMA EndSound ==
    ASSUME TInv, IInv, SInv, status = "run", NEW h, NEW v, Private(h, v, stack),
           Sound(h, v, stack, last, pruned, looped), \A n : Busy(v, n) <=> Busy(visited, n),
           NEW final, final \in 0 .. Len(h), final = Top.copy \/ ~Clone(stack, final),
           EndsWith(h, v, Top, pruned, looped, final), Return(Top, h, v, final)
    PROVE  SMoved
<1>1. PICK m : m = Top
  OBVIOUS
<1>2. PICK t : t = Append(Front(stack), m)
  OBVIOUS
<1>3. Private(h, v, t) /\ FlagOK(t, pruneFlag)
  BY <1>1, <1>2, TopStays, TopSound
<1>4. final = m.copy \/ ~Clone(t, final)
  BY <1>1, <1>2, SameClones
<1>5. Held(v, m)
  <2>1. Held(visited, m)
    BY <1>1, TopSound
  <2>. QED
    BY <2>1, Zenon DEF Held
<1>6. Sound(h, v, Front(stack), last, pruned, looped)
  <2>1. IsSeq(stack) /\ stack # << >>
    BY TopFits DEF TInv, Private
  <2>. QED
    BY <2>1, PoppedSound
<1>7. Return(m, h, v, final) /\ EndsWith(h, v, m, pruned, looped, final)
  BY <1>1
<1>. QED
  BY <1>2, <1>3, <1>4, <1>5, <1>6, <1>7, ReturnSound

\* VisitNew.
LEMMA NewSound ==
    ASSUME TInv, IInv, SInv, VisitNew
    PROVE  SMoved
<1>1. status = "run" /\ More /\ Enter(Child) /\ ~Busy(visited, Child) /\ ~Done(visited, Child)
      /\ last' = last /\ pruned' = pruned
  BY DEF VisitNew
<1>2. PICK n, k, o : n = Child /\ k = Len(heap) /\ o = self.visitDagOnce
  OBVIOUS
<1>3. PICK v : v = Started(visited, n, o)
  OBVIOUS
<1>4. /\ stack # << >> /\ k \in Nat /\ IsSeq(stack) /\ Private(heap, visited, stack)
      /\ n \in 1 .. k /\ ~Clone(stack, n) /\ o \in BOOLEAN
      /\ Sound(heap, visited, stack, last, pruned, looped) /\ FlagOK(stack, pruneFlag)
  BY <1>1, <1>2, TopFits, ChildFacts, SettingsFacts, TopSound DEF TInv, Private
<1>5. Opens(visited, v)
  <2>1. FirstVisits(visited)
    BY <1>1, TopSound
  <2>. QED
    BY <1>1, <1>2, <1>3, <2>1, StartedOpens
<1>6. PICK x : x = [heap[n] EXCEPT !.kids = Forwarded(v, @)]
  OBVIOUS
<1>7. PICK g : g = Append(heap, x)
  OBVIOUS
<1>8. \A i \in 1 .. Len(heap) : g[i].kids = heap[i].kids
  <2>1. Private(heap, v, stack)
    BY <1>2, <1>3, <1>4, StartedPrivate
  <2>2. [heap[n] EXCEPT !.kids = Forwarded(v, @)] \in Nodes(k)
    BY <1>2, <1>4, <2>1, ForwardedKids
  <2>3. HeapOK(heap) /\ k = Len(heap) /\ x \in Nodes(k)
    BY <1>2, <1>4, <1>6, <2>2 DEF Private
  <2>4. \A i \in 1 .. k : Append(heap, x)[i] = heap[i]
    BY <2>3, NodeAppended
  <2>. QED
    BY <1>2, <1>7, <2>4
<1>9. Sound(g, v, stack, last, pruned, looped)
  BY <1>4, <1>5, <1>8, OpensSound
<1>10. PICK f : f = Activation(n, k + 1)
  OBVIOUS
<1>11. f.at = 1 /\ f.saved = pruneFlag /\ f.skips = FALSE /\ f.step = "pre"
  BY <1>10 DEF Activation
<1>12. CallFine(g, v, f, pruned, looped)
  <2>1. \A j \in 1 .. Len(g[f.copy].kids) : ~(j < f.at)
    BY <1>11
  <2>. QED
    BY <2>1 DEF CallFine
<1>13. Sound(g, v, Append(stack, f), last, pruned, looped)
  BY <1>4, <1>9, <1>12, CallsPushed DEF Sound
<1>14. FlagOK(Append(stack, f), f.skips)
  <2>1. f.step = "kids" => ~f.skips
    BY <1>11
  <2>. QED
    BY <1>4, <1>11, <2>1, FlagPushed
<1>15. visited' = v /\ heap' = g /\ stack' = Append(stack, f) /\ pruneFlag' = f.skips
  <2>1. visited' = v
    BY <1>1, <1>2, <1>3 DEF Enter
  <2>2. pruneFlag' = f.skips
    BY <1>1, <1>11 DEF Enter
  <2>. QED
    BY <1>1, <1>2, <1>6, <1>7, <1>10, <2>1, <2>2 DEF Enter
<1>. QED
  BY <1>1, <1>13, <1>14, <1>15 DEF SMoved


\* VisitDone.
LEMMA DoneSound ==
    ASSUME TInv, IInv, SInv, VisitDone
    PROVE  SMoved
<1>1. status = "run" /\ More /\ Done(visited, Child)
  BY DEF VisitDone
<1>2. PICK n, m, r : n = Child /\ m = Top /\ r = visited[n].result
  OBVIOUS
<1>3. /\ stack # << >> /\ m = stack[Len(stack)] /\ Private(heap, visited, stack)
      /\ m.at \in 1 .. Len(heap[m.copy].kids) /\ m \in Frames(Len(heap))
      /\ Sound(heap, visited, stack, last, pruned, looped) /\ FlagOK(stack, pruneFlag)
      /\ IsSeq(stack)
  BY <1>1, <1>2, TopFits, ChildFacts, TopSound DEF TInv
<1>4. n \in DOMAIN visited
  BY <1>1, <1>2 DEF Done, Known
<1>5. r \in 0 .. Len(heap) /\ Fine(heap, visited, pruned, looped, r)
  <2>1. ResultsFine(heap, visited, pruned, looped)
    BY <1>3 DEF Sound
  <2>2. Fine(heap, visited, pruned, looped, r)
    BY <1>1, <1>2, <1>4, <2>1 DEF ResultsFine
  <2>. QED
    BY <1>2, <1>3, <1>4, <2>2, Referred
<1>6. PICK g, a : g = PutBack(heap, m, r) /\ a = Advanced(m, r)
  OBVIOUS
<1>7. Sound(g, visited, Append(Front(stack), a), last, pruned, looped)
  BY <1>3, <1>5, <1>6, PutBackSound
<1>8. a.saved = m.saved /\ a.skips = m.skips /\ a.step = m.step
  BY <1>3, <1>6, AdvancedFields
<1>9. FlagOK(Append(Front(stack), a), pruneFlag)
  BY <1>3, <1>8, FlagStays
<1>10. /\ heap' = g /\ stack' = Append(Front(stack), a) /\ visited' = visited
       /\ last' = last /\ pruned' = pruned /\ pruneFlag' = pruneFlag
  BY <1>2, <1>6 DEF VisitDone, ResultOf
<1>. QED
  BY <1>7, <1>9, <1>10 DEF SMoved

\* VisitBusy: the child that is skipped is one of those that were met too early.
LEMMA BusySound ==
    ASSUME TInv, IInv, SInv, VisitBusy
    PROVE  SInv'
<1>1. status = "run" /\ More /\ Busy(visited, Child)
  BY DEF VisitBusy
<1>2. PICK n, m, lp : n = Child /\ m = Top /\ lp = looped \union {n}
  OBVIOUS
<1>3. /\ stack # << >> /\ m = stack[Len(stack)] /\ Private(heap, visited, stack)
      /\ m.at \in 1 .. Len(heap[m.copy].kids) /\ n = heap[m.copy].kids[m.at]
      /\ m \in Frames(Len(heap)) /\ IsSeq(stack)
      /\ Sound(heap, visited, stack, last, pruned, looped) /\ FlagOK(stack, pruneFlag)
  BY <1>1, <1>2, TopFits, ChildFacts, TopSound DEF TInv
<1>4. Sound(heap, visited, stack, last, pruned, lp)
  <2>1. Later(visited, visited)
    BY Zenon DEF Later
  <2>2. looped \subseteq lp /\ \A k \in 1 .. Len(heap) : heap[k].kids = heap[k].kids
    BY <1>2
  <2>3. FirstVisits(visited) /\ \A x \in DOMAIN visited : Done(visited, x) =>
           Done(visited, x) \/ Fine(heap, visited, pruned, lp, visited[x].result)
    BY <1>3 DEF Sound
  <2>. QED
    BY <1>3, <2>1, <2>2, <2>3, SoundMoves
<1>5. Fine(heap, visited, pruned, lp, n)
  <2>1. Known(visited, n) /\ n \in lp
    BY <1>1, <1>2 DEF Busy
  <2>. QED
    BY <2>1, Zenon DEF Fine, Calm
<1>6. PICK a : a = AfterLoop(m)
  OBVIOUS
<1>7. /\ a.copy = m.copy /\ a.at = m.at + 1
      /\ a.saved = m.saved /\ a.skips = m.skips /\ a.step = m.step
  BY <1>3, <1>6 DEF AfterLoop, Frames
<1>8. CallFine(heap, visited, a, pruned, lp)
  <2>1. ASSUME NEW j \in 1 .. Len(heap[m.copy].kids), j < m.at + 1
        PROVE  Fine(heap, visited, pruned, lp, heap[m.copy].kids[j])
    <3>1. CASE j = m.at
      BY <1>3, <1>5, <3>1
    <3>2. CASE j # m.at
      <4>1. j < m.at
        BY <1>3, <2>1, <3>2
      <4>2. Len(stack) \in 1 .. Len(stack)
        BY <1>3, FrontFacts
      <4>3. CallFine(heap, visited, m, pruned, lp)
        BY <1>3, <1>4, <4>2 DEF Sound, CallsFine
      <4>. QED
        BY <4>1, <4>3 DEF CallFine
    <3>. QED
      BY <3>1, <3>2
  <2>. QED
    BY <1>7, <2>1 DEF CallFine
<1>9. Sound(heap, visited, Append(Front(stack), a), last, pruned, lp)
  BY <1>3, <1>4, <1>8, CallsTop DEF Sound
<1>10. FlagOK(Append(Front(stack), a), pruneFlag)
  BY <1>3, <1>7, FlagStays
<1>11. /\ heap' = heap /\ stack' = Append(Front(stack), a) /\ visited' = visited
       /\ last' = last /\ pruned' = pruned /\ pruneFlag' = pruneFlag /\ looped' = lp
  BY <1>2, <1>6 DEF VisitBusy
<1>. QED
  BY <1>9, <1>10, <1>11 DEF SInv

\* prune().
LEMMA PruneSound ==
    ASSUME TInv, IInv, SInv, Prune
    PROVE  SMoved
<1>1. PICK m, b : m = Top /\ b = [m EXCEPT !.skips = TRUE]
  OBVIOUS
<1>2. /\ status = "run" /\ m.step = "pre" /\ heap' = heap /\ visited' = visited
      /\ stack' = Append(Front(stack), b) /\ pruneFlag' = TRUE
      /\ last' = last /\ pruned' = pruned
  BY <1>1 DEF Prune, In, history
<1>3. /\ stack # << >> /\ m = stack[Len(stack)] /\ m \in Frames(Len(heap)) /\ IsSeq(stack)
      /\ Sound(heap, visited, stack, last, pruned, looped) /\ FlagOK(stack, pruneFlag)
      /\ CallFine(heap, visited, m, pruned, looped)
  BY <1>1, <1>2, TopFits, TopSound
<1>4. /\ b.copy = m.copy /\ b.at = m.at /\ b.saved = m.saved /\ b.skips = TRUE
      /\ b.step = "pre"
  BY <1>1, <1>2, <1>3 DEF Frames
<1>5. CallFine(heap, visited, b, pruned, looped)
  BY <1>3, <1>4 DEF CallFine
<1>6. Sound(heap, visited, Append(Front(stack), b), last, pruned, looped)
  BY <1>3, <1>5, CallsTop DEF Sound
<1>7. FlagOK(Append(Front(stack), b), b.skips)
  <2>1. b.saved = stack[Len(stack)].saved /\ (b.step = "kids" => ~b.skips)
    BY <1>3, <1>4
  <2>. QED
    BY <1>3, <2>1, FlagTop
<1>. QED
  BY <1>2, <1>4, <1>6, <1>7 DEF SMoved


\* The fields of a clone are changed: all children stay.
LEMMA RelabelSame ==
    ASSUME TInv, status = "run", NEW l \in Label, NEW h, h = Relabelled(heap, Top.copy, l)
    PROVE  \A k \in 1 .. Len(heap) : h[k].kids = heap[k].kids
<1>1. PICK c, k : c = Top.copy /\ k = Len(heap)
  OBVIOUS
<1>2. c \in 1 .. k /\ heap[c] \in Nodes(k) /\ heap \in Seq(Nodes(k))
  BY <1>1, TopFits DEF TInv, Private, HeapOK
<1>3. PICK x : x = [heap[c] EXCEPT !.label = l]
  OBVIOUS
<1>4. x \in Nodes(k) /\ x.kids = heap[c].kids
  BY <1>2, <1>3 DEF Nodes
<1>5. h = [heap EXCEPT ![c] = x]
  BY <1>1, <1>2, <1>3 DEF Relabelled
<1>6. \A m \in 1 .. k : h[m] = IF m = c THEN x ELSE heap[m]
  BY <1>1, <1>2, <1>4, <1>5, ExceptSeq
<1>. QED
  BY <1>1, <1>4, <1>6

\* Sound in a heap with the same children.
LEMMA HeapSound ==
    ASSUME NEW h, NEW v, NEW s, Private(h, v, s), NEW l, NEW pr, NEW lp, Sound(h, v, s, l, pr, lp),
           NEW g, \A k \in 1 .. Len(h) : g[k].kids = h[k].kids
    PROVE  Sound(g, v, s, l, pr, lp)
<1>1. Later(v, v)
  BY Zenon DEF Later
<1>2. FirstVisits(v)
  BY DEF Sound
<1>3. Opens(v, v)
  BY <1>1, <1>2 DEF Opens
<1>. QED
  BY <1>3, OpensSound

\* All children have been visited.
LEMMA TopCalm ==
    ASSUME TInv, IInv, SInv, AtPostorder
    PROVE  /\ \A i \in 1 .. Len(heap[Top.copy].kids) :
                 Fine(heap, visited, pruned, looped, heap[Top.copy].kids[i])
           /\ AllCalm(heap, visited, looped, Top.copy)
           /\ ~Known(visited, Top.copy)
<1>1. status = "run" /\ ~More
  BY DEF AtPostorder, In
<1>2. PICK m, K : m = Top /\ K = heap[m.copy].kids
  OBVIOUS
<1>3. /\ m \in Frames(Len(heap)) /\ m.copy \in 1 .. Len(heap) /\ HeapOK(heap)
      /\ Fits(heap, visited, m) /\ CallFine(heap, visited, m, pruned, looped)
  BY <1>1, <1>2, TopFits, TopSound DEF TInv, Private
<1>4. ~(m.at <= Len(K)) /\ m.at \in Nat /\ Len(K) \in Nat /\ \A i \in 1 .. Len(K) : K[i] \in 1 .. Len(heap)
  <2>1. ~(m.at <= Len(K))
    BY <1>1, <1>2 DEF More, Kids
  <2>2. m.at \in Nat
    BY <1>3 DEF Frames
  <2>. QED
    BY <1>2, <1>3, <2>1, <2>2, NodeFacts
<1>5. ASSUME NEW i \in 1 .. Len(K)
      PROVE  Fine(heap, visited, pruned, looped, K[i]) /\ Calm(visited, looped, K[i])
  <2>1. i < m.at
    BY <1>4
  <2>2. Fine(heap, visited, pruned, looped, K[i])
    BY <1>2, <1>3, <2>1 DEF CallFine
  <2>3. K[i] # 0
    BY <1>4
  <2>. QED
    BY <2>2, <2>3, Zenon DEF Fine
<1>6. AllCalm(heap, visited, looped, m.copy)
  BY <1>2, <1>5 DEF AllCalm
<1>7. ~Known(visited, m.copy)
  BY <1>3 DEF Fits, Unlisted, Known
<1>. QED
  BY <1>2, <1>5, <1>6, <1>7

\* postorder.
LEMMA PostorderSound ==
    ASSUME TInv, IInv, SInv, Postorder
    PROVE  SMoved
<1>1. status = "run" /\ AtPostorder
  BY DEF Postorder, PostorderKeeps, PostorderRemoves, PostorderReturnsChild, PostorderReturnsNew,
         AtPostorder, In
<1>2. /\ Private(heap, visited, stack) /\ Len(heap) \in Nat
      /\ Top.copy \in 1 .. Len(heap) /\ Top.copy \in 0 .. Len(heap)
      /\ Sound(heap, visited, stack, last, pruned, looped)
      /\ \A n : Busy(visited, n) <=> Busy(visited, n)
  BY <1>1, TopFits, TopSound DEF TInv
<1>3. /\ \A i \in 1 .. Len(heap[Top.copy].kids) :
            Fine(heap, visited, pruned, looped, heap[Top.copy].kids[i])
      /\ AllCalm(heap, visited, looped, Top.copy) /\ ~Known(visited, Top.copy)
  BY <1>1, TopCalm
<1>4. CASE PostorderKeeps
  <2>1. PICK l \in Label : Return(Top, Relabelled(heap, Top.copy, l), visited, Top.copy)
    BY <1>4 DEF PostorderKeeps
  <2>2. PICK h, c : h = Relabelled(heap, Top.copy, l) /\ c = Top.copy
    OBVIOUS
  <2>3. Private(h, visited, stack) /\ Len(h) = Len(heap)
    BY <1>1, <2>2, Relabels
  <2>4. \A k \in 1 .. Len(heap) : h[k].kids = heap[k].kids
    BY <1>1, <2>2, RelabelSame
  <2>5. Sound(h, visited, stack, last, pruned, looped)
    BY <1>2, <2>4, HeapSound
  <2>6. Return(Top, h, visited, c) /\ c \in 0 .. Len(h) /\ c = Top.copy /\ c # 0
    BY <1>2, <2>1, <2>2, <2>3
  <2>7. AllCalm(h, visited, looped, c)
    <3>1. h[c].kids = heap[c].kids /\ AllCalm(heap, visited, looped, c)
      BY <1>2, <1>3, <2>2, <2>4
    <3>. QED
      BY <3>1 DEF AllCalm
  <2>8. EndsWith(h, visited, Top, pruned, looped, c)
    BY <1>3, <2>2, <2>6, <2>7 DEF EndsWith
  <2>. QED
    BY <1>1, <1>2, <2>3, <2>5, <2>6, <2>8, EndSound
<1>5. CASE PostorderRemoves
  <2>1. PICK z : z = Null
    OBVIOUS
  <2>2. Return(Top, heap, visited, z) /\ z \in 0 .. Len(heap) /\ ~Clone(stack, z) /\ z = 0
    BY <1>2, <1>5, <2>1, NoClones DEF PostorderRemoves, Null
  <2>3. EndsWith(heap, visited, Top, pruned, looped, z)
    BY <2>2 DEF EndsWith, Fine
  <2>. QED
    BY <1>1, <1>2, <2>2, <2>3, EndSound
<1>6. CASE PostorderReturnsChild
  <2>1. PICK i \in DOMAIN Kids(heap, Top) : Return(Top, heap, visited, Kids(heap, Top)[i])
    BY <1>6 DEF PostorderReturnsChild
  <2>2. PICK z : z = Kids(heap, Top)[i]
    OBVIOUS
  <2>3. /\ z \in 0 .. Len(heap) /\ ~Clone(stack, z)
        /\ Fine(heap, visited, pruned, looped, z)
    <3>1. i \in 1 .. Len(heap[Top.copy].kids) /\ z = heap[Top.copy].kids[i]
      BY <1>2, <2>2, NodeFacts DEF Kids, Private
    <3>2. heap[Top.copy].kids[i] \in 1 .. Len(heap)
      BY <1>2, <3>1, NodeFacts DEF Private
    <3>3. ~Clone(stack, heap[Top.copy].kids[i])
      BY <1>2, <3>1, NoClones
    <3>4. z \in 0 .. Len(heap)
      BY <1>2, <3>1, <3>2
    <3>. QED
      BY <1>3, <3>1, <3>3, <3>4
  <2>4. Return(Top, heap, visited, z)
    BY <2>1, <2>2
  <2>5. EndsWith(heap, visited, Top, pruned, looped, z)
    BY <2>3 DEF EndsWith
  <2>. QED
    BY <1>1, <1>2, <2>3, <2>4, <2>5, EndSound
<1>7. CASE PostorderReturnsNew
  <2>1. PICK l \in Label :
          Return(Top, Append(heap, [heap[Top.copy] EXCEPT !.label = l]), visited, Len(heap) + 1)
    BY <1>7 DEF PostorderReturnsNew
  <2>2. PICK h, z : h = Append(heap, [heap[Top.copy] EXCEPT !.label = l]) /\ z = Len(heap) + 1
    OBVIOUS
  <2>3. /\ Private(h, visited, stack) /\ Len(heap) <= Len(h)
        /\ Len(heap) + 1 \in 1 .. Len(h) /\ ~Clone(stack, Len(heap) + 1)
    BY <1>1, <2>2, MakesNew
  <2>4. PICK x : OneMore(heap, h, x) /\ x.kids = heap[Top.copy].kids
    BY <1>1, <2>2, MadeNode
  <2>5. (\A k \in 1 .. Len(heap) : h[k].kids = heap[k].kids) /\ h[z].kids = heap[Top.copy].kids
    BY <2>2, <2>4 DEF OneMore
  <2>6. Sound(h, visited, stack, last, pruned, looped)
    BY <1>2, <2>5, HeapSound
  <2>7. Return(Top, h, visited, z) /\ z \in 0 .. Len(h) /\ ~Clone(stack, z) /\ z # 0
    <3>1. Len(h) \in Nat
      BY <2>3, NodeFacts DEF Private
    <3>. QED
      BY <1>2, <2>1, <2>2, <2>3, <3>1
  <2>8. ~Known(visited, z)
    <3>1. \A n \in DOMAIN visited : n \in 1 .. Len(heap)
      BY <1>2, Referred
    <3>. QED
      BY <1>2, <2>2, <3>1 DEF Known
  <2>9. AllCalm(h, visited, looped, z)
    BY <1>3, <2>5 DEF AllCalm
  <2>10. EndsWith(h, visited, Top, pruned, looped, z)
    BY <2>7, <2>8, <2>9 DEF EndsWith
  <2>. QED
    BY <1>1, <1>2, <2>3, <2>6, <2>7, <2>10, EndSound
<1>. QED
  BY <1>4, <1>5, <1>6, <1>7 DEF Postorder


\* The tracker as preorder leaves it, in a heap with the same children.
LEMMA PreorderTrackerSound ==
    ASSUME TInv, IInv, SInv, status = "run", NEW h, \A k \in 1 .. Len(heap) : h[k].kids = heap[k].kids,
           NEW v, v = MarkedAgain(visited, Top.node)
    PROVE  /\ Sound(h, v, stack, last, pruned, looped) /\ FirstVisits(v)
           /\ \A n : Busy(v, n) <=> Busy(visited, n)
<1>1. PICK n : n = Top.node
  OBVIOUS
<1>2. Busy(visited, n) /\ FirstVisits(visited) /\ Private(heap, visited, stack)
      /\ Sound(heap, visited, stack, last, pruned, looped)
  BY <1>1, TopOK, TopSound DEF TInv
<1>3. Opens(visited, v)
  <2>1. Opens(visited, MarkedAgain(visited, n))
    BY <1>2, AgainOpens
  <2>. QED
    BY <1>1, <2>1
<1>4. Sound(h, v, stack, last, pruned, looped)
  BY <1>2, <1>3, OpensSound
<1>5. \A x : Busy(v, x) <=> Busy(visited, x)
  BY AfterPreorder
<1>. QED
  BY <1>3, <1>4, <1>5 DEF Opens

\* preorder kept the clone.
LEMMA KeepsSound ==
    ASSUME TInv, IInv, SInv, status = "run", NEW h, Private(h, visited, stack),
           \A k \in 1 .. Len(heap) : h[k].kids = heap[k].kids,
           Descend(Top, h, MarkedAgain(visited, Top.node))
    PROVE  SMoved
<1>1. PICK v, m : v = MarkedAgain(visited, Top.node) /\ m = Top
  OBVIOUS
<1>2. PICK t : t = Append(Front(stack), m)
  OBVIOUS
<1>3. Private(h, v, stack)
  BY <1>1, PreorderTracker
<1>4. /\ Sound(h, v, stack, last, pruned, looped)
      /\ \A n : Busy(v, n) <=> Busy(visited, n)
  BY <1>1, PreorderTrackerSound
<1>5. Private(h, v, t) /\ FlagOK(t, pruneFlag) /\ Held(visited, m) /\ IsSeq(stack) /\ stack # << >>
  BY <1>1, <1>2, <1>3, TopStays, TopSound, TopFits
<1>6. Held(v, m)
  BY <1>4, <1>5, Zenon DEF Held
<1>7. Sound(h, v, Front(stack), last, pruned, looped)
  BY <1>4, <1>5, PoppedSound
<1>8. Descend(m, h, v)
  BY <1>1
<1>. QED
  BY <1>2, <1>5, <1>6, <1>7, <1>8, DescendSound

\* preorder returned another node p.
LEMMA ReplacedSound ==
    ASSUME TInv, IInv, SInv, In("pre"), NEW h, Private(h, visited, stack), Len(heap) <= Len(h),
           \A i \in 1 .. Len(heap) : h[i].kids = heap[i].kids,
           NEW p, p \in 1 .. Len(h), ~Clone(stack, p), ReplacedBy(p, h)
    PROVE  SMoved
<1>1. status = "run"
  BY DEF In
<1>2. PICK v, m : v = MarkedAgain(visited, Top.node) /\ m = Top
  OBVIOUS
<1>3. Private(h, v, stack)
  BY <1>1, <1>2, PreorderTracker
<1>4. /\ Sound(h, v, stack, last, pruned, looped) /\ FirstVisits(v)
      /\ \A n : Busy(v, n) <=> Busy(visited, n)
  BY <1>1, <1>2, PreorderTrackerSound
<1>5. CASE Done(v, p) /\ Return(Top, h, v, v[p].result)
  <2>1. PICK z : z = v[p].result
    OBVIOUS
  <2>2. p \in DOMAIN v
    BY <1>5 DEF Done, Known
  <2>3. z \in 0 .. Len(h) /\ ~Clone(stack, z)
    BY <1>3, <2>1, <2>2, NoClones
  <2>4. Fine(h, v, pruned, looped, z)
    <3>1. ResultsFine(h, v, pruned, looped)
      BY <1>4 DEF Sound
    <3>. QED
      BY <1>5, <2>1, <2>2, <3>1 DEF ResultsFine
  <2>5. EndsWith(h, v, Top, pruned, looped, z)
    BY <2>4 DEF EndsWith
  <2>6. Return(Top, h, v, z)
    BY <1>5, <2>1
  <2>. QED
    BY <1>1, <1>3, <1>4, <2>3, <2>5, <2>6, EndSound
<1>6. CASE UNCHANGED <<heap, visited, stack, pruneFlag, out, last, pruned>>
  <2>1. /\ Sound(heap, visited, stack, last, pruned, looped) /\ FlagOK(stack, pruneFlag)
    BY DEF SInv
  <2>2. /\ heap' = heap /\ visited' = visited /\ stack' = stack /\ last' = last
        /\ pruned' = pruned /\ pruneFlag' = pruneFlag
    BY <1>6
  <2>. QED
    BY <2>1, <2>2 DEF SMoved
<1>7. CASE /\ ~Done(v, p) /\ ~Busy(v, p)
           /\ Descend([Top EXCEPT !.pre = p, !.copy = Len(h) + 1, !.extra = TRUE],
                      Append(h, h[p]), Started(v, p, v[Top.node].once))
  <2>1. PICK k, o : k = Len(h) /\ o = v[Top.node].once
    OBVIOUS
  <2>2. PICK g, w, f : Second(h, v, p, k, g, w, f)
    BY <1>1, <1>3, <2>1, SecondClone
  <2>3. PICK t : t = Append(Front(stack), f)
    OBVIOUS
  <2>4. /\ w = Started(v, p, o) /\ Private(g, w, t) /\ Descend(f, g, w)
        /\ f = [m EXCEPT !.pre = p, !.copy = k + 1, !.extra = TRUE]
        /\ \A i \in 1 .. Len(h) : g[i].kids = h[i].kids
    <3>1. \A i \in 1 .. k : g[i] = h[i]
      BY <2>2 DEF Second
    <3>. QED
      BY <1>2, <1>7, <2>1, <2>2, <2>3, <3>1 DEF Second
  <2>5. Opens(v, w)
    BY <1>4, <1>7, <2>4, StartedOpens
  <2>6. Sound(g, w, stack, last, pruned, looped)
    BY <1>3, <1>4, <2>4, <2>5, OpensSound
  <2>7. /\ stack # << >> /\ IsSeq(stack) /\ m = stack[Len(stack)] /\ m \in Frames(Len(heap))
        /\ Busy(visited, m.node) /\ FlagOK(stack, pruneFlag)
    BY <1>1, <1>2, TopFits, TopOK, TopSound
  <2>8. Sound(g, w, Front(stack), last, pruned, looped)
    BY <2>6, <2>7, PoppedSound
  <2>9. /\ f.node = m.node /\ f.pre = p /\ f.extra = TRUE
        /\ f.saved = m.saved /\ f.skips = m.skips /\ f.step = m.step
    BY <2>4, <2>7 DEF Frames
  <2>10. FlagOK(t, pruneFlag)
    BY <2>3, <2>7, <2>9, FlagStays
  <2>11. Held(w, f)
    <3>1. TrackerOK(v)
      BY <1>1, <1>2, AfterPreorder
    <3>2. \A x : Busy(w, x) <=> Busy(v, x) \/ x = p
      BY <1>7, <2>4, <3>1, StartedMarks, Zenon
    <3>3. Busy(v, m.node) /\ ~Busy(v, p)
      BY <1>4, <1>7, <2>7
    <3>4. Busy(w, m.node) /\ Busy(w, p) /\ p # m.node
      BY <3>2, <3>3, Zenon
    <3>. QED
      BY <2>9, <3>4 DEF Held
  <2>. QED
    BY <1>1, <2>3, <2>4, <2>8, <2>10, <2>11, DescendSound
<1>. QED
  BY <1>2, <1>5, <1>6, <1>7 DEF ReplacedBy

\* preorder.
LEMMA PreorderSound ==
    ASSUME TInv, IInv, SInv, Preorder
    PROVE  SMoved
<1>1. CASE Prune
  BY <1>1, PruneSound
<1>2. CASE PreorderKeeps
  <2>1. PICK l \in Label :
          Descend(Top, Relabelled(heap, Top.copy, l), MarkedAgain(visited, Top.node))
    BY <1>2 DEF PreorderKeeps
  <2>2. PICK h : h = Relabelled(heap, Top.copy, l)
    OBVIOUS
  <2>3. status = "run" /\ Descend(Top, h, MarkedAgain(visited, Top.node))
    BY <1>2, <2>1, <2>2 DEF PreorderKeeps, In
  <2>4. Private(h, visited, stack) /\ \A k \in 1 .. Len(heap) : h[k].kids = heap[k].kids
    BY <2>2, <2>3, Relabels, RelabelSame
  <2>. QED
    BY <2>3, <2>4, KeepsSound
<1>3. CASE PreorderRemoves
  <2>1. PICK z, v : z = Null /\ v = MarkedAgain(visited, Top.node)
    OBVIOUS
  <2>2. status = "run" /\ Return(Top, heap, v, z)
    BY <1>3, <2>1 DEF PreorderRemoves, In
  <2>3. Private(heap, visited, stack) /\ Len(heap) \in Nat
    BY <2>2, TopFits DEF TInv
  <2>4. z = 0 /\ z \in 0 .. Len(heap) /\ ~Clone(stack, z) /\ Private(heap, v, stack)
    BY <2>1, <2>2, <2>3, NoClones, PreorderTracker DEF Null
  <2>5. \A k \in 1 .. Len(heap) : heap[k].kids = heap[k].kids
    OBVIOUS
  <2>6. /\ Sound(heap, v, stack, last, pruned, looped)
        /\ \A n : Busy(v, n) <=> Busy(visited, n)
    BY <2>1, <2>2, <2>5, PreorderTrackerSound
  <2>7. EndsWith(heap, v, Top, pruned, looped, z)
    BY <2>4 DEF EndsWith, Fine
  <2>. QED
    BY <2>2, <2>4, <2>6, <2>7, EndSound
<1>4. CASE PreorderReturnsChild
  <2>1. PICK i \in DOMAIN Kids(heap, Top) : ReplacedBy(Kids(heap, Top)[i], heap)
    BY <1>4 DEF PreorderReturnsChild
  <2>2. PICK p : p = Kids(heap, Top)[i]
    OBVIOUS
  <2>3. In("pre") /\ status = "run" /\ ReplacedBy(p, heap)
    BY <1>4, <2>1, <2>2 DEF PreorderReturnsChild, In
  <2>4. /\ Private(heap, visited, stack) /\ Len(heap) \in Nat /\ Len(heap) <= Len(heap)
        /\ Top.copy \in 1 .. Len(heap) /\ \A k \in 1 .. Len(heap) : heap[k].kids = heap[k].kids
    BY <2>3, TopFits DEF TInv
  <2>5. i \in 1 .. Len(heap[Top.copy].kids) /\ p = heap[Top.copy].kids[i]
    BY <2>2, <2>4, NodeFacts DEF Kids, Private
  <2>6. p \in 1 .. Len(heap) /\ ~Clone(stack, p)
    BY <2>4, <2>5, NoClones, NodeFacts DEF Private
  <2>. QED
    BY <2>3, <2>4, <2>6, ReplacedSound
<1>5. CASE PreorderReturnsNew
  <2>1. PICK l \in Label :
          ReplacedBy(Len(heap) + 1, Append(heap, [heap[Top.copy] EXCEPT !.label = l]))
    BY <1>5 DEF PreorderReturnsNew
  <2>2. PICK h, p : h = Append(heap, [heap[Top.copy] EXCEPT !.label = l]) /\ p = Len(heap) + 1
    OBVIOUS
  <2>3. In("pre") /\ status = "run" /\ ReplacedBy(p, h)
    BY <1>5, <2>1, <2>2 DEF PreorderReturnsNew, In
  <2>4. /\ Private(h, visited, stack) /\ Len(heap) <= Len(h)
        /\ p \in 1 .. Len(h) /\ ~Clone(stack, p)
    <3>1. /\ Private(h, visited, stack) /\ Len(heap) <= Len(h)
          /\ Len(heap) + 1 \in 1 .. Len(h) /\ ~Clone(stack, Len(heap) + 1)
      BY <2>2, <2>3, MakesNew
    <3>. QED
      BY <2>2, <3>1
  <2>5. \A k \in 1 .. Len(heap) : h[k].kids = heap[k].kids
    <3>1. PICK x : OneMore(heap, h, x) /\ x.kids = heap[Top.copy].kids
      BY <2>2, <2>3, MadeNode
    <3>. QED
      BY <3>1 DEF OneMore
  <2>. QED
    BY <2>3, <2>4, <2>5, ReplacedSound
<1>. QED
  BY <1>1, <1>2, <1>3, <1>4, <1>5 DEF Preorder

\* The inductive step.
LEMMA SoundKept ==
    ASSUME TInv, IInv, SInv, [Next]_vars
    PROVE  SInv'
<1>1. CASE UNCHANGED vars
  <2>1. /\ heap' = heap /\ visited' = visited /\ stack' = stack /\ last' = last
        /\ pruned' = pruned /\ pruneFlag' = pruneFlag /\ looped' = looped
    BY <1>1 DEF vars, history
  <2>. QED
    BY <2>1 DEF SInv
<1>2. CASE VisitBusy
  BY <1>2, BusySound
<1>3. CASE SMoved /\ looped' = looped
  BY <1>3 DEF SInv, SMoved
<1>4. CASE VisitNew
  <2>1. looped' = looped
    BY <1>4 DEF VisitNew
  <2>. QED
    BY <1>3, <1>4, <2>1, NewSound
<1>5. CASE VisitDone
  <2>1. looped' = looped
    BY <1>5 DEF VisitDone
  <2>. QED
    BY <1>3, <1>5, <2>1, DoneSound
<1>6. CASE Preorder
  <2>1. looped' = looped
    BY <1>6 DEF Preorder, Prune, PreorderKeeps, PreorderRemoves, PreorderReturnsChild,
                PreorderReturnsNew, history
  <2>. QED
    BY <1>3, <1>6, <2>1, PreorderSound
<1>7. CASE Postorder
  <2>1. looped' = looped
    BY <1>7 DEF Postorder, PostorderKeeps, PostorderRemoves, PostorderReturnsChild,
                PostorderReturnsNew
  <2>. QED
    BY <1>3, <1>7, <2>1, PostorderSound
<1>. QED
  BY <1>1, <1>2, <1>4, <1>5, <1>6, <1>7 DEF Next, VisitChild

\* No child has been visited, and only the root is known.
LEMMA InitSound == Init => SInv
<1>1. SUFFICES ASSUME Init PROVE SInv
  OBVIOUS
<1>2. PICK x \in Visits :
        /\ visited = With(<< >>, 1, Info(TRUE, x.visitDagOnce, 1)) /\ pruneFlag = FALSE
        /\ stack = << Activation(1, Len(x.ir) + 1) >> /\ last = << >>
  BY <1>1 DEF Init
<1>3. PICK e, f : e = Info(TRUE, x.visitDagOnce, 1) /\ f = Activation(1, Len(x.ir) + 1)
  OBVIOUS
<1>4. DOMAIN visited = {1} /\ visited[1].busy /\ visited[1].result = 1
  <2>1. e.busy = TRUE /\ e.result = 1
    BY <1>3 DEF Info
  <2>2. visited = With(<< >>, 1, e)
    BY <1>2, <1>3
  <2>3. DOMAIN visited = {1} /\ visited[1] = e
    BY <2>2 DEF With
  <2>. QED
    BY <2>1, <2>3
<1>5. f.at = 1 /\ f.skips = FALSE
  BY <1>3 DEF Activation
<1>6. Len(stack) = 1 /\ stack[1] = f
  BY <1>2, <1>3
<1>7. ResultsFine(heap, visited, pruned, looped) /\ FirstVisits(visited)
  <2>1. \A n \in DOMAIN visited : n = 1
    BY <1>4
  <2>2. ~Done(visited, 1)
    BY <1>4, Zenon DEF Done
  <2>. QED
    BY <1>4, <2>1, <2>2, Zenon DEF ResultsFine, FirstVisits
<1>8. CallsFine(heap, visited, stack, pruned, looped)
  <2>1. CallFine(heap, visited, f, pruned, looped)
    <3>1. \A j \in 1 .. Len(heap[f.copy].kids) : ~(j < f.at)
      BY <1>5
    <3>. QED
      BY <3>1 DEF CallFine
  <2>2. \A i \in 1 .. Len(stack) : stack[i] = f
    BY <1>6
  <2>. QED
    BY <2>1, <2>2 DEF CallsFine
<1>9. LastFine(heap, visited, last, pruned, looped)
  BY <1>2 DEF LastFine
<1>10. FlagOK(stack, pruneFlag)
  <2>1. \A i \in 1 .. Len(stack) : stack[i] = f /\ ~(i < Len(stack))
    BY <1>6
  <2>2. ~f.skips
    BY <1>5
  <2>3. pruneFlag = stack[Len(stack)].skips
    BY <1>2, <1>5, <1>6
  <2>. QED
    BY <2>1, <2>2, <2>3 DEF FlagOK
<1>. QED
  BY <1>7, <1>8, <1>9, <1>10 DEF SInv, Sound

(***************************************************************************)
(* No stale reference, for every IR, visitor and setting: where a node's   *)
(* children have been visited, what apply_visitor returned for it refers   *)
(* only to what they became, and what the ChangeTracker hands to the other *)
(* parents is what it returned, whatever was pruned, removed, replaced or  *)
(* coalesced on the way.                                                   *)
(***************************************************************************)
THEOREM SettledTheorem == Spec => []ResultsSettled
<1>1. Init => TInv /\ IInv /\ SInv
  BY InitTypes, InitMarks, InitSound
<1>2. (TInv /\ IInv /\ SInv) /\ [Next]_vars => (TInv /\ IInv /\ SInv)'
  BY TypesKept, StepKept, SoundKept
<1>3. TInv /\ SInv => ResultsSettled
  BY SettledFor
<1>. QED
  BY <1>1, <1>2, <1>3, PTL DEF Spec

============================================================================
