----------------------- MODULE TreeVisitorKept_proofs -----------------------
(* Theorems about the nodes of a walk, for every IR and every visitor: what *)
(* the heap, the tracker and the activations may refer to, and that a node  *)
(* which nothing touched comes back as the same pointer.                    *)
EXTENDS TreeVisitor_proofs

(***************************************************************************)
(* The strengthening: the clone an activation works on is known to no one  *)
(* else until the visit returns.  No node has it as a child, the tracker   *)
(* neither lists it nor gives it as a result, and no two activations share *)
(* one.  So a step changes no clone but the innermost, and the child that  *)
(* each outer activation waits for stays where it was.                     *)
(***************************************************************************)
Nodes(k) == [label : Label, kids : Seq(1 .. k)]
Entries(k) == [busy : BOOLEAN, once : BOOLEAN, result : 0 .. k]
Frames(k) ==
    [node : 1 .. k, copy : 1 .. k, pre : 1 .. k, extra : BOOLEAN, saved : BOOLEAN, skips : BOOLEAN,
     at : Nat \ {0}, step : {"pre", "kids"}]

HeapOK(h) == h \in Seq(Nodes(Len(h)))
TrackerTyped(k, v) == DOMAIN v \subseteq 1 .. k /\ \A n \in DOMAIN v : v[n] \in Entries(k)

Names(kids, c) == \E i \in 1 .. Len(kids) : kids[i] = c
Unlinked(h, c) == \A m \in 1 .. Len(h) : ~Names(h[m].kids, c)
Unlisted(v, c) == c \notin DOMAIN v /\ \A n \in DOMAIN v : v[n].result # c

Fits(h, v, f) ==
    /\ f \in Frames(Len(h))
    /\ f.node \in DOMAIN v
    /\ f.extra => f.pre \in DOMAIN v
    /\ ~f.extra => f.pre = f.copy
    /\ Unlinked(h, f.copy) /\ Unlisted(v, f.copy)

\* f waits for the visit of its child g.
Waits(h, f, n) == f.at \in 1 .. Len(h[f.copy].kids) /\ h[f.copy].kids[f.at] = n

Clone(s, c) == \E i \in 1 .. Len(s) : s[i].copy = c

Private(h, v, s) ==
    /\ HeapOK(h) /\ TrackerTyped(Len(h), v) /\ IsSeq(s)
    /\ \A i \in 1 .. Len(s) : Fits(h, v, s[i])
    /\ \A i, j \in 1 .. Len(s) : i # j => s[i].copy # s[j].copy
    /\ \A i \in 1 .. Len(s) : i < Len(s) => Waits(h, s[i], s[i + 1].node)

----------------------------------------------------------------------------
(* Nodes.                                                                  *)

\* A larger heap has room for the same nodes.
LEMMA Roomier ==
    ASSUME NEW k \in Nat, NEW l \in Nat, k <= l
    PROVE  /\ Nodes(k) \subseteq Nodes(l)
           /\ Entries(k) \subseteq Entries(l)
           /\ Frames(k) \subseteq Frames(l)
<1>1. 1 .. k \subseteq 1 .. l /\ 0 .. k \subseteq 0 .. l
  OBVIOUS
<1>2. Seq(1 .. k) \subseteq Seq(1 .. l)
  BY <1>1, SeqMonotonic
<1>3. Nodes(k) \subseteq Nodes(l)
  BY <1>2 DEF Nodes
<1>4. Entries(k) \subseteq Entries(l)
  BY <1>1 DEF Entries
<1>5. Frames(k) \subseteq Frames(l)
  BY <1>1 DEF Frames
<1>. QED
  BY <1>3, <1>4, <1>5

\* A node of the heap.
LEMMA NodeFacts ==
    ASSUME NEW h, HeapOK(h)
    PROVE  /\ Len(h) \in Nat /\ DOMAIN h = 1 .. Len(h)
           /\ \A m \in 1 .. Len(h) :
                 /\ h[m] \in Nodes(Len(h)) /\ h[m].label \in Label
                 /\ h[m].kids \in Seq(1 .. Len(h)) /\ Len(h[m].kids) \in Nat
                 /\ DOMAIN h[m].kids = 1 .. Len(h[m].kids)
                 /\ \A i \in 1 .. Len(h[m].kids) : h[m].kids[i] \in 1 .. Len(h)
<1>1. Len(h) \in Nat /\ DOMAIN h = 1 .. Len(h)
  BY LenProperties DEF HeapOK
<1>2. ASSUME NEW m \in 1 .. Len(h)
      PROVE  /\ h[m] \in Nodes(Len(h)) /\ h[m].label \in Label
             /\ h[m].kids \in Seq(1 .. Len(h))
  <2>1. h[m] \in Nodes(Len(h))
    BY ElementOfSeq DEF HeapOK
  <2>. QED
    BY <2>1 DEF Nodes
<1>3. ASSUME NEW m \in 1 .. Len(h)
      PROVE  /\ Len(h[m].kids) \in Nat
             /\ DOMAIN h[m].kids = 1 .. Len(h[m].kids)
             /\ \A i \in 1 .. Len(h[m].kids) : h[m].kids[i] \in 1 .. Len(h)
  BY <1>2, LenProperties, ElementOfSeq
<1>. QED
  BY <1>1, <1>2, <1>3

\* One more node.
LEMMA NodeAppended ==
    ASSUME NEW h, HeapOK(h), NEW k, k = Len(h), NEW x, x \in Nodes(k)
    PROVE  /\ Append(h, x) \in Seq(Nodes(k))
           /\ Len(Append(h, x)) = k + 1 /\ Append(h, x)[k + 1] = x
           /\ \A m \in 1 .. k : Append(h, x)[m] = h[m]
BY AppendProperties DEF HeapOK

\* Its children are no clones.
LEMMA NodeAdded ==
    ASSUME NEW h, NEW v, NEW s, Private(h, v, s), NEW k, k = Len(h),
           NEW x, x \in Nodes(k), \A i \in 1 .. Len(s) : ~Names(x.kids, s[i].copy),
           NEW g, g \in Seq(Nodes(k)), Len(g) = k + 1, g[k + 1] = x,
           \A m \in 1 .. k : g[m] = h[m]
    PROVE  /\ Private(g, v, s)
           /\ k \in Nat
           /\ Unlinked(g, k + 1) /\ Unlisted(v, k + 1)
           /\ ~Clone(s, k + 1) /\ k + 1 \in 1 .. Len(g)
<1>2. /\ k \in Nat /\ HeapOK(h) /\ h \in Seq(Nodes(k)) /\ TrackerTyped(k, v)
      /\ IsSeq(s) /\ \A i \in 1 .. Len(s) : Fits(h, v, s[i])
  BY NodeFacts DEF Private, HeapOK
<1>3. /\ g \in Seq(Nodes(k)) /\ Len(g) = k + 1 /\ g[k + 1] = x
      /\ \A m \in 1 .. k : g[m] = h[m]
  OBVIOUS
<1>4. /\ Nodes(k) \subseteq Nodes(k + 1)
      /\ Entries(k) \subseteq Entries(k + 1)
      /\ Frames(k) \subseteq Frames(k + 1)
  BY <1>2, Roomier
<1>5. HeapOK(g)
  BY <1>3, <1>4, SeqMonotonic DEF HeapOK
<1>6. TrackerTyped(k + 1, v)
  BY <1>2, <1>4 DEF TrackerTyped
<1>7. ASSUME NEW c, Unlinked(h, c), ~Names(x.kids, c)
      PROVE  Unlinked(g, c)
  <2>1. \A m \in 1 .. k + 1 : m \in 1 .. k \/ m = k + 1
    BY <1>2
  <2>. QED
    BY <1>3, <1>7, <2>1 DEF Unlinked
<1>8. \A i \in 1 .. Len(s) : Fits(g, v, s[i])
  BY <1>2, <1>3, <1>4, <1>7 DEF Fits
<1>9. \A i \in 1 .. Len(s) : s[i].copy \in 1 .. k
  BY <1>2 DEF Fits, Frames
<1>10. \A i \in 1 .. Len(s) : i < Len(s) => Waits(g, s[i], s[i + 1].node)
  BY <1>3, <1>9 DEF Private, Waits
<1>11. Private(g, v, s)
  BY <1>2, <1>3, <1>5, <1>6, <1>8, <1>10 DEF Private
<1>12. Unlinked(g, k + 1)
  <2>1. \A m \in 1 .. k + 1 : ~Names(g[m].kids, k + 1)
    <3>1. ASSUME NEW y \in Nodes(k) PROVE ~Names(y.kids, k + 1)
      <4>1. y.kids \in Seq(1 .. k)
        BY DEF Nodes
      <4>2. \A i \in 1 .. Len(y.kids) : y.kids[i] \in 1 .. k
        BY <4>1, ElementOfSeq
      <4>. QED
        BY <1>2, <4>2 DEF Names
    <3>2. \A m \in 1 .. k + 1 : g[m] \in Nodes(k)
      BY <1>3, ElementOfSeq
    <3>. QED
      BY <3>1, <3>2
  <2>. QED
    BY <1>3, <2>1 DEF Unlinked
<1>13. Unlisted(v, k + 1)
  <2>1. k + 1 \notin 1 .. k /\ k + 1 \notin 0 .. k
    BY <1>2
  <2>2. \A n \in DOMAIN v : v[n].result \in 0 .. k
    BY <1>2 DEF TrackerTyped, Entries
  <2>. QED
    BY <1>2, <2>1, <2>2 DEF Unlisted, TrackerTyped
<1>14. ~Clone(s, k + 1) /\ k + 1 \in 1 .. Len(g)
  BY <1>2, <1>3, <1>9 DEF Clone
<1>. QED
  BY <1>2, <1>3, <1>11, <1>12, <1>13, <1>14

\* The innermost clone is changed.
LEMMA CloneChanged ==
    ASSUME NEW h, NEW v, NEW s, Private(h, v, s), s # << >>, NEW c, c = s[Len(s)].copy,
           NEW x, x \in Nodes(Len(h)), \A i \in 1 .. Len(s) : ~Names(x.kids, s[i].copy),
           NEW g, g \in Seq(Nodes(Len(h))), Len(g) = Len(h),
           \A m \in 1 .. Len(h) : g[m] = IF m = c THEN x ELSE h[m]
    PROVE  Private(g, v, s)
<1>1. PICK k : k = Len(h)
  OBVIOUS
<1>3. /\ k \in Nat /\ HeapOK(h) /\ h \in Seq(Nodes(k)) /\ TrackerTyped(k, v)
      /\ IsSeq(s) /\ Len(s) \in Nat \ {0} /\ \A i \in 1 .. Len(s) : Fits(h, v, s[i])
  BY <1>1, NodeFacts, FrontFacts DEF Private, HeapOK
<1>4. \A i \in 1 .. Len(s) : s[i].copy \in 1 .. k
  BY <1>1, <1>3 DEF Fits, Frames
<1>5. c \in 1 .. k
  BY <1>3, <1>4
<1>6. /\ g \in Seq(Nodes(k)) /\ Len(g) = k
      /\ \A m \in 1 .. k : g[m] = IF m = c THEN x ELSE h[m]
  BY <1>1
<1>7. HeapOK(g)
  BY <1>6 DEF HeapOK
<1>8. ASSUME NEW i \in 1 .. Len(s)
      PROVE  Fits(g, v, s[i])
  <2>1. Unlinked(g, s[i].copy)
    BY <1>1, <1>3, <1>6 DEF Unlinked, Fits
  <2>. QED
    BY <1>1, <1>3, <1>6, <2>1 DEF Fits
<1>9. ASSUME NEW i \in 1 .. Len(s), i < Len(s)
      PROVE  Waits(g, s[i], s[i + 1].node)
  <2>1. s[i].copy # c
    BY <1>3, <1>9 DEF Private
  <2>2. g[s[i].copy] = h[s[i].copy]
    BY <1>4, <1>6, <2>1
  <2>. QED
    BY <1>9, <2>2 DEF Private, Waits
<1>10. Private(g, v, s)
  BY <1>3, <1>6, <1>7, <1>8, <1>9 DEF Private
<1>. QED
  BY <1>10

----------------------------------------------------------------------------
(* The tracker.                                                            *)

\* An entry is written, for a node that is no clone and with a result that is none.
LEMMA EntryWritten ==
    ASSUME NEW h, NEW v, NEW s, Private(h, v, s),
           NEW n \in 1 .. Len(h), ~Clone(s, n),
           NEW e, e \in Entries(Len(h)), NEW r, r = e.result, ~Clone(s, r),
           NEW w, w = With(v, n, e)
    PROVE  Private(h, w, s)
<1>2. /\ DOMAIN w = DOMAIN v \union {n}
      /\ w[n] = e
      /\ \A x \in DOMAIN v : x # n => w[x] = v[x]
  BY DEF With
<1>4. TrackerTyped(Len(h), w)
  BY <1>2 DEF TrackerTyped, Private
<1>5. ASSUME NEW i \in 1 .. Len(s)
      PROVE  Fits(h, w, s[i])
  <2>1. Fits(h, v, s[i])
    BY DEF Private
  <2>2. s[i].copy # n /\ s[i].copy # e.result
    BY DEF Clone
  <2>3. Unlisted(w, s[i].copy)
    BY <1>2, <2>1, <2>2 DEF Unlisted, Fits
  <2>. QED
    BY <1>2, <2>1, <2>3 DEF Fits
<1>6. Private(h, w, s)
  BY <1>4, <1>5 DEF Private
<1>. QED
  BY <1>6

\* Nodes of the tracker, their results, and children are no clones.
LEMMA NoClones ==
    ASSUME NEW h, NEW v, NEW s, Private(h, v, s)
    PROVE  /\ ~Clone(s, 0)
           /\ \A n \in DOMAIN v : /\ n \in 1 .. Len(h) /\ ~Clone(s, n)
                                  /\ v[n].result \in 0 .. Len(h) /\ ~Clone(s, v[n].result)
                                  /\ v[n].busy \in BOOLEAN /\ v[n].once \in BOOLEAN
           /\ \A m \in 1 .. Len(h) : \A i \in 1 .. Len(h[m].kids) : ~Clone(s, h[m].kids[i])
<1>1. \A i \in 1 .. Len(s) : Fits(h, v, s[i])
  BY DEF Private
<1>2. TrackerTyped(Len(h), v) /\ Len(h) \in Nat
  BY NodeFacts DEF Private
<1>3. ~Clone(s, 0)
  BY <1>1, <1>2 DEF Clone, Fits, Frames
<1>4. ASSUME NEW n \in DOMAIN v
      PROVE  /\ n \in 1 .. Len(h) /\ v[n].result \in 0 .. Len(h)
             /\ v[n].busy \in BOOLEAN /\ v[n].once \in BOOLEAN
  BY <1>2 DEF TrackerTyped, Entries
<1>5. ASSUME NEW n \in DOMAIN v PROVE ~Clone(s, n) /\ ~Clone(s, v[n].result)
  BY <1>1 DEF Clone, Fits, Unlisted
<1>6. ASSUME NEW m \in 1 .. Len(h), NEW i \in 1 .. Len(h[m].kids)
      PROVE  ~Clone(s, h[m].kids[i])
  BY <1>1 DEF Clone, Fits, Unlinked, Names
<1>. QED
  BY <1>3, <1>4, <1>5, <1>6

\* The entries that are written.
LEMMA InfoIsEntry ==
    ASSUME NEW k, NEW b \in BOOLEAN, NEW o \in BOOLEAN, NEW r \in 0 .. k
    PROVE  /\ Info(b, o, r) \in Entries(k) /\ Info(b, o, r).result = r
           /\ Info(TRUE, o, r) \in Entries(k) /\ Info(TRUE, o, r).result = r
           /\ Info(FALSE, o, r) \in Entries(k) /\ Info(FALSE, o, r).result = r
           /\ Info(b, FALSE, r) \in Entries(k) /\ Info(b, FALSE, r).result = r
BY DEF Info, Entries

\* try_start.
LEMMA StartedPrivate ==
    ASSUME NEW h, NEW v, NEW s, Private(h, v, s), NEW n \in 1 .. Len(h), ~Clone(s, n),
           NEW o \in BOOLEAN
    PROVE  Private(h, Started(v, n, o), s) /\ n \in DOMAIN Started(v, n, o)
<1>1. PICK o2 \in BOOLEAN, r \in 0 .. Len(h) :
        ~Clone(s, r) /\ Started(v, n, o) = With(v, n, Info(TRUE, o2, r))
  <2>1. CASE Known(v, n)
    <3>1. Started(v, n, o) = With(v, n, Info(TRUE, v[n].once, v[n].result))
      BY <2>1 DEF Started
    <3>2. n \in DOMAIN v
      BY <2>1 DEF Known
    <3>3. v[n].once \in BOOLEAN /\ v[n].result \in 0 .. Len(h) /\ ~Clone(s, v[n].result)
      BY <3>2, NoClones
    <3>. QED
      BY <3>1, <3>3
  <2>2. CASE ~Known(v, n)
    <3>1. Started(v, n, o) = With(v, n, Info(TRUE, o, n))
      BY <2>2 DEF Started
    <3>2. n \in 0 .. Len(h)
      BY NodeFacts DEF Private
    <3>. QED
      BY <3>1, <3>2
  <2>. QED
    BY <2>1, <2>2
<1>2. PICK e : e = Info(TRUE, o2, r)
  OBVIOUS
<1>4. e \in Entries(Len(h)) /\ r = e.result
  BY <1>1, <1>2, InfoIsEntry
<1>5. PICK w : w = With(v, n, e)
  OBVIOUS
<1>3. Private(h, w, s)
  BY <1>1, <1>4, <1>5, EntryWritten
<1>6. n \in DOMAIN w
  BY <1>5 DEF With
<1>. QED
  BY <1>1, <1>2, <1>3, <1>5, <1>6

\* visitAgain().
LEMMA MarkedAgainPrivate ==
    ASSUME NEW h, NEW v, NEW s, Private(h, v, s), NEW n \in DOMAIN v
    PROVE  Private(h, MarkedAgain(v, n), s)
<1>1. CASE heap[n].label \in Again
  <2>1. PICK b \in BOOLEAN, r \in 0 .. Len(h) :
          b = v[n].busy /\ r = v[n].result /\ n \in 1 .. Len(h) /\ ~Clone(s, n) /\ ~Clone(s, r)
    BY NoClones
  <2>2. MarkedAgain(v, n) = With(v, n, Info(b, FALSE, r))
    BY <1>1, <2>1 DEF MarkedAgain
  <2>3. PICK e : e = Info(b, FALSE, r)
    OBVIOUS
  <2>5. PICK k : k = Len(h)
    OBVIOUS
  <2>8. e \in Entries(k) /\ r = e.result
    BY <2>3, <2>5, InfoIsEntry
  <2>6. e \in Entries(Len(h)) /\ r = e.result /\ n \in 1 .. Len(h) /\ ~Clone(s, n) /\ ~Clone(s, r)
    BY <2>1, <2>5, <2>8
  <2>7. PICK w : w = With(v, n, e)
    OBVIOUS
  <2>4. Private(h, w, s)
    BY <2>6, <2>7, EntryWritten
  <2>. QED
    BY <2>2, <2>3, <2>4, <2>7
<1>2. CASE heap[n].label \notin Again
  BY <1>2 DEF MarkedAgain
<1>. QED
  BY <1>1, <1>2

\* finish keeps every entry.
LEMMA FinishedDomain ==
    ASSUME NEW h, NEW v, NEW n, NEW final
    PROVE  \A x \in DOMAIN v : x \in DOMAIN Finished(v, h, n, final)
BY DEF Finished, Emplaced, Marked, With

\* finish.
LEMMA FinishedPrivate ==
    ASSUME NEW h, NEW v, NEW s, Private(h, v, s), NEW n \in DOMAIN v,
           NEW final \in 0 .. Len(h), ~Clone(s, final)
    PROVE  Private(h, Finished(v, h, n, final), s)
<1>1. PICK o \in BOOLEAN :
        /\ o = v[n].once /\ n \in 1 .. Len(h) /\ ~Clone(s, n)
        /\ v[n].result \in 0 .. Len(h) /\ ~Clone(s, v[n].result)
  BY NoClones
<1>2. PICK r \in 0 .. Len(h) :
        ~Clone(s, r) /\ Marked(v, h, n, final) = With(v, n, Info(FALSE, o, r))
  BY <1>1 DEF Marked
<1>3. PICK e, e2 : e = Info(FALSE, o, r) /\ e2 = Info(FALSE, o, final)
  OBVIOUS
<1>8. /\ e \in Entries(Len(h)) /\ r = e.result
      /\ e2 \in Entries(Len(h)) /\ final = e2.result
  BY <1>2, <1>3, InfoIsEntry
<1>4. PICK m : m = Marked(v, h, n, final)
  OBVIOUS
<1>5. Private(h, m, s)
  <2>1. m = With(v, n, e) /\ ~Clone(s, r)
    BY <1>2, <1>3, <1>4
  <2>. QED
    BY <1>1, <1>8, <2>1, EntryWritten
<1>6. CASE final # Null /\ Replaces(h, n, final) /\ ~Known(m, final)
  <2>1. Finished(v, h, n, final) = With(m, final, Info(FALSE, o, final))
    BY <1>1, <1>4, <1>6 DEF Finished, Emplaced
  <2>2. final \in 1 .. Len(h)
    BY <1>6, NodeFacts DEF Null, Private
  <2>3. PICK w : w = With(m, final, e2)
    OBVIOUS
  <2>4. Private(h, w, s)
    BY <1>5, <1>8, <2>2, <2>3, EntryWritten
  <2>. QED
    BY <1>3, <2>1, <2>3, <2>4
<1>7. CASE ~(final # Null /\ Replaces(h, n, final) /\ ~Known(m, final))
  <2>1. Finished(v, h, n, final) = m
    BY <1>4, <1>7 DEF Finished, Emplaced
  <2>. QED
    BY <1>5, <2>1
<1>. QED
  BY <1>6, <1>7

----------------------------------------------------------------------------
(* Activations.                                                            *)

\* The innermost one is left.
LEMMA PoppedPrivate ==
    ASSUME NEW h, NEW v, NEW s, Private(h, v, s), s # << >>
    PROVE  Private(h, v, Front(s)) /\ ~Clone(Front(s), s[Len(s)].copy)
<1>1. PICK t : t = Front(s)
  OBVIOUS
<1>2. /\ IsSeq(t) /\ Len(s) \in Nat \ {0} /\ Len(t) = Len(s) - 1
      /\ \A i \in 1 .. Len(s) - 1 : t[i] = s[i]
  BY <1>1, FrontFacts DEF Private
<1>3. \A i \in 1 .. Len(t) : i \in 1 .. Len(s) /\ t[i] = s[i] /\ i # Len(s)
  BY <1>2
<1>4. \A i \in 1 .. Len(t) : Fits(h, v, t[i])
  BY <1>3 DEF Private
<1>5. \A i, j \in 1 .. Len(t) : i # j => t[i].copy # t[j].copy
  BY <1>3 DEF Private
<1>6. ASSUME NEW i \in 1 .. Len(t), i < Len(t)
      PROVE  Waits(h, t[i], t[i + 1].node)
  <2>1. i + 1 \in 1 .. Len(t) /\ i < Len(s)
    BY <1>2, <1>6
  <2>2. t[i] = s[i] /\ t[i + 1] = s[i + 1] /\ i \in 1 .. Len(s)
    BY <1>3, <2>1
  <2>. QED
    BY <2>1, <2>2 DEF Private
<1>7. Private(h, v, t)
  BY <1>2, <1>4, <1>5, <1>6 DEF Private
<1>8. ~Clone(t, s[Len(s)].copy)
  BY <1>2, <1>3 DEF Private, Clone
<1>. QED
  BY <1>1, <1>7, <1>8

\* One more: the innermost waits for it.
LEMMA PushedPrivate ==
    ASSUME NEW h, NEW v, NEW s, Private(h, v, s), NEW f, Fits(h, v, f), ~Clone(s, f.copy),
           s # << >> => Waits(h, s[Len(s)], f.node)
    PROVE  Private(h, v, Append(s, f))
<1>1. PICK t : t = Append(s, f)
  OBVIOUS
<1>2. /\ IsSeq(t) /\ Len(s) \in Nat /\ Len(t) = Len(s) + 1
      /\ \A i \in 1 .. Len(s) : t[i] = s[i]
      /\ t[Len(s) + 1] = f
  BY <1>1, AppendFacts DEF Private
<1>3. \A i \in 1 .. Len(t) : i \in 1 .. Len(s) \/ i = Len(s) + 1
  BY <1>2
<1>4. \A i \in 1 .. Len(t) : Fits(h, v, t[i])
  BY <1>2, <1>3 DEF Private
<1>5. \A i, j \in 1 .. Len(t) : i # j => t[i].copy # t[j].copy
  BY <1>2, <1>3 DEF Private, Clone
<1>6. ASSUME NEW i \in 1 .. Len(t), i < Len(t)
      PROVE  Waits(h, t[i], t[i + 1].node)
  <2>1. CASE i < Len(s)
    <3>1. i \in 1 .. Len(s) /\ i + 1 \in 1 .. Len(s)
      BY <1>2, <2>1
    <3>. QED
      BY <1>2, <2>1, <3>1 DEF Private
  <2>2. CASE ~(i < Len(s))
    <3>1. i = Len(s) /\ i \in 1 .. Len(s)
      BY <1>2, <1>6, <2>2
    <3>2. s # << >>
      BY <3>1
    <3>. QED
      BY <1>2, <3>1, <3>2
  <2>. QED
    BY <2>1, <2>2
<1>7. Private(h, v, t)
  BY <1>2, <1>4, <1>5, <1>6 DEF Private
<1>. QED
  BY <1>1, <1>7

\* The innermost goes on, with the clone it has or another.
LEMMA TopPrivate ==
    ASSUME NEW h, NEW v, NEW s, Private(h, v, s), s # << >>, NEW f, Fits(h, v, f),
           ~Clone(Front(s), f.copy), f.node = s[Len(s)].node
    PROVE  Private(h, v, Append(Front(s), f))
<1>1. PICK t : t = Front(s)
  OBVIOUS
<1>2. /\ Private(h, v, t) /\ Len(s) \in Nat \ {0} /\ Len(t) = Len(s) - 1
      /\ \A i \in 1 .. Len(s) - 1 : t[i] = s[i]
  <2>1. IsSeq(s)
    BY DEF Private
  <2>2. Private(h, v, t)
    BY <1>1, PoppedPrivate
  <2>. QED
    BY <1>1, <2>1, <2>2, FrontFacts
<1>3. ASSUME t # << >> PROVE Waits(h, t[Len(t)], f.node)
  <2>1. Len(t) \in Nat \ {0}
    BY <1>2, <1>3, FrontFacts DEF Private
  <2>2. Len(t) \in 1 .. Len(s) - 1 /\ Len(t) \in 1 .. Len(s) /\ Len(t) < Len(s) /\ Len(t) + 1 = Len(s)
    BY <1>2, <2>1
  <2>3. Waits(h, s[Len(t)], s[Len(s)].node)
    BY <2>2 DEF Private
  <2>. QED
    BY <1>2, <2>2, <2>3
<1>4. Private(h, v, Append(t, f))
  BY <1>1, <1>2, <1>3, PushedPrivate
<1>. QED
  BY <1>1, <1>4

----------------------------------------------------------------------------
(* Returning from a visit.                                                 *)

\* RemoveAt and ReplaceAt bring no one in but r.
LEMMA KidsPutBack ==
    ASSUME NEW S, NEW kids \in Seq(S), NEW i \in 1 .. Len(kids), NEW r
    PROVE  /\ RemoveAt(kids, i) \in Seq(S)
           /\ r \in S => ReplaceAt(kids, i, r) \in Seq(S)
           /\ \A c : Names(RemoveAt(kids, i), c) => Names(kids, c)
           /\ \A c : Names(ReplaceAt(kids, i, r), c) => Names(kids, c) \/ c = r
<1>1. PICK T : T = { kids[k] : k \in 1 .. Len(kids) }
  OBVIOUS
<1>2. Len(kids) \in Nat /\ kids \in [1 .. Len(kids) -> S]
  BY LenProperties
<1>3. kids \in [1 .. Len(kids) -> T]
  BY <1>1, <1>2
<1>4. kids \in Seq(T)
  BY <1>2, <1>3, SeqDef
<1>5. ASSUME NEW U, kids \in Seq(U) PROVE RemoveAt(kids, i) \in Seq(U)
  <2>1. \A k \in 1 .. Len(kids) : kids[k] \in U
    BY <1>5, ElementOfSeq
  <2>2. PICK a, b, z : a = i - 1 /\ b = i + 1 /\ z = Len(kids)
    OBVIOUS
  <2>3. /\ a \in Int /\ b \in Int /\ z \in Int /\ 1 \in Int
        /\ \A k \in 1 .. a : k \in 1 .. Len(kids)
        /\ \A k \in b .. z : k \in 1 .. Len(kids)
    BY <1>2, <2>2
  <2>4. SubSeq(kids, 1, a) \in Seq(U)
    BY <2>1, <2>2, <2>3, SubSeqProperties
  <2>5. SubSeq(kids, b, z) \in Seq(U)
    BY <2>1, <2>2, <2>3, SubSeqProperties
  <2>. QED
    BY <2>2, <2>4, <2>5, ConcatProperties DEF RemoveAt
<1>6. ASSUME NEW c, Names(RemoveAt(kids, i), c) PROVE Names(kids, c)
  <2>1. RemoveAt(kids, i) \in Seq(T)
    BY <1>4, <1>5
  <2>2. c \in T
    BY <1>6, <2>1, ElementOfSeq DEF Names
  <2>. QED
    BY <1>1, <2>2 DEF Names
<1>7. ASSUME NEW c, Names(ReplaceAt(kids, i, r), c) PROVE Names(kids, c) \/ c = r
  <2>1. PICK U : U = S \union {r}
    OBVIOUS
  <2>2. kids \in Seq(U) /\ r \in U
    BY <2>1, SeqMonotonic
  <2>3. /\ Len(ReplaceAt(kids, i, r)) = Len(kids)
        /\ \A j \in 1 .. Len(kids) : ReplaceAt(kids, i, r)[j] = IF j = i THEN r ELSE kids[j]
    BY <2>2, ExceptSeq DEF ReplaceAt
  <2>. QED
    BY <1>7, <2>3 DEF Names
<1>8. r \in S => ReplaceAt(kids, i, r) \in Seq(S)
  BY ExceptSeq DEF ReplaceAt
<1>. QED
  BY <1>5, <1>6, <1>7, <1>8

\* The caller puts the child back and goes on.
LEMMA PutBackPrivate ==
    ASSUME NEW h, NEW v, NEW s, Private(h, v, s), s # << >>, NEW m, m = s[Len(s)],
           m.at \in 1 .. Len(h[m.copy].kids), NEW r, r \in 0 .. Len(h), ~Clone(s, r),
           NEW g, g = PutBack(h, m, r), NEW a, a = Advanced(m, r)
    PROVE  Private(g, v, Append(Front(s), a)) /\ Len(g) = Len(h)
<1>1. PICK c : c = m.copy
  OBVIOUS
<1>2. PICK k : k = Len(h)
  OBVIOUS
<1>3. Len(s) \in Nat \ {0} /\ k \in Nat /\ HeapOK(h)
  BY <1>2, NodeFacts, FrontFacts DEF Private
<1>4. Fits(h, v, m)
  BY <1>3 DEF Private
<1>5. c \in 1 .. k
  BY <1>1, <1>2, <1>4 DEF Fits, Frames
<1>6. /\ h[c] \in Nodes(k) /\ h[c].kids \in Seq(1 .. k)
      /\ m.at \in 1 .. Len(h[c].kids)
  BY <1>1, <1>2, <1>3, <1>5, NodeFacts
<1>7. PICK K : K = IF r = Null THEN RemoveAt(h[c].kids, m.at) ELSE ReplaceAt(h[c].kids, m.at, r)
  OBVIOUS
<1>8. PICK x : x = [h[c] EXCEPT !.kids = K]
  OBVIOUS
<1>14. g = [h EXCEPT ![c] = x]
  BY <1>1, <1>5, <1>7, <1>8 DEF PutBack
<1>10. r # Null => r \in 1 .. k
  BY <1>2, <1>3 DEF Null
<1>11. K \in Seq(1 .. k) /\ \A d : Names(K, d) => Names(h[c].kids, d) \/ d = r
  <2>1. CASE r = Null
    BY <1>6, <1>7, <2>1, KidsPutBack
  <2>2. CASE r # Null
    BY <1>6, <1>7, <1>10, <2>2, KidsPutBack
  <2>. QED
    BY <2>1, <2>2
<1>12. x \in Nodes(k) /\ x.kids = K
  BY <1>6, <1>8, <1>11 DEF Nodes
<1>13. \A i \in 1 .. Len(s) : ~Names(x.kids, s[i].copy)
  <2>1. ASSUME NEW i \in 1 .. Len(s) PROVE ~Names(h[c].kids, s[i].copy) /\ s[i].copy # r
    <3>1. Unlinked(h, s[i].copy)
      BY DEF Private, Fits
    <3>. QED
      BY <1>2, <1>5, <3>1 DEF Unlinked, Clone
  <2>. QED
    BY <1>11, <1>12, <2>1
<1>15. Private(g, v, s) /\ Len(g) = k
  <2>1. h \in Seq(Nodes(k))
    BY <1>2, <1>3 DEF HeapOK
  <2>2. /\ g \in Seq(Nodes(k)) /\ Len(g) = k
        /\ \A i \in 1 .. k : g[i] = IF i = c THEN x ELSE h[i]
    BY <1>2, <1>5, <1>12, <1>14, <2>1, ExceptSeq
  <2>3. c = s[Len(s)].copy
    BY <1>1
  <2>4. Private(g, v, s)
    <3>1. /\ x \in Nodes(Len(h)) /\ g \in Seq(Nodes(Len(h))) /\ Len(g) = Len(h)
          /\ \A i \in 1 .. Len(h) : g[i] = IF i = c THEN x ELSE h[i]
      BY <1>2, <1>12, <2>2
    <3>. QED
      BY <1>13, <2>3, <3>1, CloneChanged
  <2>. QED
    BY <2>2, <2>4
<1>17. Fits(g, v, a) /\ a.node = m.node /\ a.copy = m.copy
  <2>1. Fits(g, v, m)
    BY <1>3, <1>15 DEF Private
  <2>2. m \in Frames(k)
    BY <1>2, <1>4 DEF Fits
  <2>3. /\ a \in Frames(k) /\ a.node = m.node /\ a.copy = m.copy /\ a.extra = m.extra
        /\ a.pre = m.pre
    <3>1. CASE r = Null
      BY <2>2, <3>1 DEF Advanced
    <3>2. CASE r # Null
      <4>1. PICK n : n = m.at + 1
        OBVIOUS
      <4>2. n \in Nat \ {0}
        BY <2>2, <4>1 DEF Frames
      <4>3. a = [m EXCEPT !.at = n]
        BY <2>2, <3>2, <4>1 DEF Advanced, Frames
      <4>. QED
        BY <2>2, <4>2, <4>3 DEF Frames
    <3>. QED
      BY <3>1, <3>2
  <2>. QED
    BY <1>15, <2>1, <2>3 DEF Fits
<1>18. ~Clone(Front(s), a.copy)
  BY <1>17, PoppedPrivate
<1>19. Private(g, v, Append(Front(s), a))
  BY <1>15, <1>17, <1>18, TopPrivate
<1>. QED
  BY <1>2, <1>15, <1>19

\* finish, for an activation that is left.
LEMMA LeftPrivate ==
    ASSUME NEW h, NEW v, NEW below, NEW f, IsSeq(below), NEW t, t = Append(below, f),
           Private(h, v, t), NEW final0, final0 \in 0 .. Len(h),
           final0 = f.copy \/ ~Clone(t, final0),
           NEW final, final = final0 \/ final = f.pre
    PROVE  /\ final \in 0 .. Len(h) /\ ~Clone(below, final)
           /\ f.node \in 1 .. Len(h) /\ ~Clone(below, f.node)
           /\ Private(h, FinishedExtra(Finished(v, h, f.node, final), h, f, final), below)
           /\ below # << >> => Waits(h, below[Len(below)], f.node)
<1>1. /\ t # << >> /\ Front(t) = below /\ Len(below) \in Nat /\ Len(t) = Len(below) + 1
      /\ t[Len(t)] = f /\ \A i \in 1 .. Len(below) : t[i] = below[i]
  <2>1. Len(below) \in Nat /\ Len(t) = Len(below) + 1 /\ t[Len(below) + 1] = f
          /\ \A i \in 1 .. Len(below) : t[i] = below[i]
    BY AppendFacts
  <2>2. t # << >>
    BY <2>1
  <2>. QED
    BY <2>1, <2>2, FrontAppend
<1>2. Private(h, v, below) /\ ~Clone(below, f.copy)
  BY <1>1, PoppedPrivate
<1>3. Fits(h, v, f) /\ Len(h) \in Nat
  BY <1>1, NodeFacts DEF Private
<1>4. f.node \in DOMAIN v /\ f.node \in 1 .. Len(h) /\ ~Clone(below, f.node)
  BY <1>2, <1>3, NoClones DEF Fits
<1>5. \A c : ~Clone(t, c) => ~Clone(below, c)
  BY <1>1 DEF Clone
<1>6. final \in 0 .. Len(h) /\ ~Clone(below, final)
  <2>1. CASE final = final0
    BY <1>2, <1>5, <2>1
  <2>2. CASE final = f.pre
    <3>1. f.pre \in 0 .. Len(h)
      BY <1>3 DEF Fits, Frames
    <3>2. f.extra \in BOOLEAN
      BY <1>3 DEF Fits, Frames
    <3>3. CASE f.extra
      <4>1. f.pre \in DOMAIN v
        BY <1>3, <3>3 DEF Fits
      <4>. QED
        BY <1>2, <2>2, <3>1, <4>1, NoClones
    <3>4. CASE ~f.extra
      <4>1. f.pre = f.copy
        BY <1>3, <3>4 DEF Fits
      <4>. QED
        BY <1>2, <2>2, <3>1, <4>1
    <3>. QED
      BY <3>2, <3>3, <3>4
  <2>. QED
    BY <2>1, <2>2
<1>7. PICK w : w = Finished(v, h, f.node, final)
  OBVIOUS
<1>8. Private(h, w, below)
  BY <1>2, <1>4, <1>6, <1>7, FinishedPrivate
<1>9. \A x \in DOMAIN v : x \in DOMAIN w
  BY <1>2, <1>4, <1>6, <1>7, FinishedDomain
<1>10. Private(h, FinishedExtra(w, h, f, final), below)
  <2>1. CASE f.extra
    <3>1. PICK p : p = f.pre
      OBVIOUS
    <3>2. p \in DOMAIN w
      BY <1>3, <1>9, <2>1, <3>1 DEF Fits
    <3>3. Private(h, Finished(w, h, p, final), below)
      BY <1>6, <1>8, <3>2, FinishedPrivate
    <3>. QED
      BY <2>1, <3>1, <3>3 DEF FinishedExtra
  <2>2. CASE ~f.extra
    BY <1>8, <2>2 DEF FinishedExtra
  <2>. QED
    BY <2>1, <2>2
<1>11. ASSUME below # << >> PROVE Waits(h, below[Len(below)], f.node)
  <2>1. Len(below) \in Nat \ {0}
    BY <1>11, FrontFacts
  <2>2. Len(below) \in 1 .. Len(t) /\ Len(below) < Len(t) /\ Len(below) \in 1 .. Len(below)
    BY <1>1, <2>1
  <2>3. Waits(h, t[Len(below)], t[Len(below) + 1].node)
    BY <2>2 DEF Private
  <2>. QED
    BY <1>1, <2>2, <2>3
<1>. QED
  BY <1>4, <1>6, <1>7, <1>10, <1>11

----------------------------------------------------------------------------
(* Steps, and the types.                                                   *)

TInv ==
    /\ Private(heap, visited, stack)
    /\ self \in Visits
    /\ stack = << >> <=> status = "done"
    /\ status \in {"run", "done", "bug"}
    /\ pruneFlag \in BOOLEAN
    /\ out \in 0 .. Len(heap)
    /\ edits \in 0 .. MaxEdits
    /\ DOMAIN last \subseteq 1 .. Len(heap)
    /\ pruned \subseteq 0 .. Len(heap)
    /\ looped \subseteq 1 .. Len(heap) /\ dirty \subseteq 1 .. Len(heap)

\* What a step must establish, but for the counts and the nodes it has met.
Moved ==
    /\ Private(heap', visited', stack')
    /\ Len(heap) <= Len(heap')
    /\ stack' = << >> <=> status' = "done"
    /\ status' \in {"run", "done", "bug"}
    /\ pruneFlag' \in BOOLEAN
    /\ out' \in 0 .. Len(heap')
    /\ DOMAIN last' \subseteq 1 .. Len(heap')
    /\ pruned' \subseteq 0 .. Len(heap')

\* The innermost activation.
LEMMA TopFits ==
    ASSUME TInv, status = "run"
    PROVE  /\ stack # << >> /\ Len(stack) \in Nat \ {0} /\ Top = stack[Len(stack)]
           /\ Fits(heap, visited, Top) /\ Top \in Frames(Len(heap))
           /\ Top.copy \in 1 .. Len(heap) /\ Top.node \in DOMAIN visited
           /\ Len(heap) \in Nat /\ heap[Top.copy] \in Nodes(Len(heap))
           /\ ~Clone(Front(stack), Top.copy)
           /\ Private(heap, visited, Append(Front(stack), Top))
<1>1. stack # << >>
  BY DEF TInv
<1>2. Private(heap, visited, stack)
  BY DEF TInv
<1>3. Len(stack) \in Nat \ {0} /\ Top = stack[Len(stack)]
  BY <1>1, <1>2, FrontFacts DEF Private, Top, Last
<1>4. PICK m : m = Top
  OBVIOUS
<1>5. Fits(heap, visited, m) /\ m \in Frames(Len(heap))
  BY <1>2, <1>3, <1>4 DEF Private, Fits
<1>6. m.copy \in 1 .. Len(heap) /\ m.node \in DOMAIN visited
  BY <1>5 DEF Fits, Frames
<1>7. Len(heap) \in Nat /\ heap[m.copy] \in Nodes(Len(heap))
  BY <1>2, <1>6, NodeFacts DEF Private
<1>8. m.copy = stack[Len(stack)].copy /\ m.node = stack[Len(stack)].node
  BY <1>3, <1>4
<1>9. ~Clone(Front(stack), m.copy)
  BY <1>1, <1>2, <1>8, PoppedPrivate
<1>10. Private(heap, visited, Append(Front(stack), m))
  BY <1>1, <1>2, <1>5, <1>8, <1>9, TopPrivate
<1>. QED
  BY <1>1, <1>3, <1>4, <1>5, <1>6, <1>7, <1>9, <1>10

\* The same for the caller that is innermost once the visit has returned.
LEMMA CallerGoesOn ==
    ASSUME NEW h, NEW v, NEW s, Private(h, v, s), s # << >>,
           Last(s).at \in 1 .. Len(h[Last(s).copy].kids), NEW r, r \in 0 .. Len(h), ~Clone(s, r)
    PROVE  /\ Private(PutBack(h, Last(s), r), v, Append(Front(s), Advanced(Last(s), r)))
           /\ Len(PutBack(h, Last(s), r)) = Len(h)
<1>1. PICK m : m = Last(s)
  OBVIOUS
<1>2. m = s[Len(s)]
  BY <1>1 DEF Last
<1>3. PICK g, a : g = PutBack(h, m, r) /\ a = Advanced(m, r)
  OBVIOUS
<1>4. Private(g, v, Append(Front(s), a)) /\ Len(g) = Len(h)
  BY <1>1, <1>2, <1>3, PutBackPrivate
<1>. QED
  BY <1>1, <1>3, <1>4

\* The visit of f ends.
LEMMA ReturnMoves ==
    ASSUME TInv, status = "run", NEW f, NEW h, NEW v, NEW t, t = Append(Front(stack), f),
           Private(h, v, t), Len(heap) <= Len(h),
           NEW final0, final0 \in 0 .. Len(h), final0 = f.copy \/ ~Clone(t, final0),
           Return(f, h, v, final0)
    PROVE  Moved
<1>1. PICK below : below = Front(stack)
  OBVIOUS
<1>2. IsSeq(below) /\ t = Append(below, f)
  BY <1>1, TopFits, FrontFacts DEF TInv, Private
<1>3. PICK final : final = IF final0 = f.copy /\ h[final0] = h[f.pre] THEN f.pre ELSE final0
  OBVIOUS
<1>4. PICK r : r = IF Changes(v, h, f.node, final) THEN final ELSE f.node
  OBVIOUS
<1>5. PICK w : w = FinishedExtra(Finished(v, h, f.node, final), h, f, final)
  OBVIOUS
<1>6. /\ visited' = w /\ last' = With(last, f.node, r)
      /\ pruned' = IF f.skips THEN pruned \union {r} ELSE pruned
      /\ pruneFlag' = f.saved
      /\ below = << >> => stack' = << >> /\ heap' = h /\ status' = "done" /\ out' = r
      /\ below # << >> =>
            /\ heap' = PutBack(h, Last(below), r)
            /\ stack' = Append(Front(below), Advanced(Last(below), r))
            /\ status' = status /\ out' = out
  BY <1>1, <1>3, <1>4, <1>5 DEF Return, FlagRestored
<1>7. /\ final \in 0 .. Len(h) /\ ~Clone(below, final)
      /\ f.node \in 1 .. Len(h) /\ ~Clone(below, f.node)
      /\ Private(h, w, below)
      /\ below # << >> => Waits(h, below[Len(below)], f.node)
  <2>1. final = final0 \/ final = f.pre
    BY <1>3
  <2>. QED
    BY <1>2, <1>5, <2>1, LeftPrivate
<1>8. Len(h) \in Nat /\ r \in 0 .. Len(h) /\ ~Clone(below, r)
  <2>1. Len(h) \in Nat
    BY NodeFacts DEF Private
  <2>. QED
    BY <1>4, <1>7, <2>1
<1>9. f.saved \in BOOLEAN
  <2>1. t # << >> /\ t[Len(t)] = f
    BY <1>2, AppendFacts
  <2>2. Len(t) \in Nat \ {0}
    BY <2>1, FrontFacts DEF Private
  <2>3. Fits(h, v, t[Len(t)])
    BY <2>2 DEF Private
  <2>4. Fits(h, v, f)
    BY <2>1, <2>3
  <2>. QED
    BY <2>4 DEF Fits, Frames
<1>10. /\ DOMAIN last' \subseteq 1 .. Len(h) /\ pruned' \subseteq 0 .. Len(h)
       /\ out \in 0 .. Len(h) /\ out' \in 0 .. Len(h)
  <2>1. Len(heap) \in Nat
    BY TopFits
  <2>2. /\ DOMAIN last \subseteq 1 .. Len(h) /\ pruned \subseteq 0 .. Len(h)
        /\ out \in 0 .. Len(h)
    BY <1>8, <2>1 DEF TInv
  <2>3. DOMAIN With(last, f.node, r) = DOMAIN last \union {f.node}
    BY DEF With
  <2>. QED
    BY <1>6, <1>7, <1>8, <2>2, <2>3
<1>11. Private(heap', visited', stack') /\ Len(heap') = Len(h)
  <2>1. CASE below = << >>
    BY <1>6, <1>7, <2>1
  <2>2. CASE below # << >>
    <3>1. Last(below).at \in 1 .. Len(h[Last(below).copy].kids)
      BY <1>7, <2>2 DEF Waits, Last
    <3>2. /\ Private(PutBack(h, Last(below), r), w, Append(Front(below), Advanced(Last(below), r)))
          /\ Len(PutBack(h, Last(below), r)) = Len(h)
      BY <1>7, <1>8, <2>2, <3>1, CallerGoesOn
    <3>. QED
      BY <1>6, <2>2, <3>2
  <2>. QED
    BY <2>1, <2>2
<1>12. /\ stack' = << >> <=> status' = "done"
       /\ status' \in {"run", "done", "bug"}
  <2>1. CASE below = << >>
    BY <1>6, <2>1
  <2>2. CASE below # << >>
    <3>1. IsSeq(Front(below))
      BY <1>2, <2>2, FrontFacts
    <3>2. stack' # << >>
      BY <1>6, <2>2, <3>1, AppendFacts
    <3>. QED
      BY <1>6, <2>2, <3>2
  <2>. QED
    BY <2>1, <2>2
<1>. QED
  BY <1>6, <1>9, <1>10, <1>11, <1>12 DEF Moved

\* The innermost activation, changed or not, goes on.
LEMMA TopMoves ==
    ASSUME TInv, status = "run", NEW f, NEW h, NEW v, Private(h, v, Append(Front(stack), f)),
           Len(heap) <= Len(h),
           heap' = h, visited' = v, stack' = Append(Front(stack), f), pruneFlag' \in BOOLEAN,
           UNCHANGED <<status, out, last, pruned>>
    PROVE  Moved
<1>1. Len(h) \in Nat /\ Len(heap) \in Nat
  BY NodeFacts DEF Private, TInv
<1>2. stack' # << >>
  <2>1. IsSeq(Front(stack))
    BY TopFits, FrontFacts DEF TInv, Private
  <2>. QED
    BY <2>1, AppendFacts
<1>3. Private(heap', visited', stack')
  OBVIOUS
<1>4. /\ out' \in 0 .. Len(heap') /\ DOMAIN last' \subseteq 1 .. Len(heap')
      /\ pruned' \subseteq 0 .. Len(heap')
  BY <1>1 DEF TInv
<1>. QED
  BY <1>1, <1>2, <1>3, <1>4 DEF Moved

\* preorder is over.
LEMMA DescendMoves ==
    ASSUME TInv, status = "run", NEW f, NEW h, NEW v, NEW t, t = Append(Front(stack), f),
           Private(h, v, t), Len(heap) <= Len(h), Descend(f, h, v)
    PROVE  Moved
<1>1. IsSeq(Front(stack))
  BY TopFits, FrontFacts DEF TInv, Private
<1>2. t # << >> /\ Front(t) = Front(stack) /\ t[Len(t)] = f /\ Len(t) \in Nat \ {0}
  <2>1. t # << >> /\ t[Len(t)] = f
    BY <1>1, AppendFacts
  <2>. QED
    BY <1>1, <2>1, FrontAppend, FrontFacts DEF Private
<1>3. Fits(h, v, f)
  BY <1>2 DEF Private
<1>4. CASE pruneFlag
  <2>1. PICK p : p = f.pre
    OBVIOUS
  <2>2. Return(f, h, v, p)
    BY <1>4, <2>1 DEF Descend
  <2>3. p \in 0 .. Len(h) /\ f.extra \in BOOLEAN
    BY <1>3, <2>1 DEF Fits, Frames
  <2>4. p = f.copy \/ p \in DOMAIN v
    BY <1>3, <2>1, <2>3 DEF Fits
  <2>5. p = f.copy \/ ~Clone(t, p)
    BY <2>4, NoClones
  <2>. QED
    BY <2>2, <2>3, <2>5, ReturnMoves
<1>5. CASE ~pruneFlag
  <2>1. PICK g : g = [f EXCEPT !.at = 1, !.step = "kids"]
    OBVIOUS
  <2>2. Fits(h, v, g) /\ g.node = f.node /\ g.copy = f.copy
    <3>1. f \in Frames(Len(h))
      BY <1>3 DEF Fits
    <3>3. PICK e : e = [f EXCEPT !.at = 1]
      OBVIOUS
    <3>4. /\ e \in Frames(Len(h)) /\ e.node = f.node /\ e.copy = f.copy
          /\ e.extra = f.extra /\ e.pre = f.pre
      BY <3>1, <3>3 DEF Frames
    <3>5. g = [e EXCEPT !.step = "kids"]
      BY <2>1, <3>1, <3>3 DEF Frames
    <3>2. /\ g \in Frames(Len(h)) /\ g.node = f.node /\ g.copy = f.copy
          /\ g.extra = f.extra /\ g.pre = f.pre
      BY <3>4, <3>5 DEF Frames
    <3>. QED
      BY <1>3, <3>2 DEF Fits
  <2>3. ~Clone(Front(t), g.copy) /\ g.node = t[Len(t)].node
    BY <1>2, <2>2, PoppedPrivate
  <2>4. Private(h, v, Append(Front(t), g))
    BY <1>2, <2>2, <2>3, TopPrivate
  <2>5. Private(h, v, Append(Front(stack), g))
    BY <1>2, <2>4
  <2>6. /\ heap' = h /\ visited' = v /\ stack' = Append(Front(stack), g)
        /\ pruneFlag' = pruneFlag /\ UNCHANGED <<status, out, last, pruned>>
    BY <1>5, <2>1 DEF Descend
  <2>7. pruneFlag' \in BOOLEAN
    BY <2>6 DEF TInv
  <2>. QED
    BY <2>5, <2>6, <2>7, TopMoves
<1>. QED
  BY <1>4, <1>5

\* The next child of the innermost activation.
LEMMA ChildFacts ==
    ASSUME TInv, status = "run", More
    PROVE  /\ Top.at \in 1 .. Len(heap[Top.copy].kids)
           /\ Child = heap[Top.copy].kids[Top.at]
           /\ Child \in 1 .. Len(heap) /\ ~Clone(stack, Child)
<1>1. PICK m : m = Top
  OBVIOUS
<1>2. /\ m \in Frames(Len(heap)) /\ m.copy \in 1 .. Len(heap)
      /\ Private(heap, visited, stack) /\ HeapOK(heap)
  BY <1>1, TopFits DEF TInv, Private
<1>3. m.at \in 1 .. Len(heap[m.copy].kids) /\ Child = heap[m.copy].kids[m.at]
  <2>1. m.at \in Nat \ {0}
    BY <1>2 DEF Frames
  <2>2. Len(heap[m.copy].kids) \in Nat
    BY <1>2, NodeFacts
  <2>. QED
    BY <1>1, <2>1, <2>2 DEF More, Child, Kids
<1>4. Child \in 1 .. Len(heap)
  BY <1>2, <1>3, NodeFacts
<1>5. ~Clone(stack, Child)
  BY <1>2, <1>3, NoClones
<1>. QED
  BY <1>1, <1>3, <1>4, <1>5

\* The settings of a visitor.
LEMMA SettingsFacts ==
    ASSUME TInv
    PROVE  self.visitDagOnce \in BOOLEAN /\ self.forward \in BOOLEAN
BY GraphAssumption DEF TInv

\* What forwarded children are.
LEMMA ForwardedKids ==
    ASSUME NEW h, NEW v, NEW s, Private(h, v, s), NEW m \in 1 .. Len(h), NEW k, k = Len(h)
    PROVE  /\ [h[m] EXCEPT !.kids = Forwarded(v, @)] \in Nodes(k)
           /\ \A i \in 1 .. Len(s) : ~Names([h[m] EXCEPT !.kids = Forwarded(v, @)].kids, s[i].copy)
<1>1. PICK K : K = h[m].kids
  OBVIOUS
<1>2. PICK F : F = Forwarded(v, K)
  OBVIOUS
<1>3. /\ h[m] \in Nodes(k) /\ K \in Seq(1 .. k) /\ Len(K) \in Nat /\ DOMAIN K = 1 .. Len(K)
      /\ \A i \in 1 .. Len(K) : K[i] \in 1 .. k
  BY <1>1, NodeFacts DEF Private
<1>4. ASSUME NEW i \in 1 .. Len(K)
      PROVE  F[i] \in 1 .. k /\ ~Clone(s, F[i])
  <2>1. F[i] = IF self.forward /\ FinalResult(v, K[i]) # Null THEN FinalResult(v, K[i]) ELSE K[i]
    BY <1>2, <1>3 DEF Forwarded
  <2>2. CASE F[i] = K[i]
    BY <1>1, <1>3, <2>2, NoClones
  <2>3. CASE F[i] # K[i]
    <3>1. F[i] = FinalResult(v, K[i]) /\ F[i] # Null
      BY <2>1, <2>3
    <3>2. K[i] \in DOMAIN v /\ F[i] = v[K[i]].result
      BY <3>1 DEF FinalResult, Done, Known
    <3>3. F[i] \in 0 .. k /\ ~Clone(s, F[i])
      BY <3>2, NoClones
    <3>4. k \in Nat
      BY NodeFacts DEF Private
    <3>. QED
      BY <3>1, <3>3, <3>4 DEF Null
  <2>. QED
    BY <2>2, <2>3
<1>5. F \in Seq(1 .. k) /\ Len(F) = Len(K)
  <2>1. F \in [1 .. Len(K) -> 1 .. k]
    BY <1>2, <1>3, <1>4 DEF Forwarded
  <2>2. F \in Seq(1 .. k)
    BY <1>3, <2>1, SeqDef
  <2>3. DOMAIN F = 1 .. Len(K)
    BY <2>1
  <2>4. Len(F) \in Nat /\ DOMAIN F = 1 .. Len(F)
    BY <2>2, LenProperties
  <2>. QED
    BY <1>3, <2>2, <2>3, <2>4
<1>6. PICK x : x = [h[m] EXCEPT !.kids = F]
  OBVIOUS
<1>7. x \in Nodes(k) /\ x.kids = F
  BY <1>3, <1>5, <1>6 DEF Nodes
<1>8. \A i \in 1 .. Len(s) : ~Names(x.kids, s[i].copy)
  BY <1>4, <1>5, <1>7 DEF Names, Clone
<1>9. x = [h[m] EXCEPT !.kids = Forwarded(v, @)]
  BY <1>1, <1>2, <1>6
<1>. QED
  BY <1>7, <1>8, <1>9

\* VisitNew.
LEMMA NewMoves ==
    ASSUME TInv, VisitNew
    PROVE  Moved
<1>1. status = "run" /\ More /\ Enter(Child) /\ UNCHANGED <<status, out, last, pruned>>
  BY DEF VisitNew
<1>2. PICK n : n = Child
  OBVIOUS
<1>3. PICK m : m = Top
  OBVIOUS
<1>4. PICK k : k = Len(heap)
  OBVIOUS
<1>5. PICK v : v = Started(visited, n, self.visitDagOnce)
  OBVIOUS
<1>6. /\ stack # << >> /\ m = stack[Len(stack)] /\ m.copy \in 1 .. k /\ k \in Nat
      /\ Private(heap, visited, stack)
      /\ m.at \in 1 .. Len(heap[m.copy].kids) /\ n = heap[m.copy].kids[m.at]
      /\ n \in 1 .. k /\ ~Clone(stack, n)
  BY <1>1, <1>2, <1>3, <1>4, TopFits, ChildFacts DEF TInv
<1>7. Private(heap, v, stack) /\ n \in DOMAIN v
  <2>1. PICK o : o = self.visitDagOnce
    OBVIOUS
  <2>2. o \in BOOLEAN
    BY <2>1, SettingsFacts
  <2>. QED
    BY <1>4, <1>5, <1>6, <2>1, <2>2, StartedPrivate
<1>8. PICK x : x = [heap[n] EXCEPT !.kids = Forwarded(v, @)]
  OBVIOUS
<1>9. PICK g : g = Append(heap, x)
  OBVIOUS
<1>10. PICK f : f = Activation(n, k + 1)
  OBVIOUS
<1>11. visited' = v /\ heap' = g /\ stack' = Append(stack, f) /\ pruneFlag' = FALSE
  <2>1. visited' = v
    BY <1>1, <1>2, <1>5 DEF Enter
  <2>. QED
    BY <1>1, <1>2, <1>4, <1>8, <1>9, <1>10, <2>1 DEF Enter
<1>12. x \in Nodes(k) /\ \A i \in 1 .. Len(stack) : ~Names(x.kids, stack[i].copy)
  BY <1>4, <1>6, <1>7, <1>8, ForwardedKids
<1>20. /\ g \in Seq(Nodes(k)) /\ Len(g) = k + 1 /\ g[k + 1] = x
       /\ \A i \in 1 .. k : g[i] = heap[i]
  BY <1>4, <1>6, <1>9, <1>12, NodeAppended DEF Private
<1>21. /\ Private(g, v, stack)
       /\ Unlinked(g, k + 1) /\ Unlisted(v, k + 1)
       /\ ~Clone(stack, k + 1) /\ k + 1 \in 1 .. Len(g)
  <2>1. Private(heap, v, stack) /\ k = Len(heap) /\ x \in Nodes(k)
    BY <1>4, <1>7, <1>12
  <2>2. \A i \in 1 .. Len(stack) : ~Names(x.kids, stack[i].copy)
    BY <1>12
  <2>. QED
    BY <1>20, <2>1, <2>2, NodeAdded
<1>13. /\ Private(g, v, stack) /\ Len(g) = k + 1
       /\ \A i \in 1 .. k : g[i] = heap[i]
       /\ Unlinked(g, k + 1) /\ Unlisted(v, k + 1)
       /\ ~Clone(stack, k + 1) /\ k + 1 \in 1 .. Len(g)
  BY <1>20, <1>21
<1>14. Fits(g, v, f) /\ f.copy = k + 1 /\ f.node = n
  <2>1. /\ f.node = n /\ f.copy = k + 1 /\ f.pre = k + 1 /\ ~f.extra
        /\ f \in Frames(k + 1)
    <3>1. pruneFlag \in BOOLEAN /\ n \in 1 .. k + 1 /\ k + 1 \in 1 .. k + 1
      BY <1>6 DEF TInv
    <3>2. /\ f.node = n /\ f.copy = k + 1 /\ f.pre = k + 1 /\ ~f.extra
          /\ f = [node |-> n, copy |-> k + 1, pre |-> k + 1, extra |-> FALSE,
                  saved |-> pruneFlag, skips |-> FALSE, at |-> 1, step |-> "pre"]
      BY <1>10 DEF Activation
    <3>3. f \in Frames(k + 1)
      BY <3>1, <3>2 DEF Frames
    <3>. QED
      BY <3>2, <3>3
  <2>. QED
    BY <1>7, <1>13, <2>1 DEF Fits
<1>15. Waits(g, stack[Len(stack)], f.node)
  BY <1>6, <1>13, <1>14 DEF Waits
<1>16. Private(g, v, Append(stack, f))
  BY <1>13, <1>14, <1>15, PushedPrivate
<1>17. stack' # << >>
  BY <1>6, <1>11, AppendFacts DEF Private
<1>18. /\ out' \in 0 .. Len(heap') /\ DOMAIN last' \subseteq 1 .. Len(heap')
       /\ pruned' \subseteq 0 .. Len(heap') /\ Len(heap) <= Len(heap')
  BY <1>1, <1>4, <1>6, <1>11, <1>13 DEF TInv
<1>19. Private(heap', visited', stack')
  BY <1>11, <1>16
<1>. QED
  BY <1>1, <1>11, <1>17, <1>18, <1>19 DEF Moved

\* VisitDone.
LEMMA DoneMoves ==
    ASSUME TInv, VisitDone
    PROVE  Moved
<1>1. status = "run" /\ More /\ Done(visited, Child)
  BY DEF VisitDone
<1>2. PICK n : n = Child
  OBVIOUS
<1>3. PICK m : m = Top
  OBVIOUS
<1>4. PICK r : r = visited[n].result
  OBVIOUS
<1>5. /\ stack # << >> /\ m = stack[Len(stack)]
      /\ Private(heap, visited, stack)
      /\ m.at \in 1 .. Len(heap[m.copy].kids) /\ Len(heap) \in Nat
  BY <1>1, <1>3, TopFits, ChildFacts DEF TInv
<1>6. r \in 0 .. Len(heap) /\ ~Clone(stack, r)
  BY <1>1, <1>2, <1>4, <1>5, NoClones DEF Done, Known
<1>7. PICK g, a : g = PutBack(heap, m, r) /\ a = Advanced(m, r)
  OBVIOUS
<1>8. Private(g, visited, Append(Front(stack), a)) /\ Len(g) = Len(heap)
  BY <1>5, <1>6, <1>7, PutBackPrivate
<1>9. /\ heap' = g /\ stack' = Append(Front(stack), a) /\ visited' = visited
      /\ pruneFlag' = pruneFlag /\ UNCHANGED <<status, out, last, pruned>>
  BY <1>2, <1>3, <1>4, <1>7 DEF VisitDone, ResultOf
<1>10. pruneFlag' \in BOOLEAN /\ Len(heap) <= Len(g)
  BY <1>5, <1>8, <1>9 DEF TInv
<1>. QED
  BY <1>1, <1>8, <1>9, <1>10, TopMoves

\* VisitBusy and prune(): only the activation changes.
LEMMA SameMoves ==
    ASSUME TInv, VisitBusy \/ Prune
    PROVE  Moved
<1>1. PICK m : m = Top
  OBVIOUS
<1>2. PICK a, b : a = [m EXCEPT !.at = m.at + 1] /\ b = [m EXCEPT !.skips = TRUE]
  OBVIOUS
<1>3. /\ status = "run" /\ heap' = heap /\ visited' = visited /\ pruneFlag' \in BOOLEAN
      /\ UNCHANGED <<status, out, last, pruned>>
      /\ \/ stack' = Append(Front(stack), a)
         \/ stack' = Append(Front(stack), b)
  <2>1. CASE VisitBusy
    <3>1. AfterLoop(m) = a
      BY <1>2 DEF AfterLoop
    <3>2. stack' = Append(Front(stack), AfterLoop(Top)) /\ pruneFlag' = pruneFlag
      BY <2>1 DEF VisitBusy
    <3>. QED
      BY <1>1, <2>1, <3>1, <3>2 DEF VisitBusy, TInv
  <2>2. CASE Prune
    <3>1. stack' = Append(Front(stack), [Top EXCEPT !.skips = TRUE]) /\ pruneFlag' = TRUE
      BY <2>2 DEF Prune
    <3>. QED
      BY <1>1, <1>2, <2>2, <3>1 DEF Prune, In, history
  <2>. QED
    BY <2>1, <2>2
<1>4. /\ stack # << >> /\ m = stack[Len(stack)] /\ m \in Frames(Len(heap))
      /\ Fits(heap, visited, m) /\ ~Clone(Front(stack), m.copy)
      /\ Private(heap, visited, stack) /\ Len(heap) \in Nat
  BY <1>1, <1>3, TopFits DEF TInv
<1>5. ASSUME NEW g, g = a \/ g = b PROVE Private(heap, visited, Append(Front(stack), g))
  <2>1. /\ g \in Frames(Len(heap)) /\ g.node = m.node /\ g.copy = m.copy
        /\ g.extra = m.extra /\ g.pre = m.pre
    <3>1. CASE g = a
      <4>1. PICK k : k = m.at + 1
        OBVIOUS
      <4>2. k \in Nat \ {0} /\ g = [m EXCEPT !.at = k]
        BY <1>2, <1>4, <3>1, <4>1 DEF Frames
      <4>. QED
        BY <1>4, <4>2 DEF Frames
    <3>2. CASE g = b
      BY <1>2, <1>4, <3>2 DEF Frames
    <3>. QED
      BY <1>5, <3>1, <3>2
  <2>2. Fits(heap, visited, g)
    BY <1>4, <2>1 DEF Fits
  <2>3. ~Clone(Front(stack), g.copy) /\ g.node = stack[Len(stack)].node
    BY <1>4, <2>1
  <2>. QED
    BY <1>4, <2>2, <2>3, TopPrivate
<1>6. PICK g : (g = a \/ g = b) /\ stack' = Append(Front(stack), g)
  BY <1>3
<1>7. Private(heap, visited, Append(Front(stack), g))
  BY <1>5, <1>6
<1>8. Len(heap) <= Len(heap)
  BY <1>4
<1>. QED
  BY <1>3, <1>6, <1>7, <1>8, TopMoves

\* The innermost activation stays what it is.
LEMMA TopStays ==
    ASSUME TInv, status = "run", NEW h, NEW v, Private(h, v, stack)
    PROVE  Private(h, v, Append(Front(stack), Top))
<1>1. PICK m : m = Top
  OBVIOUS
<1>2. stack # << >> /\ Len(stack) \in Nat \ {0} /\ m = stack[Len(stack)]
      /\ ~Clone(Front(stack), m.copy)
  BY <1>1, TopFits
<1>3. Fits(h, v, m) /\ m.node = stack[Len(stack)].node
  BY <1>2 DEF Private
<1>4. Private(h, v, Append(Front(stack), m))
  BY <1>2, <1>3, TopPrivate
<1>. QED
  BY <1>1, <1>4

\* The fields of the innermost clone are changed.
LEMMA Relabels ==
    ASSUME TInv, status = "run", NEW l \in Label, NEW h, h = Relabelled(heap, Top.copy, l)
    PROVE  Private(h, visited, stack) /\ Len(h) = Len(heap)
<1>1. PICK c : c = Top.copy
  OBVIOUS
<1>2. PICK k : k = Len(heap)
  OBVIOUS
<1>3. /\ stack # << >> /\ c = stack[Len(stack)].copy /\ c \in 1 .. k
      /\ heap[c] \in Nodes(k) /\ Private(heap, visited, stack) /\ heap \in Seq(Nodes(k))
  BY <1>1, <1>2, TopFits DEF TInv, Private, HeapOK
<1>4. PICK x : x = [heap[c] EXCEPT !.label = l]
  OBVIOUS
<1>5. x \in Nodes(k) /\ x.kids = heap[c].kids
  BY <1>3, <1>4 DEF Nodes
<1>6. h = [heap EXCEPT ![c] = x]
  BY <1>1, <1>3, <1>4 DEF Relabelled
<1>7. /\ h \in Seq(Nodes(k)) /\ Len(h) = k
      /\ \A m \in 1 .. k : h[m] = IF m = c THEN x ELSE heap[m]
  BY <1>2, <1>3, <1>5, <1>6, ExceptSeq
<1>8. \A i \in 1 .. Len(stack) : ~Names(x.kids, stack[i].copy)
  BY <1>2, <1>3, <1>5 DEF Private, Fits, Unlinked
<1>9. Private(h, visited, stack)
  BY <1>2, <1>3, <1>5, <1>7, <1>8, CloneChanged
<1>. QED
  BY <1>2, <1>7, <1>9

\* The visitor makes a node, with the children of the clone.
LEMMA MakesNew ==
    ASSUME TInv, status = "run", NEW l \in Label,
           NEW h, h = Append(heap, [heap[Top.copy] EXCEPT !.label = l])
    PROVE  /\ Private(h, visited, stack) /\ Len(heap) <= Len(h)
           /\ Len(heap) + 1 \in 1 .. Len(h) /\ ~Clone(stack, Len(heap) + 1)
<1>1. PICK c : c = Top.copy
  OBVIOUS
<1>2. PICK k : k = Len(heap)
  OBVIOUS
<1>3. /\ c \in 1 .. k /\ heap[c] \in Nodes(k) /\ k \in Nat
      /\ Private(heap, visited, stack) /\ HeapOK(heap)
  BY <1>1, <1>2, TopFits DEF TInv, Private
<1>4. PICK x : x = [heap[c] EXCEPT !.label = l]
  OBVIOUS
<1>5. x \in Nodes(k) /\ x.kids = heap[c].kids
  BY <1>3, <1>4 DEF Nodes
<1>6. h = Append(heap, x)
  BY <1>1, <1>4
<1>7. /\ h \in Seq(Nodes(k)) /\ Len(h) = k + 1 /\ h[k + 1] = x
      /\ \A m \in 1 .. k : h[m] = heap[m]
  BY <1>2, <1>3, <1>5, <1>6, NodeAppended
<1>8. \A i \in 1 .. Len(stack) : ~Names(x.kids, stack[i].copy)
  BY <1>2, <1>3, <1>5 DEF Private, Fits, Unlinked
<1>9. Private(h, visited, stack) /\ ~Clone(stack, k + 1) /\ k + 1 \in 1 .. Len(h)
  BY <1>2, <1>3, <1>5, <1>7, <1>8, NodeAdded
<1>. QED
  BY <1>2, <1>3, <1>7, <1>9

\* The tracker as preorder leaves it.
LEMMA PreorderTracker ==
    ASSUME TInv, status = "run", NEW h, Private(h, visited, stack)
    PROVE  Private(h, MarkedAgain(visited, Top.node), stack)
<1>1. PICK n : n = Top.node
  OBVIOUS
<1>2. n \in DOMAIN visited
  BY <1>1, TopFits
<1>3. Private(h, MarkedAgain(visited, n), stack)
  BY <1>2, MarkedAgainPrivate
<1>. QED
  BY <1>1, <1>3

\* A visit ends with something that is no clone, or with its own.
LEMMA EndMoves ==
    ASSUME TInv, status = "run", NEW h, NEW v, Private(h, v, stack), Len(heap) <= Len(h),
           NEW final, final \in 0 .. Len(h), final = Top.copy \/ ~Clone(stack, final),
           Return(Top, h, v, final)
    PROVE  Moved
<1>1. PICK m : m = Top
  OBVIOUS
<1>2. PICK t : t = Append(Front(stack), m)
  OBVIOUS
<1>3. Private(h, v, t)
  BY <1>1, <1>2, TopStays
<1>4. final = m.copy \/ ~Clone(t, final)
  <2>1. ASSUME ~Clone(stack, final) PROVE ~Clone(t, final)
    <3>1. /\ stack # << >> /\ IsSeq(stack) /\ m = stack[Len(stack)]
      BY <1>1, TopFits DEF TInv, Private
    <3>2. /\ IsSeq(Front(stack)) /\ Len(stack) \in Nat \ {0} /\ Len(Front(stack)) = Len(stack) - 1
          /\ \A i \in 1 .. Len(stack) - 1 : Front(stack)[i] = stack[i]
      BY <3>1, FrontFacts
    <3>3. /\ Len(t) = Len(stack) /\ t[Len(stack)] = m
          /\ \A i \in 1 .. Len(stack) - 1 : t[i] = stack[i]
      <4>1. PICK b : b = Front(stack)
        OBVIOUS
      <4>2. /\ Len(t) = Len(b) + 1 /\ \A i \in 1 .. Len(b) : t[i] = b[i]
            /\ t[Len(b) + 1] = m
        BY <1>2, <3>2, <4>1, AppendFacts
      <4>. QED
        BY <3>2, <4>1, <4>2
    <3>4. \A i \in 1 .. Len(t) : t[i] = stack[i] /\ i \in 1 .. Len(stack)
      BY <3>1, <3>2, <3>3
    <3>. QED
      BY <2>1, <3>4 DEF Clone
  <2>. QED
    BY <1>1, <2>1
<1>5. Return(m, h, v, final)
  BY <1>1
<1>. QED
  BY <1>2, <1>3, <1>4, <1>5, ReturnMoves

\* postorder.
LEMMA PostorderMoves ==
    ASSUME TInv, Postorder
    PROVE  Moved
<1>1. status = "run"
  BY DEF Postorder, PostorderKeeps, PostorderRemoves, PostorderReturnsChild, PostorderReturnsNew,
         AtPostorder, In
<1>2. /\ Private(heap, visited, stack) /\ Len(heap) \in Nat /\ Len(heap) <= Len(heap)
      /\ Top.copy \in 1 .. Len(heap) /\ Top.copy \in 0 .. Len(heap)
  BY <1>1, TopFits DEF TInv
<1>3. CASE PostorderKeeps
  <2>1. PICK l \in Label : Return(Top, Relabelled(heap, Top.copy, l), visited, Top.copy)
    BY <1>3 DEF PostorderKeeps
  <2>2. PICK h : h = Relabelled(heap, Top.copy, l)
    OBVIOUS
  <2>3. Private(h, visited, stack) /\ Len(h) = Len(heap)
    BY <1>1, <2>2, Relabels
  <2>4. PICK c : c = Top.copy
    OBVIOUS
  <2>5. Return(Top, h, visited, c) /\ c \in 0 .. Len(h) /\ c = Top.copy
    BY <1>2, <2>1, <2>2, <2>3, <2>4
  <2>. QED
    BY <1>1, <1>2, <2>3, <2>5, EndMoves
<1>4. CASE PostorderRemoves
  <2>1. PICK z : z = Null
    OBVIOUS
  <2>2. Return(Top, heap, visited, z) /\ z \in 0 .. Len(heap) /\ ~Clone(stack, z)
    BY <1>2, <1>4, <2>1, NoClones DEF PostorderRemoves, Null
  <2>. QED
    BY <1>1, <1>2, <2>2, EndMoves
<1>5. CASE PostorderReturnsChild
  <2>1. PICK i \in DOMAIN Kids(heap, Top) : Return(Top, heap, visited, Kids(heap, Top)[i])
    BY <1>5 DEF PostorderReturnsChild
  <2>2. PICK z : z = Kids(heap, Top)[i]
    OBVIOUS
  <2>3. z \in 0 .. Len(heap) /\ ~Clone(stack, z)
    <3>1. i \in 1 .. Len(heap[Top.copy].kids)
      BY <1>2, NodeFacts DEF Kids, Private
    <3>2. heap[Top.copy].kids[i] \in 1 .. Len(heap)
      BY <1>2, <3>1, NodeFacts DEF Private
    <3>3. ~Clone(stack, heap[Top.copy].kids[i])
      BY <1>2, <3>1, NoClones
    <3>. QED
      BY <1>2, <2>2, <3>2, <3>3 DEF Kids
  <2>4. Return(Top, heap, visited, z)
    BY <2>1, <2>2
  <2>. QED
    BY <1>1, <1>2, <2>3, <2>4, EndMoves
<1>6. CASE PostorderReturnsNew
  <2>1. PICK l \in Label :
          Return(Top, Append(heap, [heap[Top.copy] EXCEPT !.label = l]), visited, Len(heap) + 1)
    BY <1>6 DEF PostorderReturnsNew
  <2>2. PICK h : h = Append(heap, [heap[Top.copy] EXCEPT !.label = l])
    OBVIOUS
  <2>3. /\ Private(h, visited, stack) /\ Len(heap) <= Len(h)
        /\ Len(heap) + 1 \in 1 .. Len(h) /\ ~Clone(stack, Len(heap) + 1)
    BY <1>1, <2>2, MakesNew
  <2>4. PICK z : z = Len(heap) + 1
    OBVIOUS
  <2>5. Return(Top, h, visited, z) /\ z \in 0 .. Len(h) /\ ~Clone(stack, z)
    <3>1. Len(h) \in Nat
      BY <2>3, NodeFacts DEF Private
    <3>. QED
      BY <2>1, <2>2, <2>3, <2>4, <3>1
  <2>. QED
    BY <1>1, <2>3, <2>5, EndMoves
<1>. QED
  BY <1>3, <1>4, <1>5, <1>6 DEF Postorder

\* preorder kept the clone.
LEMMA KeepsMoves ==
    ASSUME TInv, status = "run", NEW h, Private(h, visited, stack), Len(heap) <= Len(h),
           Descend(Top, h, MarkedAgain(visited, Top.node))
    PROVE  Moved
<1>1. PICK v : v = MarkedAgain(visited, Top.node)
  OBVIOUS
<1>2. Private(h, v, stack)
  BY <1>1, PreorderTracker
<1>3. PICK m : m = Top
  OBVIOUS
<1>4. PICK t : t = Append(Front(stack), m)
  OBVIOUS
<1>5. Private(h, v, t)
  BY <1>2, <1>3, <1>4, TopStays
<1>6. Descend(m, h, v)
  BY <1>1, <1>3
<1>. QED
  BY <1>4, <1>5, <1>6, DescendMoves

\* preorder returned another node p: a second clone is made, in a heap g.
Second(h, v, p, k, g, w, f) ==
    /\ g = Append(h, h[p]) /\ w = Started(v, p, v[Top.node].once)
    /\ f = [Top EXCEPT !.pre = p, !.copy = k + 1, !.extra = TRUE]
    /\ Private(g, w, Append(Front(stack), f))
    /\ k \in Nat /\ h[p] \in Nodes(k)
    /\ Len(g) = k + 1 /\ g[k + 1] = h[p] /\ \A i \in 1 .. k : g[i] = h[i]
    /\ f.node = Top.node /\ f.pre = p /\ f.copy = k + 1

LEMMA SecondClone ==
    ASSUME TInv, status = "run", NEW h, NEW v, Private(h, v, stack),
           NEW p, p \in 1 .. Len(h), ~Clone(stack, p), NEW k, k = Len(h)
    PROVE  \E g, w, f : Second(h, v, p, k, g, w, f)
<1>1. PICK m : m = Top
  OBVIOUS
<1>14. PICK g, w, f : /\ g = Append(h, h[p]) /\ w = Started(v, p, v[Top.node].once)
                      /\ f = [Top EXCEPT !.pre = p, !.copy = k + 1, !.extra = TRUE]
  OBVIOUS
<1>2. /\ k \in Nat /\ HeapOK(h) /\ stack # << >>
      /\ m = stack[Len(stack)] /\ Len(stack) \in Nat \ {0} /\ Fits(h, v, m)
  <2>1. /\ stack # << >> /\ m = stack[Len(stack)] /\ Len(stack) \in Nat \ {0}
    BY <1>1, TopFits
  <2>2. k \in Nat /\ HeapOK(h)
    BY NodeFacts DEF Private
  <2>3. Fits(h, v, stack[Len(stack)])
    BY <2>1 DEF Private
  <2>. QED
    BY <2>1, <2>2, <2>3
<1>3. PICK o : o = v[m.node].once
  OBVIOUS
<1>4. Private(h, w, stack) /\ p \in DOMAIN w
  <2>1. o \in BOOLEAN
    <3>1. m.node \in DOMAIN v
      BY <1>2 DEF Fits
    <3>. QED
      BY <1>3, <3>1, NoClones
  <2>2. PICK u : u = Started(v, p, o)
    OBVIOUS
  <2>3. Private(h, u, stack) /\ p \in DOMAIN u
    BY <2>1, <2>2, StartedPrivate
  <2>. QED
    BY <1>1, <1>3, <1>14, <2>2, <2>3
<1>5. PICK x : x = h[p]
  OBVIOUS
<1>6. x \in Nodes(k) /\ \A i \in 1 .. Len(stack) : ~Names(x.kids, stack[i].copy)
  <2>1. x \in Nodes(k)
    BY <1>2, <1>5, NodeFacts
  <2>2. \A i \in 1 .. Len(stack) : Unlinked(h, stack[i].copy)
    BY DEF Private, Fits
  <2>. QED
    BY <1>5, <2>1, <2>2 DEF Unlinked
<1>7. /\ g \in Seq(Nodes(k)) /\ Len(g) = k + 1 /\ g[k + 1] = x
      /\ \A i \in 1 .. k : g[i] = h[i]
  <2>1. /\ Append(h, x) \in Seq(Nodes(k))
        /\ Len(Append(h, x)) = k + 1 /\ Append(h, x)[k + 1] = x
        /\ \A i \in 1 .. k : Append(h, x)[i] = h[i]
    BY <1>2, <1>6, NodeAppended
  <2>. QED
    BY <1>5, <1>14, <2>1
<1>8. /\ Private(g, w, stack)
      /\ Unlinked(g, k + 1) /\ Unlisted(w, k + 1)
      /\ ~Clone(stack, k + 1) /\ k + 1 \in 1 .. Len(g)
  BY <1>4, <1>6, <1>7, NodeAdded
<1>9. /\ f \in Frames(k + 1) /\ f.node = m.node /\ f.pre = p /\ f.copy = k + 1
      /\ f.extra = TRUE
  <2>1. m \in Frames(k + 1)
    <3>1. Fits(g, w, m)
      BY <1>2, <1>8 DEF Private
    <3>. QED
      BY <1>7, <3>1 DEF Fits
  <2>2. p \in 1 .. k + 1 /\ k + 1 \in 1 .. k + 1
    BY <1>2
  <2>3. PICK c : c = k + 1
    OBVIOUS
  <2>4. PICK f1, f2 : f1 = [m EXCEPT !.pre = p] /\ f2 = [f1 EXCEPT !.copy = c]
    OBVIOUS
  <2>5. f1 \in Frames(k + 1) /\ f1.node = m.node /\ f1.pre = p
    BY <2>1, <2>2, <2>4 DEF Frames
  <2>6. f2 \in Frames(k + 1) /\ f2.node = m.node /\ f2.pre = p /\ f2.copy = c
    BY <2>2, <2>3, <2>4, <2>5 DEF Frames
  <2>7. f = [f2 EXCEPT !.extra = TRUE]
    BY <1>1, <1>14, <2>1, <2>3, <2>4 DEF Frames
  <2>. QED
    BY <2>3, <2>6, <2>7 DEF Frames
<1>10. Fits(g, w, f)
  <2>1. f \in Frames(Len(g)) /\ Unlinked(g, f.copy) /\ Unlisted(w, f.copy)
    BY <1>7, <1>8, <1>9
  <2>2. f.node \in DOMAIN w /\ f.pre \in DOMAIN w
    <3>1. Fits(h, w, stack[Len(stack)])
      BY <1>2, <1>4 DEF Private
    <3>2. m.node \in DOMAIN w
      BY <1>2, <3>1 DEF Fits
    <3>. QED
      BY <1>4, <1>9, <3>2
  <2>. QED
    BY <1>9, <2>1, <2>2 DEF Fits
<1>11. ~Clone(Front(stack), f.copy)
  <2>1. /\ Len(Front(stack)) = Len(stack) - 1
        /\ \A i \in 1 .. Len(stack) - 1 : Front(stack)[i] = stack[i]
    BY <1>2, <1>8, FrontFacts DEF Private
  <2>2. \A i \in 1 .. Len(Front(stack)) : i \in 1 .. Len(stack) /\ Front(stack)[i] = stack[i]
    BY <1>2, <2>1
  <2>. QED
    BY <1>8, <1>9, <2>2 DEF Clone
<1>12. f.node = stack[Len(stack)].node
  BY <1>2, <1>9
<1>13. Private(g, w, Append(Front(stack), f))
  BY <1>2, <1>8, <1>10, <1>11, <1>12, TopPrivate
<1>15. /\ Len(g) = k + 1 /\ g[k + 1] = h[p] /\ h[p] \in Nodes(k) /\ k \in Nat
       /\ \A i \in 1 .. k : g[i] = h[i]
       /\ f.node = Top.node /\ f.pre = p /\ f.copy = k + 1
  BY <1>1, <1>2, <1>5, <1>6, <1>7, <1>9
<1>16. Second(h, v, p, k, g, w, f)
  BY <1>13, <1>14, <1>15 DEF Second
<1>. QED
  BY <1>16

LEMMA ReplacedMoves ==
    ASSUME TInv, IInv, In("pre"), NEW h, Private(h, visited, stack), Len(heap) <= Len(h),
           NEW p, p \in 1 .. Len(h), ~Clone(stack, p), ReplacedBy(p, h)
    PROVE  Moved
<1>1. status = "run"
  BY DEF In
<1>2. PICK v : v = MarkedAgain(visited, Top.node)
  OBVIOUS
<1>3. Private(h, v, stack)
  BY <1>1, <1>2, PreorderTracker
<1>4. CASE Done(v, p) /\ Return(Top, h, v, v[p].result)
  <2>1. PICK z : z = v[p].result
    OBVIOUS
  <2>2. z \in 0 .. Len(h) /\ ~Clone(stack, z)
    BY <1>3, <1>4, <2>1, NoClones DEF Done, Known
  <2>3. Return(Top, h, v, z)
    BY <1>4, <2>1
  <2>. QED
    BY <1>1, <1>3, <2>2, <2>3, EndMoves
<1>5. CASE status' = "bug" /\ UNCHANGED <<heap, visited, stack, pruneFlag, out, last, pruned>>
  <2>1. Len(heap) \in Nat /\ stack # << >>
    BY <1>1, TopFits
  <2>2. Private(heap', visited', stack') /\ Len(heap) <= Len(heap') /\ stack' # << >>
    BY <1>5, <2>1 DEF TInv
  <2>3. /\ pruneFlag' \in BOOLEAN
        /\ out' \in 0 .. Len(heap')
        /\ DOMAIN last' \subseteq 1 .. Len(heap')
        /\ pruned' \subseteq 0 .. Len(heap')
    BY <1>5 DEF TInv
  <2>. QED
    BY <1>5, <2>2, <2>3 DEF Moved
<1>6. CASE Descend([Top EXCEPT !.pre = p, !.copy = Len(h) + 1, !.extra = TRUE],
                   Append(h, h[p]), Started(v, p, v[Top.node].once))
  <2>1. PICK k : k = Len(h)
    OBVIOUS
  <2>2. PICK g, w, f : Second(h, v, p, k, g, w, f)
    BY <1>1, <1>3, <2>1, SecondClone
  <2>3. Private(g, w, Append(Front(stack), f)) /\ k \in Nat /\ Len(g) = k + 1
    BY <2>2 DEF Second
  <2>4. Descend(f, g, w)
    BY <1>6, <2>1, <2>2 DEF Second
  <2>5. Len(heap) <= Len(g)
    <3>1. Len(heap) \in Nat
      BY <1>1, TopFits
    <3>. QED
      BY <2>1, <2>3, <3>1
  <2>6. PICK t : t = Append(Front(stack), f)
    OBVIOUS
  <2>. QED
    BY <1>1, <2>3, <2>4, <2>5, <2>6, DescendMoves
<1>. QED
  BY <1>2, <1>4, <1>5, <1>6 DEF ReplacedBy

\* preorder.
LEMMA PreorderMoves ==
    ASSUME TInv, IInv, Preorder
    PROVE  Moved
<1>1. CASE Prune
  BY <1>1, SameMoves
<1>2. CASE PreorderKeeps
  <2>1. PICK l \in Label :
          Descend(Top, Relabelled(heap, Top.copy, l), MarkedAgain(visited, Top.node))
    BY <1>2 DEF PreorderKeeps
  <2>2. PICK h : h = Relabelled(heap, Top.copy, l)
    OBVIOUS
  <2>3. status = "run" /\ Descend(Top, h, MarkedAgain(visited, Top.node))
    BY <1>2, <2>1, <2>2 DEF PreorderKeeps, In
  <2>4. Private(h, visited, stack) /\ Len(h) = Len(heap) /\ Len(heap) \in Nat
    BY <2>2, <2>3, Relabels, TopFits
  <2>5. Len(heap) <= Len(h)
    BY <2>4
  <2>. QED
    BY <2>3, <2>4, <2>5, KeepsMoves
<1>3. CASE PreorderRemoves
  <2>1. PICK z, v : z = Null /\ v = MarkedAgain(visited, Top.node)
    OBVIOUS
  <2>2. status = "run" /\ Return(Top, heap, v, z)
    BY <1>3, <2>1 DEF PreorderRemoves, In
  <2>3. Private(heap, visited, stack) /\ Len(heap) \in Nat /\ Len(heap) <= Len(heap)
    BY <2>2, TopFits DEF TInv
  <2>4. z \in 0 .. Len(heap) /\ ~Clone(stack, z) /\ Private(heap, v, stack)
    BY <2>1, <2>2, <2>3, NoClones, PreorderTracker DEF Null
  <2>. QED
    BY <2>2, <2>3, <2>4, EndMoves
<1>4. CASE PreorderReturnsChild
  <2>1. PICK i \in DOMAIN Kids(heap, Top) : ReplacedBy(Kids(heap, Top)[i], heap)
    BY <1>4 DEF PreorderReturnsChild
  <2>2. PICK p : p = Kids(heap, Top)[i]
    OBVIOUS
  <2>3. In("pre") /\ status = "run" /\ ReplacedBy(p, heap)
    BY <1>4, <2>1, <2>2 DEF PreorderReturnsChild, In
  <2>4. /\ Private(heap, visited, stack) /\ Len(heap) \in Nat /\ Len(heap) <= Len(heap)
        /\ Top.copy \in 1 .. Len(heap)
    BY <2>3, TopFits DEF TInv
  <2>5. p \in 1 .. Len(heap) /\ ~Clone(stack, p)
    <3>1. i \in 1 .. Len(heap[Top.copy].kids)
      BY <2>4, NodeFacts DEF Kids, Private
    <3>2. heap[Top.copy].kids[i] \in 1 .. Len(heap)
      BY <2>4, <3>1, NodeFacts DEF Private
    <3>3. ~Clone(stack, heap[Top.copy].kids[i])
      BY <2>4, <3>1, NoClones
    <3>. QED
      BY <2>2, <3>2, <3>3 DEF Kids
  <2>. QED
    BY <2>3, <2>4, <2>5, ReplacedMoves
<1>5. CASE PreorderReturnsNew
  <2>1. PICK l \in Label :
          ReplacedBy(Len(heap) + 1, Append(heap, [heap[Top.copy] EXCEPT !.label = l]))
    BY <1>5 DEF PreorderReturnsNew
  <2>2. PICK h : h = Append(heap, [heap[Top.copy] EXCEPT !.label = l])
    OBVIOUS
  <2>3. PICK p : p = Len(heap) + 1
    OBVIOUS
  <2>4. In("pre") /\ status = "run" /\ ReplacedBy(p, h)
    BY <1>5, <2>1, <2>2, <2>3 DEF PreorderReturnsNew, In
  <2>5. /\ Private(h, visited, stack) /\ Len(heap) <= Len(h)
        /\ Len(heap) + 1 \in 1 .. Len(h) /\ ~Clone(stack, Len(heap) + 1)
    BY <2>2, <2>4, MakesNew
  <2>6. p \in 1 .. Len(h) /\ ~Clone(stack, p)
    BY <2>3, <2>5
  <2>. QED
    BY <2>4, <2>5, <2>6, ReplacedMoves
<1>. QED
  BY <1>1, <1>2, <1>3, <1>4, <1>5 DEF Preorder

\* The nodes of the stack.
LEMMA StackNodes ==
    ASSUME TInv
    PROVE  OnStack \subseteq 1 .. Len(heap) /\ DOMAIN stack = 1 .. Len(stack) /\ Len(heap) \in Nat
<1>1. PICK S : stack \in Seq(S)
  BY DEF TInv, Private, IsSeq
<1>2. DOMAIN stack = 1 .. Len(stack)
  BY <1>1, LenProperties
<1>3. \A i \in 1 .. Len(stack) : stack[i].node \in 1 .. Len(heap)
  BY DEF TInv, Private, Fits, Frames
<1>4. Len(heap) \in Nat
  BY NodeFacts DEF TInv, Private
<1>. QED
  BY <1>2, <1>3, <1>4 DEF OnStack

\* The inductive step.
LEMMA TypesKept ==
    ASSUME TInv, IInv, [Next]_vars
    PROVE  TInv'
<1>1. CASE Next
  <2>1. Moved
    BY <1>1, NewMoves, DoneMoves, SameMoves, PreorderMoves, PostorderMoves DEF Next, VisitChild
  <2>2. self' = self
    BY <1>1 DEF Next, VisitChild, VisitNew, VisitDone, VisitBusy, Preorder, Prune, PreorderKeeps,
                PreorderRemoves, PreorderReturnsChild, PreorderReturnsNew, Postorder, PostorderKeeps,
                PostorderRemoves, PostorderReturnsChild, PostorderReturnsNew
  <2>3. edits' \in 0 .. MaxEdits
    <3>1. ASSUME NEW k \in {0, 1}, Edited(k) PROVE edits' \in 0 .. MaxEdits
      BY <3>1, GraphAssumption DEF Edited, TInv
    <3>2. edits' = edits \/ Edited(0) \/ Edited(1)
      BY <1>1 DEF Next, VisitChild, VisitNew, VisitDone, VisitBusy, Preorder, Prune, PreorderKeeps,
                  PreorderRemoves, PreorderReturnsChild, PreorderReturnsNew, Postorder,
                  PostorderKeeps, PostorderRemoves, PostorderReturnsChild, PostorderReturnsNew
    <3>. QED
      BY <3>1, <3>2 DEF TInv
  <2>4. looped' \subseteq 1 .. Len(heap)
    <3>1. CASE VisitBusy
      <4>1. looped' = looped \union {Child} /\ Child \in 1 .. Len(heap)
        BY <3>1, ChildFacts DEF VisitBusy
      <4>. QED
        BY <4>1 DEF TInv
    <3>2. CASE looped' = looped
      BY <3>2 DEF TInv
    <3>. QED
      BY <1>1, <3>1, <3>2
         DEF Next, VisitChild, VisitNew, VisitDone, Preorder, Prune, PreorderKeeps, history,
             PreorderRemoves, PreorderReturnsChild, PreorderReturnsNew, Postorder, PostorderKeeps,
             PostorderRemoves, PostorderReturnsChild, PostorderReturnsNew
  <2>5. dirty' \subseteq 1 .. Len(heap)
    <3>1. dirty' \subseteq dirty \union OnStack
            \/ (VisitNew /\ dirty' \subseteq dirty \union OnStack \union {Child})
      BY <1>1 DEF Next, VisitChild, VisitNew, VisitDone, VisitBusy, Preorder, Prune, PreorderKeeps,
                  PreorderRemoves, PreorderReturnsChild, PreorderReturnsNew, Postorder,
                  PostorderKeeps, PostorderRemoves, PostorderReturnsChild, PostorderReturnsNew,
                  Edited, history
    <3>2. VisitNew => Child \in 1 .. Len(heap)
      BY ChildFacts DEF VisitNew
    <3>. QED
      BY <3>1, <3>2, StackNodes DEF TInv
  <2>6. 1 .. Len(heap) \subseteq 1 .. Len(heap')
    <3>1. Len(heap) \in Nat /\ Len(heap') \in Nat
      <4>1. PICK h : h = heap'
        OBVIOUS
      <4>2. Len(h) \in Nat
        BY <2>1, <4>1, NodeFacts DEF Moved, Private
      <4>. QED
        BY <4>1, <4>2, StackNodes
    <3>. QED
      BY <2>1, <3>1 DEF Moved
  <2>7. looped' \subseteq 1 .. Len(heap') /\ dirty' \subseteq 1 .. Len(heap')
    BY <2>4, <2>5, <2>6
  <2>. QED
    BY <2>1, <2>2, <2>3, <2>7 DEF TInv, Moved
<1>2. CASE UNCHANGED vars
  BY <1>2 DEF vars, history, TInv
<1>. QED
  BY <1>1, <1>2

\* A walk begins with a clone of the root.
LEMMA InitTypes == Init => TInv
<1>1. SUFFICES ASSUME Init PROVE TInv
  OBVIOUS
<1>2. PICK x \in Visits :
        /\ self = x
        /\ heap = Append(x.ir, x.ir[1])
        /\ visited = With(<< >>, 1, Info(TRUE, x.visitDagOnce, 1))
        /\ stack = << Activation(1, Len(x.ir) + 1) >>
  BY <1>1 DEF Init
<1>3. PICK h : h = x.ir
  OBVIOUS
<1>4. PICK k : k = Len(h)
  OBVIOUS
<1>5. PICK s : s = << >>
  OBVIOUS
<1>6. HeapOK(h) /\ k \in Nat \ {0} /\ x.visitDagOnce \in BOOLEAN
  <2>1. x.ir \in Seq(Nodes(Len(x.ir))) /\ Len(x.ir) > 0 /\ x.visitDagOnce \in BOOLEAN
    BY GraphAssumption DEF Nodes
  <2>2. HeapOK(h)
    BY <1>3, <2>1 DEF HeapOK
  <2>. QED
    BY <1>3, <1>4, <2>1, <2>2, NodeFacts
<1>7. IsSeq(s) /\ Len(s) = 0 /\ \A c : ~Clone(s, c)
  <2>1. s \in Seq({})
    BY <1>5
  <2>. QED
    BY <1>5, <2>1 DEF IsSeq, Clone
<1>8. PICK e, o : o = x.visitDagOnce /\ e = Info(TRUE, o, 1)
  OBVIOUS
<1>9. /\ DOMAIN visited = {1} /\ visited[1] = e
      /\ e \in Entries(k) /\ e.result = 1
  <2>1. visited = With(<< >>, 1, e)
    BY <1>2, <1>8
  <2>2. DOMAIN visited = {1} /\ visited[1] = e
    BY <2>1 DEF With
  <2>3. 1 \in 0 .. k /\ o \in BOOLEAN
    BY <1>6, <1>8
  <2>4. e \in Entries(k) /\ e.result = 1
    BY <1>8, <2>3, InfoIsEntry
  <2>. QED
    BY <2>2, <2>4
<1>10. PICK w : w = visited
  OBVIOUS
<1>11. TrackerTyped(k, w)
  BY <1>6, <1>9, <1>10 DEF TrackerTyped
<1>12. Private(h, w, s)
  BY <1>4, <1>6, <1>7, <1>11 DEF Private
<1>13. PICK n : n = h[1]
  OBVIOUS
<1>14. n \in Nodes(k)
  BY <1>4, <1>6, <1>13, NodeFacts
<1>15. PICK g : g = Append(h, n)
  OBVIOUS
<1>16. /\ g \in Seq(Nodes(k)) /\ Len(g) = k + 1 /\ g[k + 1] = n
       /\ \A i \in 1 .. k : g[i] = h[i]
  BY <1>4, <1>6, <1>14, <1>15, NodeAppended
<1>17. /\ Private(g, w, s) /\ Unlinked(g, k + 1) /\ Unlisted(w, k + 1)
       /\ ~Clone(s, k + 1) /\ k + 1 \in 1 .. Len(g)
  <2>1. \A i \in 1 .. Len(s) : ~Names(n.kids, s[i].copy)
    BY <1>7
  <2>. QED
    BY <1>4, <1>12, <1>14, <1>16, <2>1, NodeAdded
<1>18. PICK f : f = Activation(1, k + 1)
  OBVIOUS
<1>19. Fits(g, w, f) /\ f.copy = k + 1
  <2>1. pruneFlag \in BOOLEAN
    BY <1>1 DEF Init
  <2>2. /\ f.node = 1 /\ f.copy = k + 1 /\ f.pre = k + 1 /\ ~f.extra
        /\ f \in Frames(k + 1)
    BY <1>6, <1>18, <2>1 DEF Activation, Frames
  <2>. QED
    BY <1>9, <1>10, <1>16, <1>17, <2>2 DEF Fits
<1>20. Private(g, w, Append(s, f))
  BY <1>5, <1>17, <1>19, PushedPrivate
<1>21. stack = << f >> /\ heap = g
  BY <1>2, <1>3, <1>4, <1>13, <1>15, <1>18
<1>22. Append(s, f) = stack
  BY <1>5, <1>21
<1>23. Private(heap, visited, stack)
  BY <1>10, <1>20, <1>21, <1>22
<1>24. /\ stack # << >> /\ status = "run" /\ pruneFlag \in BOOLEAN
       /\ out \in 0 .. Len(heap) /\ edits \in 0 .. MaxEdits
       /\ DOMAIN last \subseteq 1 .. Len(heap)
       /\ pruned = {} /\ looped = {} /\ dirty = {}
  <2>1. out = 0 /\ edits = 0 /\ last = << >> /\ DOMAIN last = {}
    BY <1>1 DEF Init, Null
  <2>2. MaxEdits \in Nat /\ Len(heap) \in Nat
    BY <1>6, <1>16, <1>21, GraphAssumption
  <2>3. pruned = {} /\ looped = {} /\ dirty = {} /\ status = "run"
    BY <1>1 DEF Init
  <2>4. pruneFlag \in BOOLEAN
    BY <1>1 DEF Init
  <2>5. stack # << >>
    BY <1>21
  <2>. QED
    BY <2>1, <2>2, <2>3, <2>4, <2>5
<1>. QED
  BY <1>2, <1>23, <1>24 DEF TInv

\* The invariant of the types holds in every state.
LEMMA TypesAlwaysOK == Spec => [](TInv /\ IInv)
<1>1. Init => TInv /\ IInv
  BY InitTypes, InitMarks
<1>2. (TInv /\ IInv) /\ [Next]_vars => (TInv /\ IInv)'
  BY TypesKept, StepKept
<1>. QED
  BY <1>1, <1>2, PTL DEF Spec

(***************************************************************************)
(* Type correctness, for every IR and every visitor: the tracker, the      *)
(* activations and the nodes only ever refer to nodes that exist, also     *)
(* where preorder or postorder return a node that is not in the IR, and an *)
(* activation visits children its clone has.                               *)
(***************************************************************************)
THEOREM TypeTheorem == Spec => []TypeOK
<1>1. ASSUME TInv PROVE TypeOK
  <2>1. PICK k : k = Len(heap)
    OBVIOUS
  <2>2. k \in Nat /\ Node = 1 .. k /\ Node \union {Null} = 0 .. k
    BY <1>1, <2>1, StackNodes DEF Node, Null
  <2>3. heap \in Seq([label : Label, kids : Seq(Node)])
    BY <1>1, <2>1, <2>2 DEF TInv, Private, HeapOK, Nodes
  <2>4. DOMAIN visited \subseteq Node /\ \A n \in DOMAIN visited : visited[n] \in Entry
    <3>1. Entry = Entries(k)
      BY <2>2 DEF Entry, Entries
    <3>. QED
      BY <1>1, <2>1, <2>2, <3>1 DEF TInv, Private, TrackerTyped
  <2>5. stack \in Seq(Frame)
    <3>1. Frame = Frames(k)
      BY <2>2 DEF Frame, Frames
    <3>2. PICK S : stack \in Seq(S)
      BY <1>1 DEF TInv, Private, IsSeq
    <3>3. Len(stack) \in Nat /\ stack \in [1 .. Len(stack) -> S]
      BY <3>2, LenProperties
    <3>4. \A i \in 1 .. Len(stack) : stack[i] \in Frames(k)
      BY <1>1, <2>1 DEF TInv, Private, Fits
    <3>5. stack \in [1 .. Len(stack) -> Frames(k)]
      BY <3>3, <3>4
    <3>. QED
      BY <3>1, <3>3, <3>5, SeqDef
  <2>. QED
    BY <1>1, <2>1, <2>2, <2>3, <2>4, <2>5 DEF TypeOK, TInv
<1>. QED
  BY <1>1, TypesAlwaysOK, PTL

----------------------------------------------------------------------------
(* Nothing is copied for nothing.                                          *)

(***************************************************************************)
(* The strengthening: an activation's clone still equals its node, unless  *)
(* something changed while it was on the stack, and then it counts for     *)
(* every activation below it too.                                          *)
(***************************************************************************)
Pristine(h, f) == ~f.extra /\ h[f.copy] = h[f.node]

Clean(h, s, d) ==
    \A i \in 1 .. Len(s) : Pristine(h, s[i]) \/ \A j \in 1 .. i : s[j].node \in d

Dirty(s, d) == \A i \in 1 .. Len(s) : s[i].node \in d

SameOutside(l, d) == \A n \in DOMAIN l : n \notin d => l[n] = n

KInv == ~self.forceClone => Clean(heap, stack, dirty) /\ SameOutside(last, dirty)

\* An activation of the stack with the same nodes.
LEMMA CleanTop ==
    ASSUME NEW s, IsSeq(s), s # << >>, NEW g, g.node = s[Len(s)].node, NEW d, NEW h
    PROVE  /\ Dirty(s, d) => Dirty(Append(Front(s), g), d)
           /\ Clean(h, s, d) /\ g.copy = s[Len(s)].copy /\ g.extra = s[Len(s)].extra
                => Clean(h, Append(Front(s), g), d)
<1>1. PICK u : u = Append(Front(s), g)
  OBVIOUS
<1>2. PICK b : b = Front(s)
  OBVIOUS
<1>3. /\ IsSeq(b) /\ Len(s) \in Nat \ {0} /\ Len(b) = Len(s) - 1
      /\ \A i \in 1 .. Len(s) - 1 : b[i] = s[i]
  BY <1>2, FrontFacts
<1>4. Len(u) = Len(b) + 1 /\ (\A i \in 1 .. Len(b) : u[i] = b[i]) /\ u[Len(b) + 1] = g
  BY <1>1, <1>2, <1>3, AppendFacts
<1>5. /\ Len(u) = Len(s) /\ u[Len(s)] = g
      /\ \A i \in 1 .. Len(s) : i # Len(s) => u[i] = s[i]
  BY <1>3, <1>4
<1>6. \A i \in 1 .. Len(s) : u[i].node = s[i].node
  BY <1>5
<1>7. Dirty(s, d) => Dirty(u, d)
  BY <1>5, <1>6 DEF Dirty
<1>8. ASSUME Clean(h, s, d), g.copy = s[Len(s)].copy, g.extra = s[Len(s)].extra
      PROVE  Clean(h, u, d)
  <2>1. ASSUME NEW i \in 1 .. Len(s)
        PROVE  Pristine(h, u[i]) \/ \A j \in 1 .. i : u[j].node \in d
    <3>1. CASE Pristine(h, s[i])
      <4>1. /\ u[i].copy = s[i].copy /\ u[i].node = s[i].node /\ (u[i].extra <=> s[i].extra)
        BY <1>5, <1>6, <1>8
      <4>. QED
        BY <3>1, <4>1 DEF Pristine
    <3>2. CASE \A j \in 1 .. i : s[j].node \in d
      <4>1. \A j \in 1 .. i : j \in 1 .. Len(s)
        BY <1>3
      <4>. QED
        BY <1>6, <3>2, <4>1
    <3>. QED
      BY <1>8, <3>1, <3>2 DEF Clean
  <2>. QED
    BY <1>5, <2>1 DEF Clean
<1>. QED
  BY <1>1, <1>7, <1>8

\* The stack below.
LEMMA CleanFront ==
    ASSUME NEW s, IsSeq(s), s # << >>, NEW d, NEW h
    PROVE  /\ Dirty(s, d) => Dirty(Front(s), d)
           /\ Clean(h, s, d) => Clean(h, Front(s), d)
<1>1. PICK b : b = Front(s)
  OBVIOUS
<1>2. /\ Len(s) \in Nat \ {0} /\ Len(b) = Len(s) - 1
      /\ \A i \in 1 .. Len(s) - 1 : b[i] = s[i]
  BY <1>1, FrontFacts
<1>3. \A i \in 1 .. Len(b) : i \in 1 .. Len(s) /\ b[i] = s[i]
  BY <1>2
<1>4. \A i \in 1 .. Len(b) : \A j \in 1 .. i : j \in 1 .. Len(b)
  BY <1>2
<1>5. Dirty(s, d) => Dirty(b, d)
  BY <1>3 DEF Dirty
<1>6. Clean(h, s, d) => Clean(h, b, d)
  BY <1>3, <1>4 DEF Clean
<1>. QED
  BY <1>1, <1>5, <1>6

\* When something changes, it counts for all of the stack.
LEMMA DirtyClean ==
    ASSUME NEW s, IsSeq(s), NEW d, Dirty(s, d), NEW h
    PROVE  Clean(h, s, d)
<1>1. Len(s) \in Nat
  BY LenProperties DEF IsSeq
<1>2. \A i \in 1 .. Len(s) : \A j \in 1 .. i : j \in 1 .. Len(s)
  BY <1>1
<1>. QED
  BY <1>2 DEF Dirty, Clean

\* What a step must establish.
StaysClean(d) == Clean(heap', stack', d) /\ SameOutside(last', d)

\* Either something has changed, or the innermost clone is what its node is.
Settles(f, h, v, d) ==
    \/ Dirty(stack, d)
    \/ f = Top /\ h = heap /\ Clean(heap, stack, d) /\ ~Known(v, f.copy)

\* A child put back where it was.
LEMMA SamePutBack ==
    ASSUME NEW h, HeapOK(h), NEW m, m \in Frames(Len(h)), NEW r, Waits(h, m, r)
    PROVE  PutBack(h, m, r) = h
<1>1. PICK c, i : c = m.copy /\ i = m.at
  OBVIOUS
<1>2. c \in 1 .. Len(h) /\ i \in 1 .. Len(h[c].kids) /\ r = h[c].kids[i]
  BY <1>1 DEF Frames, Waits
<1>3. /\ h[c] \in Nodes(Len(h)) /\ h[c].kids \in Seq(1 .. Len(h)) /\ r \in 1 .. Len(h)
      /\ h \in Seq(Nodes(Len(h)))
  BY <1>2, NodeFacts DEF HeapOK
<1>4. PICK K : K = h[c].kids
  OBVIOUS
<1>5. ReplaceAt(K, i, r) = K
  <2>1. /\ ReplaceAt(K, i, r) \in Seq(1 .. Len(h)) /\ Len(ReplaceAt(K, i, r)) = Len(K)
        /\ \A j \in 1 .. Len(K) : ReplaceAt(K, i, r)[j] = IF j = i THEN r ELSE K[j]
    BY <1>2, <1>3, <1>4, ExceptSeq DEF ReplaceAt
  <2>2. \A j \in 1 .. Len(K) : ReplaceAt(K, i, r)[j] = K[j]
    BY <1>2, <1>4, <2>1
  <2>. QED
    BY <1>3, <1>4, <2>1, <2>2, SeqEqual
<1>6. r # Null
  BY <1>3 DEF Null
<1>7. PICK x : x = [h[c] EXCEPT !.kids = K]
  OBVIOUS
<1>8. x = h[c]
  BY <1>3, <1>4, <1>7 DEF Nodes
<1>9. PutBack(h, m, r) = [h EXCEPT ![c] = x]
  BY <1>1, <1>2, <1>3, <1>4, <1>5, <1>6, <1>7 DEF PutBack
<1>10. [h EXCEPT ![c] = x] = h
  <2>1. /\ [h EXCEPT ![c] = x] \in Seq(Nodes(Len(h))) /\ Len([h EXCEPT ![c] = x]) = Len(h)
        /\ \A j \in 1 .. Len(h) : [h EXCEPT ![c] = x][j] = IF j = c THEN x ELSE h[j]
    BY <1>2, <1>3, <1>8, ExceptSeq
  <2>2. \A j \in 1 .. Len(h) : [h EXCEPT ![c] = x][j] = h[j]
    BY <1>8, <2>1
  <2>. QED
    BY <1>3, <2>1, <2>2, SeqEqual
<1>. QED
  BY <1>9, <1>10

\* The clone is dropped, the node kept.
LEMMA PristineReturns ==
    ASSUME TInv, status = "run", ~self.forceClone, NEW f, NEW h, NEW v, NEW final0, NEW d,
           f = Top, h = heap, Clean(heap, stack, d), ~Known(v, f.copy), ~Dirty(stack, d),
           final0 = f.copy,
           NEW final, final = (IF final0 = f.copy /\ h[final0] = h[f.pre] THEN f.pre ELSE final0),
           NEW r, r = (IF Changes(v, h, f.node, final) THEN final ELSE f.node)
    PROVE  r = f.node
<1>1. Fits(h, visited, f) /\ f = stack[Len(stack)] /\ Len(stack) \in Nat \ {0}
  BY TopFits
<1>2. Pristine(h, f)
  BY <1>1 DEF Clean, Dirty
<1>3. final = f.copy
  BY <1>1, <1>2 DEF Fits, Pristine
<1>4. f.copy # Null
  BY <1>1, StackNodes DEF Fits, Frames, Null
<1>5. ~Replaces(h, f.node, final)
  BY <1>2, <1>3 DEF Replaces, Pristine
<1>6. ~Changes(v, h, f.node, final)
  BY <1>3, <1>4, <1>5 DEF Changes
<1>. QED
  BY <1>6

\* A visit ends.
LEMMA ReturnClean ==
    ASSUME TInv, status = "run", ~self.forceClone, NEW f, NEW h, NEW v, NEW final0, NEW d,
           f.node = Top.node, SameOutside(last, d), Settles(f, h, v, d),
           Dirty(stack, d) \/ final0 = f.copy,
           Return(f, h, v, final0)
    PROVE  StaysClean(d)
<1>1. PICK below : below = Front(stack)
  OBVIOUS
<1>2. PICK final : final = IF final0 = f.copy /\ h[final0] = h[f.pre] THEN f.pre ELSE final0
  OBVIOUS
<1>3. PICK r : r = IF Changes(v, h, f.node, final) THEN final ELSE f.node
  OBVIOUS
<1>4. /\ last' = With(last, f.node, r)
      /\ below = << >> => stack' = << >> /\ heap' = h
      /\ below # << >> =>
            /\ heap' = PutBack(h, Last(below), r)
            /\ stack' = Append(Front(below), Advanced(Last(below), r))
  BY <1>1, <1>2, <1>3 DEF Return
<1>5. /\ IsSeq(stack) /\ stack # << >> /\ IsSeq(below) /\ Len(stack) \in Nat \ {0}
      /\ Len(below) = Len(stack) - 1 /\ \A i \in 1 .. Len(stack) - 1 : below[i] = stack[i]
      /\ Top = stack[Len(stack)] /\ Private(heap, visited, stack)
  <2>1. IsSeq(stack) /\ stack # << >> /\ Top = stack[Len(stack)] /\ Private(heap, visited, stack)
    BY TopFits DEF TInv, Private
  <2>. QED
    BY <1>1, <2>1, FrontFacts
<1>6. CASE below = << >>
  <2>1. Clean(heap', stack', d)
    BY <1>4, <1>6 DEF Clean
  <2>2. f.node \in d \/ r = f.node
    <3>1. CASE Dirty(stack, d)
      BY <1>5, <3>1 DEF Dirty
    <3>2. CASE ~Dirty(stack, d)
      BY <1>2, <1>3, <3>2, PristineReturns DEF Settles
    <3>. QED
      BY <3>1, <3>2
  <2>3. SameOutside(last', d)
    BY <1>4, <2>2 DEF SameOutside, With
  <2>. QED
    BY <2>1, <2>3 DEF StaysClean
<1>7. CASE below # << >>
  <2>1. PICK m : m = below[Len(below)]
    OBVIOUS
  <2>2. PICK a : a = Advanced(m, r)
    OBVIOUS
  <2>3. /\ heap' = PutBack(h, m, r) /\ stack' = Append(Front(below), a)
    BY <1>4, <1>7, <2>1, <2>2 DEF Last
  <2>4. Len(below) \in 1 .. Len(stack) /\ Len(below) < Len(stack) /\ Len(below) + 1 = Len(stack)
          /\ m = stack[Len(below)]
    <3>1. Len(below) \in Nat \ {0}
      BY <1>5, <1>7, FrontFacts
    <3>. QED
      BY <1>5, <2>1, <3>1
  <2>5. m \in Frames(Len(heap))
    BY <1>5, <2>4 DEF Private, Fits
  <2>6. a.node = m.node /\ a.copy = m.copy /\ a.extra = m.extra
    BY <2>2, <2>5 DEF Advanced, Frames
  <2>7. CASE Dirty(stack, d)
    <3>1. Dirty(below, d)
      BY <1>1, <1>5, <2>7, CleanFront
    <3>2. Dirty(Append(Front(below), a), d)
      BY <1>5, <1>7, <2>1, <2>6, <3>1, CleanTop
    <3>3. IsSeq(Append(Front(below), a))
      BY <1>5, <1>7, FrontFacts, AppendFacts
    <3>4. Clean(heap', stack', d)
      BY <2>3, <3>2, <3>3, DirtyClean
    <3>5. f.node \in d
      BY <1>5, <2>7 DEF Dirty
    <3>6. SameOutside(last', d)
      BY <1>4, <3>5 DEF SameOutside, With
    <3>. QED
      BY <3>4, <3>6 DEF StaysClean
  <2>8. CASE ~Dirty(stack, d)
    <3>1. r = f.node /\ f = Top /\ h = heap /\ Clean(heap, stack, d)
      BY <1>2, <1>3, <2>8, PristineReturns DEF Settles
    <3>2. Waits(heap, m, r)
      BY <1>5, <2>4, <3>1 DEF Private
    <3>3. PutBack(heap, m, r) = heap
      <4>1. m \in Frames(Len(heap)) /\ HeapOK(heap)
        BY <1>5, <2>5 DEF Private
      <4>. QED
        BY <3>2, <4>1, SamePutBack
    <3>4. Clean(heap, below, d)
      BY <1>1, <1>5, <3>1, CleanFront
    <3>5. Clean(heap, Append(Front(below), a), d)
      BY <1>5, <1>7, <2>1, <2>6, <3>4, CleanTop
    <3>6. SameOutside(last', d)
      BY <1>4, <3>1 DEF SameOutside, With
    <3>. QED
      BY <2>3, <3>1, <3>3, <3>5, <3>6 DEF StaysClean
  <2>. QED
    BY <2>7, <2>8
<1>. QED
  BY <1>6, <1>7

\* preorder is over.
LEMMA DescendClean ==
    ASSUME TInv, status = "run", ~self.forceClone, NEW f, NEW h, NEW v, NEW d,
           f.node = Top.node, SameOutside(last, d), Settles(f, h, v, d),
           {"node", "copy", "extra"} \subseteq DOMAIN f, Dirty(stack, d) \/ f.pre = f.copy,
           Descend(f, h, v)
    PROVE  StaysClean(d)
<1>1. CASE pruneFlag
  <2>1. PICK p : p = f.pre
    OBVIOUS
  <2>2. Return(f, h, v, p) /\ (Dirty(stack, d) \/ p = f.copy)
    BY <1>1, <2>1 DEF Descend
  <2>. QED
    BY <2>2, ReturnClean
<1>2. CASE ~pruneFlag
  <2>1. PICK g : g = [f EXCEPT !.at = 1, !.step = "kids"]
    OBVIOUS
  <2>2. heap' = h /\ stack' = Append(Front(stack), g) /\ last' = last
    BY <1>2, <2>1 DEF Descend
  <2>3. g.node = f.node /\ g.copy = f.copy /\ g.extra = f.extra
    BY <2>1
  <2>4. /\ IsSeq(stack) /\ stack # << >> /\ Top = stack[Len(stack)] /\ IsSeq(Front(stack))
    BY TopFits, FrontFacts DEF TInv, Private
  <2>5. g.node = stack[Len(stack)].node
    BY <2>3, <2>4
  <2>6. Clean(h, Append(Front(stack), g), d)
    <3>1. CASE Dirty(stack, d)
      <4>1. Dirty(Append(Front(stack), g), d)
        BY <2>4, <2>5, <3>1, CleanTop
      <4>2. IsSeq(Append(Front(stack), g))
        BY <2>4, AppendFacts
      <4>. QED
        BY <4>1, <4>2, DirtyClean
    <3>2. CASE f = Top /\ h = heap /\ Clean(heap, stack, d)
      BY <2>3, <2>4, <2>5, <3>2, CleanTop
    <3>. QED
      BY <3>1, <3>2 DEF Settles
  <2>. QED
    BY <2>2, <2>6 DEF StaysClean
<1>. QED
  BY <1>1, <1>2

\* What the visitor changes is counted for all nodes on the stack.
LEMMA EditedDirty ==
    ASSUME TInv, KInv, ~self.forceClone, Edited(1)
    PROVE  Dirty(stack, dirty') /\ SameOutside(last, dirty')
<1>1. dirty' = dirty \union OnStack
  BY DEF Edited
<1>2. \A i \in 1 .. Len(stack) : stack[i].node \in OnStack
  BY StackNodes DEF OnStack
<1>. QED
  BY <1>1, <1>2 DEF Dirty, SameOutside, KInv

\* postorder and preorder that keep the clone: changed, or not.
LEMMA RelabelSettles ==
    ASSUME TInv, KInv, status = "run", ~self.forceClone, NEW l \in Label,
           Edited(IF l = heap[Top.copy].label THEN 0 ELSE 1),
           NEW v, \A x \in DOMAIN v : x \in DOMAIN visited,
           NEW h, h = Relabelled(heap, Top.copy, l)
    PROVE  Settles(Top, h, v, dirty') /\ SameOutside(last, dirty')
<1>1. CASE l = heap[Top.copy].label
  <2>1. PICK c : c = Top.copy
    OBVIOUS
  <2>2. c \in 1 .. Len(heap) /\ heap[c] \in Nodes(Len(heap)) /\ heap \in Seq(Nodes(Len(heap)))
    BY <2>1, TopFits DEF TInv, Private, HeapOK
  <2>3. h = heap
    <3>1. PICK x : x = [heap[c] EXCEPT !.label = l]
      OBVIOUS
    <3>2. x = heap[c]
      BY <1>1, <2>1, <2>2, <3>1 DEF Nodes
    <3>3. h = [heap EXCEPT ![c] = x]
      BY <2>1, <2>2, <3>1 DEF Relabelled
    <3>4. /\ h \in Seq(Nodes(Len(heap))) /\ Len(h) = Len(heap)
          /\ \A j \in 1 .. Len(heap) : h[j] = IF j = c THEN x ELSE heap[j]
      BY <2>2, <3>2, <3>3, ExceptSeq
    <3>5. \A j \in 1 .. Len(heap) : h[j] = heap[j]
      BY <3>2, <3>4
    <3>. QED
      BY <2>2, <3>4, <3>5, SeqEqual
  <2>4. dirty' = dirty
    BY <1>1 DEF Edited
  <2>5. ~Known(v, Top.copy)
    BY TopFits DEF Fits, Unlisted, Known
  <2>. QED
    BY <2>3, <2>4, <2>5 DEF Settles, KInv
<1>2. CASE l # heap[Top.copy].label
  BY <1>2, EditedDirty DEF Settles
<1>. QED
  BY <1>1, <1>2

\* postorder.
LEMMA PostorderClean ==
    ASSUME TInv, KInv, ~self.forceClone, Postorder
    PROVE  StaysClean(dirty')
<1>1. PICK d : d = dirty'
  OBVIOUS
<1>2. status = "run"
  BY DEF Postorder, PostorderKeeps, PostorderRemoves, PostorderReturnsChild, PostorderReturnsNew,
         AtPostorder, In
<1>3. PICK m : m = Top
  OBVIOUS
<1>4. CASE PostorderKeeps
  <2>1. PICK l \in Label :
          /\ Edited(IF l = heap[Top.copy].label THEN 0 ELSE 1)
          /\ Return(Top, Relabelled(heap, Top.copy, l), visited, Top.copy)
    BY <1>4 DEF PostorderKeeps
  <2>2. PICK h, c, v : h = Relabelled(heap, Top.copy, l) /\ c = Top.copy /\ v = visited
    OBVIOUS
  <2>3. Settles(m, h, v, d) /\ SameOutside(last, d)
    BY <1>1, <1>2, <1>3, <2>1, <2>2, RelabelSettles
  <2>4. Return(m, h, v, c) /\ c = m.copy /\ m.node = Top.node
    BY <1>3, <2>1, <2>2
  <2>5. StaysClean(d)
    BY <1>2, <2>3, <2>4, ReturnClean
  <2>. QED
    BY <1>1, <2>5
<1>5. CASE PostorderRemoves \/ PostorderReturnsChild \/ PostorderReturnsNew
  <2>1. Edited(1) /\ \E h, final : Return(Top, h, visited, final)
    BY <1>5, Zenon DEF PostorderRemoves, PostorderReturnsChild, PostorderReturnsNew
  <2>2. PICK h, final : Return(Top, h, visited, final)
    BY <2>1
  <2>3. Dirty(stack, d) /\ SameOutside(last, d)
    BY <1>1, <2>1, EditedDirty
  <2>4. PICK v : v = visited
    OBVIOUS
  <2>5. Settles(m, h, v, d) /\ Return(m, h, v, final) /\ m.node = Top.node
    BY <1>3, <2>2, <2>3, <2>4 DEF Settles
  <2>6. StaysClean(d)
    BY <1>2, <2>3, <2>5, ReturnClean
  <2>. QED
    BY <1>1, <2>6
<1>. QED
  BY <1>4, <1>5 DEF Postorder

\* preorder.
LEMMA PreorderClean ==
    ASSUME TInv, IInv, KInv, ~self.forceClone, Preorder
    PROVE  StaysClean(dirty')
<1>1. PICK d : d = dirty'
  OBVIOUS
<1>2. In("pre") /\ status = "run"
  BY DEF Preorder, Prune, PreorderKeeps, PreorderRemoves, PreorderReturnsChild, PreorderReturnsNew,
         In
<1>3. PICK m : m = Top
  OBVIOUS
<1>4. /\ Fits(heap, visited, m) /\ m \in Frames(Len(heap)) /\ m.node \in DOMAIN visited
      /\ Len(heap) \in Nat /\ IsSeq(stack) /\ stack # << >> /\ m = stack[Len(stack)]
  BY <1>2, <1>3, TopFits DEF TInv, Private
<1>5. CASE Prune
  <2>1. PICK g : g = [m EXCEPT !.skips = TRUE]
    OBVIOUS
  <2>2. heap' = heap /\ stack' = Append(Front(stack), g) /\ last' = last /\ dirty' = dirty
    BY <1>3, <1>5, <2>1 DEF Prune, history
  <2>3. g.node = m.node /\ g.copy = m.copy /\ g.extra = m.extra
    BY <1>4, <2>1 DEF Frames
  <2>4. Clean(heap, stack, dirty) /\ SameOutside(last, dirty)
    BY DEF KInv
  <2>5. Clean(heap, Append(Front(stack), g), dirty)
    BY <1>4, <2>3, <2>4, CleanTop
  <2>. QED
    BY <2>2, <2>4, <2>5 DEF StaysClean
<1>6. CASE PreorderKeeps
  <2>1. PICK l \in Label :
          /\ Edited(IF l = heap[Top.copy].label THEN 0 ELSE 1)
          /\ Descend(Top, Relabelled(heap, Top.copy, l), MarkedAgain(visited, Top.node))
    BY <1>6 DEF PreorderKeeps
  <2>2. PICK h, v : h = Relabelled(heap, Top.copy, l) /\ v = MarkedAgain(visited, Top.node)
    OBVIOUS
  <2>3. \A x \in DOMAIN v : x \in DOMAIN visited
    BY <1>3, <1>4, <2>2 DEF MarkedAgain, With
  <2>4. Settles(m, h, v, d) /\ SameOutside(last, d)
    BY <1>1, <1>2, <1>3, <2>1, <2>2, <2>3, RelabelSettles
  <2>6. m.pre = m.copy
    BY <1>2, <1>3, <1>4, TopOK DEF Fits, In
  <2>7. Descend(m, h, v) /\ m.node = Top.node /\ {"node", "copy", "extra"} \subseteq DOMAIN m
    BY <1>3, <1>4, <2>1, <2>2 DEF Frames
  <2>8. StaysClean(d)
    BY <1>2, <2>4, <2>6, <2>7, DescendClean
  <2>. QED
    BY <1>1, <2>8
<1>7. CASE PreorderRemoves
  <2>1. PICK v, z : v = MarkedAgain(visited, Top.node) /\ z = Null
    OBVIOUS
  <2>2. Edited(1) /\ Return(m, heap, v, z)
    BY <1>3, <1>7, <2>1 DEF PreorderRemoves
  <2>3. Dirty(stack, d) /\ SameOutside(last, d)
    BY <1>1, <2>2, EditedDirty
  <2>4. PICK h : h = heap
    OBVIOUS
  <2>5. Settles(m, h, v, d) /\ Return(m, h, v, z) /\ m.node = Top.node
    BY <1>3, <2>2, <2>3, <2>4 DEF Settles
  <2>6. StaysClean(d)
    BY <1>2, <2>3, <2>5, ReturnClean
  <2>. QED
    BY <1>1, <2>6
<1>8. CASE PreorderReturnsChild \/ PreorderReturnsNew
  <2>1. Edited(1) /\ \E p, h : ReplacedBy(p, h)
    BY <1>8, Zenon DEF PreorderReturnsChild, PreorderReturnsNew
  <2>2. PICK p, h : ReplacedBy(p, h)
    BY <2>1
  <2>3. Dirty(stack, d) /\ SameOutside(last, d)
    BY <1>1, <2>1, EditedDirty
  <2>4. PICK v : v = MarkedAgain(visited, Top.node)
    OBVIOUS
  <2>5. CASE Return(Top, h, v, v[p].result)
    <3>1. PICK z : z = v[p].result
      OBVIOUS
    <3>2. Settles(m, h, v, d) /\ Return(m, h, v, z) /\ m.node = Top.node
      BY <1>3, <2>3, <2>5, <3>1 DEF Settles
    <3>3. StaysClean(d)
      BY <1>2, <2>3, <3>2, ReturnClean
    <3>. QED
      BY <1>1, <3>3
  <2>6. CASE UNCHANGED <<heap, visited, stack, pruneFlag, out, last, pruned>>
    <3>1. heap' = heap /\ stack' = stack /\ last' = last
      BY <2>6
    <3>2. Clean(heap, stack, d)
      BY <1>4, <2>3, DirtyClean
    <3>. QED
      BY <1>1, <2>3, <3>1, <3>2 DEF StaysClean
  <2>7. CASE Descend([Top EXCEPT !.pre = p, !.copy = Len(h) + 1, !.extra = TRUE],
                     Append(h, h[p]), Started(v, p, v[Top.node].once))
    <3>1. PICK g, w, f :
            /\ g = Append(h, h[p]) /\ w = Started(v, p, v[Top.node].once)
            /\ f = [m EXCEPT !.pre = p, !.copy = Len(h) + 1, !.extra = TRUE]
      OBVIOUS
    <3>2. Descend(f, g, w)
      BY <1>3, <2>7, <3>1
    <3>3. DOMAIN f = DOMAIN m /\ f.node = m.node
      BY <1>4, <3>1 DEF Frames
    <3>4. /\ {"node", "copy", "extra"} \subseteq DOMAIN f /\ f.node = Top.node
          /\ Settles(f, g, w, d)
      BY <1>3, <1>4, <2>3, <3>3 DEF Frames, Settles
    <3>5. StaysClean(d)
      BY <1>2, <2>3, <3>2, <3>4, DescendClean
    <3>. QED
      BY <1>1, <3>5
  <2>. QED
    BY <2>2, <2>4, <2>5, <2>6, <2>7 DEF ReplacedBy
<1>. QED
  BY <1>5, <1>6, <1>7, <1>8 DEF Preorder

\* A child is visited.
LEMMA ChildClean ==
    ASSUME TInv, KInv, ~self.forceClone, VisitChild
    PROVE  StaysClean(dirty')
<1>1. status = "run" /\ More /\ last' = last
  BY DEF VisitChild, VisitNew, VisitDone, VisitBusy
<1>2. PICK n, m, k : n = Child /\ m = Top /\ k = Len(heap)
  OBVIOUS
<1>3. /\ Fits(heap, visited, m) /\ m \in Frames(k) /\ HeapOK(heap)
      /\ k \in Nat /\ IsSeq(stack) /\ stack # << >> /\ m = stack[Len(stack)]
      /\ m.at \in 1 .. Len(heap[m.copy].kids) /\ n = heap[m.copy].kids[m.at] /\ n \in 1 .. k
      /\ Private(heap, visited, stack) /\ Len(stack) \in Nat
  BY <1>1, <1>2, TopFits, ChildFacts DEF TInv, Private
<1>4. Clean(heap, stack, dirty) /\ SameOutside(last, dirty)
  BY DEF KInv
<1>5. \A i \in 1 .. Len(stack) : stack[i].node \in OnStack
  BY StackNodes DEF OnStack
<1>6. CASE VisitNew
  <2>1. PICK x, f :
          /\ x = [heap[n] EXCEPT !.kids = Forwarded(visited', @)]
          /\ f = Activation(n, k + 1)
    OBVIOUS
  <2>2. heap' = Append(heap, x) /\ stack' = Append(stack, f)
    BY <1>2, <1>6, <2>1 DEF VisitNew, Enter
  <2>3. PICK g, s : g = Append(heap, x) /\ s = Append(stack, f)
    OBVIOUS
  <2>4. heap[n] \in Nodes(k) /\ heap \in Seq(Nodes(k))
    BY <1>2, <1>3, NodeFacts DEF HeapOK
  <2>5. /\ Len(s) = Len(stack) + 1 /\ s[Len(stack) + 1] = f
        /\ \A i \in 1 .. Len(stack) : s[i] = stack[i]
    BY <1>3, <2>3, AppendFacts
  <2>6. f.node = n /\ f.copy = k + 1 /\ ~f.extra
    BY <2>1 DEF Activation
  <2>7. \A i \in 1 .. Len(s) : i \in 1 .. Len(stack) \/ i = Len(stack) + 1
    BY <1>3, <2>5
  <2>8. dirty' = IF Kids(heap', Last(stack')) = heap[n].kids THEN dirty
                 ELSE dirty \union OnStack \union {n}
    BY <1>2, <1>6 DEF VisitNew
  <2>9. SameOutside(last', dirty')
    BY <1>1, <1>4, <2>8 DEF SameOutside
  <2>10. CASE dirty' = dirty \union OnStack \union {n}
    <3>1. Dirty(s, dirty')
      BY <1>5, <2>5, <2>6, <2>7, <2>10 DEF Dirty
    <3>2. IsSeq(s)
      BY <1>3, <2>3, AppendFacts
    <3>3. Clean(heap', s, dirty')
      BY <3>1, <3>2, DirtyClean
    <3>. QED
      BY <2>2, <2>3, <2>9, <3>3 DEF StaysClean
  <2>11. CASE Kids(heap', Last(stack')) = heap[n].kids /\ dirty' = dirty
    <3>1. x \in Nodes(k)
      <4>1. Private(heap, visited', stack)
        <5>1. PICK o, v : o = self.visitDagOnce /\ v = Started(visited, n, o)
          OBVIOUS
        <5>2. visited' = v /\ o \in BOOLEAN
          BY <1>2, <1>6, <5>1, SettingsFacts DEF VisitNew, Enter
        <5>3. ~Clone(stack, n)
          BY <1>1, <1>2, ChildFacts
        <5>4. Private(heap, v, stack)
          BY <1>2, <1>3, <5>1, <5>2, <5>3, StartedPrivate
        <5>. QED
          BY <5>2, <5>4
      <4>2. PICK w : w = visited'
        OBVIOUS
      <4>3. [heap[n] EXCEPT !.kids = Forwarded(w, @)] \in Nodes(k)
        BY <1>2, <1>3, <4>1, <4>2, ForwardedKids
      <4>. QED
        BY <2>1, <4>2, <4>3
    <3>2. /\ Len(g) = k + 1 /\ g[k + 1] = x /\ \A i \in 1 .. k : g[i] = heap[i]
      BY <1>2, <1>3, <2>3, <3>1, NodeAppended
    <3>3. x.kids = heap[n].kids
      <4>1. Last(stack') = f
        BY <2>2, <2>3, <2>5 DEF Last
      <4>. QED
        BY <2>2, <2>3, <2>6, <2>11, <3>2, <4>1 DEF Kids
    <3>4. x = heap[n]
      <4>1. x = [heap[n] EXCEPT !.kids = heap[n].kids]
        BY <2>1, <2>4, <3>3 DEF Nodes
      <4>. QED
        BY <2>4, <4>1 DEF Nodes
    <3>5. Pristine(g, f)
      BY <1>3, <2>6, <3>2, <3>4 DEF Pristine
    <3>6. ASSUME NEW i \in 1 .. Len(stack)
          PROVE  Pristine(g, s[i]) \/ \A j \in 1 .. i : s[j].node \in dirty
      <4>1. s[i] = stack[i] /\ stack[i] \in Frames(k)
        BY <1>2, <1>3, <2>5 DEF Private, Fits
      <4>2. stack[i].copy \in 1 .. k /\ stack[i].node \in 1 .. k
        BY <4>1 DEF Frames
      <4>3. CASE Pristine(heap, stack[i])
        BY <3>2, <4>1, <4>2, <4>3 DEF Pristine
      <4>4. CASE \A j \in 1 .. i : stack[j].node \in dirty
        <5>1. \A j \in 1 .. i : j \in 1 .. Len(stack)
          BY <1>3
        <5>. QED
          BY <2>5, <4>4, <5>1
      <4>. QED
        BY <1>4, <4>3, <4>4 DEF Clean
    <3>7. Clean(g, s, dirty)
      BY <2>5, <2>7, <3>5, <3>6 DEF Clean
    <3>. QED
      BY <2>2, <2>3, <2>9, <2>11, <3>7 DEF StaysClean
  <2>. QED
    BY <2>8, <2>10, <2>11
<1>7. CASE VisitDone
  <2>1. PICK r, a : r = visited[n].result /\ a = Advanced(m, r)
    OBVIOUS
  <2>2. /\ heap' = PutBack(heap, m, r) /\ stack' = Append(Front(stack), a)
        /\ dirty' = IF r = n THEN dirty ELSE dirty \union OnStack
    BY <1>2, <1>7, <2>1 DEF VisitDone, ResultOf
  <2>3. a.node = m.node /\ a.copy = m.copy /\ a.extra = m.extra
    BY <1>3, <2>1 DEF Advanced, Frames
  <2>4. SameOutside(last', dirty')
    BY <1>1, <1>4, <2>2 DEF SameOutside
  <2>5. CASE r = n
    <3>1. Waits(heap, m, r)
      BY <1>3, <2>5 DEF Waits
    <3>2. PutBack(heap, m, r) = heap
      BY <1>2, <1>3, <3>1, SamePutBack
    <3>3. Clean(heap, Append(Front(stack), a), dirty)
      BY <1>3, <1>4, <2>3, CleanTop
    <3>. QED
      BY <2>2, <2>4, <2>5, <3>2, <3>3 DEF StaysClean
  <2>6. CASE r # n
    <3>1. PICK d : d = dirty'
      OBVIOUS
    <3>2. Dirty(stack, d)
      BY <1>5, <2>2, <2>6, <3>1 DEF Dirty
    <3>3. Dirty(Append(Front(stack), a), d)
      BY <1>3, <2>3, <3>2, CleanTop
    <3>4. IsSeq(Append(Front(stack), a))
      BY <1>3, FrontFacts, AppendFacts
    <3>5. Clean(heap', Append(Front(stack), a), d)
      BY <3>3, <3>4, DirtyClean
    <3>. QED
      BY <2>2, <2>4, <3>1, <3>5 DEF StaysClean
  <2>. QED
    BY <2>5, <2>6
<1>8. CASE VisitBusy
  <2>1. PICK a : a = [m EXCEPT !.at = m.at + 1]
    OBVIOUS
  <2>2. AfterLoop(m) = a
    BY <2>1 DEF AfterLoop
  <2>3. heap' = heap /\ stack' = Append(Front(stack), a) /\ dirty' = dirty
    BY <1>2, <1>8, <2>2 DEF VisitBusy
  <2>4. a.node = m.node /\ a.copy = m.copy /\ a.extra = m.extra
    BY <1>3, <2>1 DEF Frames
  <2>5. Clean(heap, Append(Front(stack), a), dirty)
    BY <1>3, <1>4, <2>4, CleanTop
  <2>. QED
    BY <1>1, <1>4, <2>3, <2>5 DEF StaysClean
<1>. QED
  BY <1>6, <1>7, <1>8 DEF VisitChild

\* The inductive step.
LEMMA CleanKept ==
    ASSUME TInv, IInv, KInv, [Next]_vars
    PROVE  KInv'
<1>1. CASE Next
  <2>1. self' = self
    BY <1>1 DEF Next, VisitChild, VisitNew, VisitDone, VisitBusy, Preorder, Prune, PreorderKeeps,
                PreorderRemoves, PreorderReturnsChild, PreorderReturnsNew, Postorder, PostorderKeeps,
                PostorderRemoves, PostorderReturnsChild, PostorderReturnsNew
  <2>2. ASSUME ~self.forceClone PROVE StaysClean(dirty')
    BY <1>1, <2>2, ChildClean, PreorderClean, PostorderClean DEF Next
  <2>. QED
    BY <2>1, <2>2 DEF StaysClean, KInv
<1>2. CASE UNCHANGED vars
  BY <1>2 DEF vars, history, KInv
<1>. QED
  BY <1>1, <1>2

\* A walk begins with a clone that equals the root.
LEMMA InitClean == Init => KInv
<1>1. SUFFICES ASSUME Init PROVE Clean(heap, stack, dirty) /\ SameOutside(last, dirty)
  BY DEF KInv
<1>2. PICK x \in Visits :
        /\ heap = Append(x.ir, x.ir[1])
        /\ stack = << Activation(1, Len(x.ir) + 1) >>
  BY <1>1 DEF Init
<1>3. x.ir \in Seq([label : Label, kids : Seq(1 .. Len(x.ir))]) /\ Len(x.ir) > 0
  BY GraphAssumption
<1>4. PICK h, k, n : h = x.ir /\ k = Len(h) /\ n = h[1]
  OBVIOUS
<1>5. HeapOK(h) /\ k \in Nat \ {0} /\ n \in Nodes(k)
  <2>1. HeapOK(h)
    BY <1>3, <1>4 DEF HeapOK, Nodes
  <2>. QED
    BY <1>3, <1>4, <2>1, NodeFacts
<1>6. /\ Append(h, n)[k + 1] = n /\ \A i \in 1 .. k : Append(h, n)[i] = h[i]
  BY <1>4, <1>5, NodeAppended
<1>7. heap = Append(h, n) /\ heap[k + 1] = n /\ heap[1] = n
  BY <1>2, <1>4, <1>5, <1>6
<1>8. PICK f : f = Activation(1, k + 1)
  OBVIOUS
<1>9. stack = << f >> /\ f.node = 1 /\ f.copy = k + 1 /\ ~f.extra
  BY <1>2, <1>4, <1>8 DEF Activation
<1>10. Len(stack) = 1 /\ stack[1] = f
  BY <1>9
<1>11. Pristine(heap, f)
  BY <1>7, <1>9 DEF Pristine
<1>12. Clean(heap, stack, dirty)
  BY <1>10, <1>11 DEF Clean
<1>13. last = << >>
  BY <1>1 DEF Init
<1>14. SameOutside(last, dirty)
  BY <1>13 DEF SameOutside
<1>. QED
  BY <1>12, <1>14

(***************************************************************************)
(* apply_visitor and ChangeTracker::finish: a node during whose visit      *)
(* nothing was changed comes back as the same pointer, for every IR, every *)
(* visitor and however often the node is visited; its clone is dropped.    *)
(* PassRepeated stops when the program's pointer stays the same.           *)
(***************************************************************************)
THEOREM UntouchedTheorem == Spec => []UntouchedKept
<1>1. Init => TInv /\ IInv /\ KInv
  BY InitTypes, InitMarks, InitClean
<1>2. (TInv /\ IInv /\ KInv) /\ [Next]_vars => (TInv /\ IInv /\ KInv)'
  BY TypesKept, StepKept, CleanKept
<1>3. KInv => UntouchedKept
  BY DEF KInv, SameOutside, UntouchedKept
<1>. QED
  BY <1>1, <1>2, <1>3, PTL DEF Spec

============================================================================
