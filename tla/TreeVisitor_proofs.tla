------------------------ MODULE TreeVisitor_proofs ------------------------
(* Theorems about the ChangeTracker, for every IR and every visitor.        *)
EXTENDS TreeVisitor, SequenceTheorems, TLAPS

(***************************************************************************)
(* The strengthening: an activation owns the mark of its node and, if      *)
(* preorder returned another node, of that one; no two own the same mark,  *)
(* and there are no others.  Nothing else is said of frames, entries and   *)
(* nodes: the argument does not depend on what the visitor does to them.   *)
(***************************************************************************)
Marks(f) == {f.node} \union (IF f.extra THEN {f.pre} ELSE {})

FrameOK(f) ==
    /\ {"node", "copy", "pre", "extra", "skips", "at", "step"} \subseteq DOMAIN f
    /\ f.extra \in BOOLEAN
    /\ f.extra => f.step = "kids" /\ f.pre # f.node

IsSeq(s) == \E S : s \in Seq(S)

Owned(s, n) == \E i \in 1 .. Len(s) : n \in Marks(s[i])

StackOK(s) ==
    /\ IsSeq(s)
    /\ \A i \in 1 .. Len(s) : FrameOK(s[i])
    /\ \A i, j \in 1 .. Len(s) : i # j => Marks(s[i]) \intersect Marks(s[j]) = {}

TrackerOK(v) == \A n \in DOMAIN v : v[n].busy \in BOOLEAN

MarksOK(v, s) == StackOK(s) /\ TrackerOK(v) /\ (\A n : Busy(v, n) <=> Owned(s, n))

IInv == MarksOK(visited, stack) /\ (status = "run" => stack # << >>)

----------------------------------------------------------------------------
(* Stacks.                                                                 *)

\* The stack below the innermost activation.
LEMMA FrontFacts ==
    ASSUME NEW s, IsSeq(s), s # << >>
    PROVE  /\ IsSeq(Front(s))
           /\ Len(s) \in Nat \ {0}
           /\ Len(Front(s)) = Len(s) - 1
           /\ \A i \in 1 .. Len(s) - 1 : Front(s)[i] = s[i]
<1>1. PICK S : s \in Seq(S)
  BY DEF IsSeq
<1>2. Len(s) \in Nat \ {0}
  BY <1>1, EmptySeq
<1>3. PICK m : m = Len(s) - 1
  OBVIOUS
<1>4. m \in Nat /\ \A i \in 1 .. m : s[i] \in S
  BY <1>1, <1>2, <1>3, ElementOfSeq
<1>5. /\ SubSeq(s, 1, m) \in Seq(S)
      /\ Len(SubSeq(s, 1, m)) = IF 1 <= m THEN m - 1 + 1 ELSE 0
      /\ \A i \in 1 .. m - 1 + 1 : SubSeq(s, 1, m)[i] = s[1 + i - 1]
  BY <1>4, SubSeqProperties
<1>6. m - 1 + 1 = m /\ \A i \in 1 .. m : 1 + i - 1 = i
  BY <1>4
<1>7. Len(SubSeq(s, 1, m)) = m /\ \A i \in 1 .. m : SubSeq(s, 1, m)[i] = s[i]
  BY <1>4, <1>5, <1>6
<1>. QED
  BY <1>2, <1>3, <1>5, <1>7 DEF IsSeq, Front

\* One more activation.
LEMMA AppendFacts ==
    ASSUME NEW s, IsSeq(s), NEW g
    PROVE  /\ IsSeq(Append(s, g))
           /\ Len(s) \in Nat
           /\ Len(Append(s, g)) = Len(s) + 1
           /\ \A i \in 1 .. Len(s) : Append(s, g)[i] = s[i]
           /\ Append(s, g)[Len(s) + 1] = g
<1>1. PICK S : s \in Seq(S)
  BY DEF IsSeq
<1>2. s \in Seq(S \union {g})
  BY <1>1, SeqMonotonic
<1>3. Append(s, g) \in Seq(S \union {g})
  BY <1>2, AppendProperties
<1>. QED
  BY <1>2, <1>3, AppendProperties DEF IsSeq

\* A node is entered.
LEMMA Pushed ==
    ASSUME NEW v, NEW w, NEW s, NEW g, MarksOK(v, s), TrackerOK(w), FrameOK(g),
           \A n \in Marks(g) : ~Busy(v, n),
           \A n : Busy(w, n) <=> Busy(v, n) \/ n \in Marks(g)
    PROVE  MarksOK(w, Append(s, g)) /\ Append(s, g) # << >>
<1>. DEFINE t == Append(s, g)
<1>1. /\ IsSeq(t) /\ Len(s) \in Nat /\ Len(t) = Len(s) + 1
      /\ \A i \in 1 .. Len(s) : t[i] = s[i]
      /\ t[Len(s) + 1] = g
  BY AppendFacts DEF MarksOK, StackOK
<1>2. \A n : Owned(t, n) <=> Owned(s, n) \/ n \in Marks(g)
  BY <1>1 DEF Owned
<1>3. \A i \in 1 .. Len(s) : Marks(s[i]) \intersect Marks(g) = {}
  BY DEF MarksOK, Owned
<1>4. ASSUME NEW i \in 1 .. Len(t), NEW j \in 1 .. Len(t), i # j
      PROVE  Marks(t[i]) \intersect Marks(t[j]) = {}
  <2>. HIDE DEF t
  <2>1. CASE i \in 1 .. Len(s) /\ j \in 1 .. Len(s)
    <3>1. t[i] = s[i] /\ t[j] = s[j]
      BY <1>1, <2>1
    <3>2. Marks(s[i]) \intersect Marks(s[j]) = {}
      BY <1>4, <2>1 DEF MarksOK, StackOK
    <3>. QED
      BY <3>1, <3>2
  <2>2. CASE i = Len(s) + 1
    <3>1. t[i] = g /\ t[j] = s[j] /\ j \in 1 .. Len(s)
      BY <1>1, <1>4, <2>2
    <3>. QED
      BY <1>3, <3>1
  <2>3. CASE j = Len(s) + 1
    <3>1. t[j] = g /\ t[i] = s[i] /\ i \in 1 .. Len(s)
      BY <1>1, <1>4, <2>3
    <3>. QED
      BY <1>3, <3>1
  <2>. QED
    BY <1>1, <2>1, <2>2, <2>3
<1>5. \A i \in 1 .. Len(t) : FrameOK(t[i])
  BY <1>1 DEF MarksOK, StackOK
<1>6. t # << >>
  BY <1>1
<1>. QED
  BY <1>1, <1>2, <1>4, <1>5, <1>6 DEF MarksOK, StackOK

\* A node is left: the marks of its activation go.
LEMMA Popped ==
    ASSUME NEW v, NEW w, NEW s, MarksOK(v, s), s # << >>, TrackerOK(w),
           \A n : Busy(w, n) <=> Busy(v, n) /\ n \notin Marks(s[Len(s)])
    PROVE  MarksOK(w, Front(s))
<1>. DEFINE t == Front(s)
<1>1. /\ IsSeq(t) /\ Len(s) \in Nat \ {0} /\ Len(t) = Len(s) - 1
      /\ \A i \in 1 .. Len(s) - 1 : t[i] = s[i]
  BY FrontFacts DEF MarksOK, StackOK
<1>2. \A n : Owned(t, n) <=> Owned(s, n) /\ n \notin Marks(s[Len(s)])
  <2>1. \A n : Owned(s, n) <=> Owned(t, n) \/ n \in Marks(s[Len(s)])
    BY <1>1 DEF Owned
  <2>2. ASSUME NEW i \in 1 .. Len(t) PROVE Marks(t[i]) \intersect Marks(s[Len(s)]) = {}
    <3>1. t[i] = s[i] /\ i \in 1 .. Len(s) /\ Len(s) \in 1 .. Len(s) /\ i # Len(s)
      BY <1>1
    <3>2. Marks(s[i]) \intersect Marks(s[Len(s)]) = {}
      BY <3>1 DEF MarksOK, StackOK
    <3>. QED
      BY <3>1, <3>2
  <2>. QED
    BY <2>1, <2>2 DEF Owned
<1>3. ASSUME NEW i \in 1 .. Len(t), NEW j \in 1 .. Len(t), i # j
      PROVE  Marks(t[i]) \intersect Marks(t[j]) = {}
  <2>1. t[i] = s[i] /\ t[j] = s[j] /\ i \in 1 .. Len(s) /\ j \in 1 .. Len(s)
    BY <1>1
  <2>2. Marks(s[i]) \intersect Marks(s[j]) = {}
    BY <1>3, <2>1 DEF MarksOK, StackOK
  <2>. QED
    BY <2>1, <2>2
<1>4. \A i \in 1 .. Len(t) : FrameOK(t[i])
  BY <1>1 DEF MarksOK, StackOK
<1>. QED
  BY <1>1, <1>2, <1>3, <1>4 DEF MarksOK, StackOK

\* The innermost activation goes on, perhaps with another mark.
LEMMA TopReplaced ==
    ASSUME NEW v, NEW w, NEW s, NEW g, MarksOK(v, s), s # << >>, TrackerOK(w), FrameOK(g),
           Marks(s[Len(s)]) \subseteq Marks(g),
           \A n \in Marks(g) \ Marks(s[Len(s)]) : ~Busy(v, n),
           \A n : Busy(w, n) <=> Busy(v, n) \/ n \in Marks(g)
    PROVE  MarksOK(w, Append(Front(s), g)) /\ Append(Front(s), g) # << >>
<1>. DEFINE t == Front(s)
            u == Append(t, g)
<1>1. /\ IsSeq(t) /\ Len(s) \in Nat \ {0} /\ Len(t) = Len(s) - 1
      /\ \A i \in 1 .. Len(s) - 1 : t[i] = s[i]
  BY FrontFacts DEF MarksOK, StackOK
<1>2. /\ IsSeq(u) /\ Len(u) = Len(s)
      /\ \A i \in 1 .. Len(s) - 1 : u[i] = s[i]
      /\ u[Len(s)] = g
  <2>1. /\ IsSeq(u) /\ Len(u) = Len(t) + 1 /\ \A i \in 1 .. Len(t) : u[i] = t[i]
        /\ u[Len(t) + 1] = g
    BY <1>1, AppendFacts
  <2>. QED
    BY <1>1, <2>1
<1>3. \A i \in 1 .. Len(s) - 1 : Marks(s[i]) \intersect Marks(g) = {}
  <2>1. SUFFICES ASSUME NEW i \in 1 .. Len(s) - 1, NEW n \in Marks(s[i]), n \in Marks(g)
                 PROVE  FALSE
    OBVIOUS
  <2>2. Busy(v, n)
    BY <1>1, <2>1 DEF MarksOK, Owned
  <2>3. n \in Marks(s[Len(s)])
    BY <2>1, <2>2
  <2>4. i \in 1 .. Len(s) /\ Len(s) \in 1 .. Len(s) /\ i # Len(s)
    BY <1>1
  <2>5. Marks(s[i]) \intersect Marks(s[Len(s)]) = {}
    BY <2>4 DEF MarksOK, StackOK
  <2>. QED
    BY <2>1, <2>3, <2>5
<1>4. ASSUME NEW i \in 1 .. Len(u), NEW j \in 1 .. Len(u), i # j
      PROVE  Marks(u[i]) \intersect Marks(u[j]) = {}
  <2>1. CASE i # Len(s) /\ j # Len(s)
    <3>1. u[i] = s[i] /\ u[j] = s[j] /\ i \in 1 .. Len(s) /\ j \in 1 .. Len(s)
      BY <1>1, <1>2, <2>1
    <3>2. Marks(s[i]) \intersect Marks(s[j]) = {}
      BY <1>4, <3>1 DEF MarksOK, StackOK
    <3>. QED
      BY <3>1, <3>2
  <2>2. CASE i = Len(s)
    <3>1. u[i] = g /\ u[j] = s[j] /\ j \in 1 .. Len(s) - 1
      BY <1>1, <1>2, <1>4, <2>2
    <3>. QED
      BY <1>3, <3>1
  <2>3. CASE j = Len(s)
    <3>1. u[j] = g /\ u[i] = s[i] /\ i \in 1 .. Len(s) - 1
      BY <1>1, <1>2, <1>4, <2>3
    <3>. QED
      BY <1>3, <3>1
  <2>. QED
    BY <2>1, <2>2, <2>3
<1>5. \A i \in 1 .. Len(u) : FrameOK(u[i])
  BY <1>1, <1>2 DEF MarksOK, StackOK
<1>6. \A n : Owned(u, n) <=> Owned(s, n) \/ n \in Marks(g)
  BY <1>1, <1>2 DEF Owned
<1>7. u # << >>
  BY <1>1, <1>2
<1>. QED
  BY <1>2, <1>4, <1>5, <1>6, <1>7 DEF MarksOK, StackOK

----------------------------------------------------------------------------
(* The tracker.                                                            *)

\* What all parents may rely on in v is the same in w.
Stand(v, w) == \A n \in DOMAIN v : Done(v, n) => Done(w, n) /\ w[n] = v[n]

\* From one state of the tracker to a third.
LEMMA StandTrans ==
    ASSUME NEW u, NEW v, NEW w, Stand(u, v), Stand(v, w)
    PROVE  Stand(u, w)
BY Zenon DEF Stand, Done, Known

\* Writing an entry sets one mark, or removes it.
LEMMA WithMarks ==
    ASSUME NEW v, TrackerOK(v), NEW n, NEW b \in BOOLEAN, NEW o, NEW r
    PROVE  /\ TrackerOK(With(v, n, Info(b, o, r)))
           /\ Busy(With(v, n, Info(b, o, r)), n) <=> b
           /\ \A x : x # n => (Busy(With(v, n, Info(b, o, r)), x) <=> Busy(v, x))
           /\ ~Done(v, n) => Stand(v, With(v, n, Info(b, o, r)))
<1>. DEFINE w == With(v, n, Info(b, o, r))
<1>1. /\ DOMAIN w = DOMAIN v \union {n}
      /\ w[n] = Info(b, o, r)
      /\ \A x \in DOMAIN v : x # n => w[x] = v[x]
  BY DEF With
<1>2. w[n].busy = b
  BY <1>1 DEF Info
<1>. HIDE DEF w
<1>3. TrackerOK(w)
  BY <1>1, <1>2, Zenon DEF TrackerOK
<1>4. Busy(w, n) <=> b
  BY <1>1, <1>2, Zenon DEF Busy, Known
<1>6. ASSUME NEW x, x # n PROVE Busy(w, x) <=> Busy(v, x)
  BY <1>1, <1>6, Zenon DEF Busy, Known
<1>5. ~Done(v, n) => Stand(v, w)
  BY <1>1, Zenon DEF Stand, Done, Known
<1>. QED
  BY <1>3, <1>4, <1>5, <1>6, Zenon DEF w

\* A visit begins: one more mark.
LEMMA StartedMarks ==
    ASSUME NEW v, TrackerOK(v), NEW n, ~Done(v, n), NEW once
    PROVE  /\ TrackerOK(Started(v, n, once))
           /\ \A x : Busy(Started(v, n, once), x) <=> Busy(v, x) \/ x = n
           /\ Stand(v, Started(v, n, once))
<1>1. PICK o, r : Started(v, n, once) = With(v, n, Info(TRUE, o, r))
  BY Zenon DEF Started
<1>2. TRUE \in BOOLEAN
  OBVIOUS
<1>3. /\ TrackerOK(With(v, n, Info(TRUE, o, r)))
      /\ Busy(With(v, n, Info(TRUE, o, r)), n) <=> TRUE
      /\ \A x : x # n => (Busy(With(v, n, Info(TRUE, o, r)), x) <=> Busy(v, x))
      /\ ~Done(v, n) => Stand(v, With(v, n, Info(TRUE, o, r)))
  BY <1>2, WithMarks, Zenon
<1>. QED
  BY <1>1, <1>3, Zenon

\* visitAgain() is called by preorder: no mark is touched.
LEMMA MarkedAgainMarks ==
    ASSUME NEW v, TrackerOK(v), NEW n, Busy(v, n)
    PROVE  /\ TrackerOK(MarkedAgain(v, n))
           /\ \A x : Busy(MarkedAgain(v, n), x) <=> Busy(v, x)
           /\ Stand(v, MarkedAgain(v, n))
<1>1. CASE heap[n].label \in Again
  <2>1. MarkedAgain(v, n) = With(v, n, Info(v[n].busy, FALSE, v[n].result))
    BY <1>1, Zenon DEF MarkedAgain
  <2>2. v[n].busy \in BOOLEAN /\ ~Done(v, n) /\ v[n].busy
    BY Zenon DEF Busy, Known, Done, TrackerOK
  <2>3. PICK b \in BOOLEAN : b = v[n].busy
    BY <2>2
  <2>4. PICK r : r = v[n].result
    OBVIOUS
  <2>5. /\ TrackerOK(With(v, n, Info(b, FALSE, r)))
        /\ Busy(With(v, n, Info(b, FALSE, r)), n) <=> b
        /\ \A x : x # n => (Busy(With(v, n, Info(b, FALSE, r)), x) <=> Busy(v, x))
        /\ ~Done(v, n) => Stand(v, With(v, n, Info(b, FALSE, r)))
    BY WithMarks, Zenon
  <2>6. MarkedAgain(v, n) = With(v, n, Info(b, FALSE, r))
    BY <2>1, <2>3, <2>4
  <2>7. b /\ Busy(v, n) /\ ~Done(v, n)
    BY <2>2, <2>3, Zenon
  <2>. QED
    BY <2>5, <2>6, <2>7, Zenon
<1>2. CASE heap[n].label \notin Again
  BY <1>2, Zenon DEF MarkedAgain, Stand
<1>. QED
  BY <1>1, <1>2

\* A visit ends: its mark goes, and the result's entry is not overwritten.
LEMMA FinishedMarks ==
    ASSUME NEW v, TrackerOK(v), NEW n, Busy(v, n), NEW h, NEW final
    PROVE  /\ TrackerOK(Finished(v, h, n, final))
           /\ \A x : Busy(Finished(v, h, n, final), x) <=> Busy(v, x) /\ x # n
           /\ Stand(v, Finished(v, h, n, final))
<1>. DEFINE m == Marked(v, h, n, final)
            e == Emplaced(m, final, Info(FALSE, v[n].once, final))
<1>1. ~Done(v, n)
  BY Zenon DEF Busy, Done
<1>2. PICK o, r : m = With(v, n, Info(FALSE, o, r))
  BY Zenon DEF Marked
<1>3. /\ TrackerOK(m) /\ Stand(v, m)
      /\ \A x : Busy(m, x) <=> Busy(v, x) /\ x # n
  <2>. HIDE DEF m
  <2>1. FALSE \in BOOLEAN
    OBVIOUS
  <2>2. /\ TrackerOK(With(v, n, Info(FALSE, o, r)))
        /\ Busy(With(v, n, Info(FALSE, o, r)), n) <=> FALSE
        /\ \A x : x # n => (Busy(With(v, n, Info(FALSE, o, r)), x) <=> Busy(v, x))
        /\ ~Done(v, n) => Stand(v, With(v, n, Info(FALSE, o, r)))
    BY <2>1, WithMarks, Zenon
  <2>. QED
    BY <1>1, <1>2, <2>2, Zenon
<1>4. Finished(v, h, n, final) \in {m, e}
  BY Zenon DEF Finished
<1>. HIDE DEF m
<1>5. /\ TrackerOK(e) /\ Stand(m, e)
      /\ \A x : Busy(e, x) <=> Busy(m, x)
  <2>1. CASE Known(m, final)
    <3>1. e = m
      BY <2>1, Zenon DEF Emplaced
    <3>. QED
      BY <1>3, <3>1, Zenon DEF Stand
  <2>2. CASE ~Known(m, final)
    <3>1. e = With(m, final, Info(FALSE, v[n].once, final))
      BY <2>2, Zenon DEF Emplaced
    <3>2. ~Done(m, final) /\ ~Busy(m, final)
      BY <2>2, Zenon DEF Done, Busy
    <3>3. PICK o2 : o2 = v[n].once
      OBVIOUS
    <3>4. FALSE \in BOOLEAN /\ TrackerOK(m)
      BY <1>3
    <3>5. /\ TrackerOK(With(m, final, Info(FALSE, o2, final)))
          /\ Busy(With(m, final, Info(FALSE, o2, final)), final) <=> FALSE
          /\ \A x : x # final => (Busy(With(m, final, Info(FALSE, o2, final)), x) <=> Busy(m, x))
          /\ ~Done(m, final) => Stand(m, With(m, final, Info(FALSE, o2, final)))
      BY <3>4, WithMarks, Zenon
    <3>6. e = With(m, final, Info(FALSE, o2, final))
      BY <3>1, <3>3
    <3>. HIDE DEF e
    <3>. QED
      BY <3>2, <3>5, <3>6, Zenon
  <2>. QED
    BY <2>1, <2>2
<1>. HIDE DEF e
<1>6. Stand(v, e)
  BY <1>3, <1>5, StandTrans
<1>7. CASE Finished(v, h, n, final) = m
  BY <1>3, <1>7, Zenon
<1>8. CASE Finished(v, h, n, final) = e
  BY <1>3, <1>5, <1>6, <1>8, Zenon
<1>. QED
  BY <1>4, <1>7, <1>8, Zenon

----------------------------------------------------------------------------
(* Activations.                                                            *)

\* Below a new activation the stack is what it was.
LEMMA FrontAppend ==
    ASSUME NEW s, IsSeq(s), NEW g
    PROVE  Front(Append(s, g)) = s
<1>1. PICK S : s \in Seq(S)
  BY DEF IsSeq
<1>2. /\ IsSeq(Append(s, g)) /\ Len(s) \in Nat
      /\ Len(Append(s, g)) = Len(s) + 1
      /\ \A i \in 1 .. Len(s) : Append(s, g)[i] = s[i]
  BY AppendFacts
<1>3. Append(s, g) # << >>
  BY <1>2
<1>4. /\ IsSeq(Front(Append(s, g)))
      /\ Len(Front(Append(s, g))) = Len(s)
      /\ \A i \in 1 .. Len(s) : Front(Append(s, g))[i] = Append(s, g)[i]
  <2>1. PICK t : t = Append(s, g)
    OBVIOUS
  <2>2. IsSeq(t) /\ t # << >> /\ Len(t) - 1 = Len(s)
    BY <1>2, <1>3, <2>1
  <2>3. /\ IsSeq(Front(t)) /\ Len(Front(t)) = Len(t) - 1
        /\ \A i \in 1 .. Len(t) - 1 : Front(t)[i] = t[i]
    BY <2>2, FrontFacts
  <2>. QED
    BY <2>1, <2>2, <2>3
<1>5. PICK T : Front(Append(s, g)) \in Seq(T)
  BY <1>4 DEF IsSeq
<1>6. Front(Append(s, g)) \in Seq(S \union T) /\ s \in Seq(S \union T)
  BY <1>1, <1>5, SeqMonotonic
<1>7. \A i \in 1 .. Len(s) : Front(Append(s, g))[i] = s[i]
  BY <1>2, <1>4
<1>. QED
  BY <1>4, <1>6, <1>7, SeqEqual

\* The next child: the same marks.
LEMMA SameMarks ==
    ASSUME NEW f, FrameOK(f), NEW g, NEW k, NEW b,
           g \in {f, [f EXCEPT !.at = k], [f EXCEPT !.skips = b]}
    PROVE  FrameOK(g) /\ Marks(g) = Marks(f)
<1>1. CASE g = f
  BY <1>1
<1>2. CASE g = [f EXCEPT !.at = k]
  <2>1. DOMAIN g = DOMAIN f /\ g.node = f.node /\ g.extra = f.extra /\ g.pre = f.pre
          /\ g.step = f.step
    BY <1>2 DEF FrameOK
  <2>. QED
    BY <2>1, Zenon DEF FrameOK, Marks
<1>3. CASE g = [f EXCEPT !.skips = b]
  <2>1. DOMAIN g = DOMAIN f /\ g.node = f.node /\ g.extra = f.extra /\ g.pre = f.pre
          /\ g.step = f.step
    BY <1>3 DEF FrameOK
  <2>. QED
    BY <2>1, Zenon DEF FrameOK, Marks
<1>. QED
  BY <1>1, <1>2, <1>3

\* The innermost activation of a stack whose marks are right.
LEMMA TopFacts ==
    ASSUME NEW v, NEW s, MarksOK(v, s), s # << >>
    PROVE  /\ Len(s) \in Nat \ {0}
           /\ FrameOK(s[Len(s)])
           /\ \A n \in Marks(s[Len(s)]) : Busy(v, n)
<1>1. Len(s) \in Nat \ {0}
  BY FrontFacts DEF MarksOK, StackOK
<1>. QED
  BY <1>1 DEF MarksOK, StackOK, Owned

\* It goes on with the marks it has.
LEMMA TopGoesOn ==
    ASSUME NEW v, NEW s, MarksOK(v, s), s # << >>, NEW g, FrameOK(g),
           Marks(g) = Marks(s[Len(s)])
    PROVE  MarksOK(v, Append(Front(s), g)) /\ Append(Front(s), g) # << >>
<1>1. \A n \in Marks(s[Len(s)]) : Busy(v, n)
  BY TopFacts
<1>2. TrackerOK(v)
  BY DEF MarksOK
<1>. QED
  BY <1>1, <1>2, TopReplaced, Zenon

\* The same marks in another tracker.
LEMMA SameBusy ==
    ASSUME NEW v, NEW w, NEW s, MarksOK(v, s), TrackerOK(w), \A n : Busy(w, n) <=> Busy(v, n)
    PROVE  MarksOK(w, s)
BY Zenon DEF MarksOK

----------------------------------------------------------------------------
(* Steps.                                                                  *)

\* What a step must establish, given what it found in the tracker.
Kept(v) ==
    /\ MarksOK(visited', stack')
    /\ status' = "run" => stack' # << >>
    /\ Stand(v, visited')

\* The visit of an activation f ends; it owns the marks of g, the innermost.
LEMMA Returned ==
    ASSUME NEW v, NEW f, NEW g, NEW h, NEW final0,
           IInv, stack # << >>,
           MarksOK(v, Append(Front(stack), g)), Marks(g) = Marks(f),
           f.extra \in BOOLEAN, f.extra => f.pre # f.node,
           Return(f, h, v, final0)
    PROVE  Kept(v)
<1>. DEFINE below == Front(stack)
            t == Append(below, g)
<1>1. IsSeq(below)
  BY FrontFacts DEF IInv, MarksOK, StackOK
<1>2. Front(t) = below /\ t # << >> /\ t[Len(t)] = g
  <2>1. Len(below) \in Nat /\ Len(t) = Len(below) + 1 /\ t[Len(below) + 1] = g
    BY <1>1, AppendFacts
  <2>2. t # << >>
    BY <2>1
  <2>. QED
    BY <1>1, <2>1, <2>2, FrontAppend
<1>. HIDE DEF t, below
<1>3. \A n \in Marks(f) : Busy(v, n)
  BY <1>2, TopFacts DEF t, below
<1>4. PICK final, r :
        /\ visited' = FinishedExtra(Finished(v, h, f.node, final), h, f, final)
        /\ IF below = << >> THEN stack' = << >> /\ status' = "done"
           ELSE stack' = Append(Front(below), Advanced(Last(below), r))
  BY Zenon DEF Return, below
<1>5. /\ TrackerOK(visited')
      /\ \A n : Busy(visited', n) <=> Busy(v, n) /\ n \notin Marks(f)
      /\ Stand(v, visited')
  <2>. DEFINE w == Finished(v, h, f.node, final)
  <2>1. Busy(v, f.node) /\ TrackerOK(v)
    BY <1>3 DEF Marks, MarksOK
  <2>2. /\ TrackerOK(w) /\ Stand(v, w)
        /\ \A n : Busy(w, n) <=> Busy(v, n) /\ n # f.node
    BY <2>1, FinishedMarks, Zenon
  <2>. HIDE DEF w
  <2>3. CASE f.extra
    <3>1. visited' = Finished(w, h, f.pre, final)
      BY <1>4, <2>3, Zenon DEF FinishedExtra, w
    <3>2. Busy(v, f.pre) /\ f.pre # f.node
      BY <1>3, <2>3 DEF Marks
    <3>3. Busy(w, f.pre)
      BY <2>2, <3>2, Zenon
    <3>4. /\ TrackerOK(visited') /\ Stand(w, visited')
          /\ \A n : Busy(visited', n) <=> Busy(w, n) /\ n # f.pre
      BY <2>2, <3>1, <3>3, FinishedMarks, Zenon
    <3>5. Stand(v, visited')
      BY <2>2, <3>4, StandTrans
    <3>6. Marks(f) = {f.node, f.pre}
      BY <2>3 DEF Marks
    <3>. QED
      BY <2>2, <3>4, <3>5, <3>6, Zenon
  <2>4. CASE ~f.extra
    <3>1. visited' = w
      BY <1>4, <2>4, Zenon DEF FinishedExtra, w
    <3>2. Marks(f) = {f.node}
      BY <2>4 DEF Marks
    <3>. QED
      BY <2>2, <3>1, <3>2, Zenon
  <2>. QED
    BY <2>3, <2>4
<1>6. MarksOK(visited', below)
  BY <1>2, <1>5, Popped DEF t, below
<1>7. CASE below = << >>
  BY <1>4, <1>5, <1>6, <1>7, Zenon DEF Kept
<1>8. CASE below # << >>
  <2>1. PICK m : m = below[Len(below)]
    OBVIOUS
  <2>2. FrameOK(m)
    BY <1>6, <1>8, <2>1, TopFacts
  <2>3. Advanced(m, r) \in {m, [m EXCEPT !.at = m.at + 1]}
    BY Zenon DEF Advanced
  <2>4. FrameOK(Advanced(m, r)) /\ Marks(Advanced(m, r)) = Marks(m)
    BY <2>2, <2>3, SameMarks
  <2>5. stack' = Append(Front(below), Advanced(m, r))
    BY <1>4, <1>8, <2>1 DEF Last
  <2>6. MarksOK(visited', stack') /\ stack' # << >>
    BY <1>6, <1>8, <2>1, <2>4, <2>5, TopGoesOn
  <2>. QED
    BY <1>5, <2>6, Zenon DEF Kept
<1>. QED
  BY <1>7, <1>8

\* preorder is over: on to the children, or the visit ends.
LEMMA Descended ==
    ASSUME NEW v, NEW f, NEW h,
           IInv, stack # << >>, FrameOK([f EXCEPT !.at = 1, !.step = "kids"]),
           MarksOK(v, Append(Front(stack), [f EXCEPT !.at = 1, !.step = "kids"])),
           Marks([f EXCEPT !.at = 1, !.step = "kids"]) = Marks(f),
           f.extra \in BOOLEAN, f.extra => f.pre # f.node,
           Descend(f, h, v)
    PROVE  Kept(v)
<1>. DEFINE g == [f EXCEPT !.at = 1, !.step = "kids"]
<1>1. MarksOK(v, Append(Front(stack), g)) /\ Marks(g) = Marks(f)
  OBVIOUS
<1>. HIDE DEF g
<1>2. CASE pruneFlag
  <2>1. Return(f, h, v, f.pre)
    BY <1>2, Zenon DEF Descend
  <2>2. PICK final0 : final0 = f.pre
    OBVIOUS
  <2>3. Return(f, h, v, final0)
    BY <2>1, <2>2
  <2>. QED
    BY <1>1, <2>3, Returned, Zenon
<1>3. CASE ~pruneFlag
  <2>1. visited' = v /\ stack' = Append(Front(stack), g)
    BY <1>3, Zenon DEF Descend, g
  <2>2. stack' # << >>
    <3>1. IsSeq(Front(stack))
      BY FrontFacts DEF IInv, MarksOK, StackOK
    <3>. QED
      BY <2>1, <3>1, AppendFacts
  <2>3. Stand(v, v)
    BY Zenon DEF Stand
  <2>. QED
    BY <1>1, <2>1, <2>2, <2>3, Zenon DEF Kept
<1>. QED
  BY <1>2, <1>3

\* The innermost activation, before its children are visited or after.
LEMMA TopOK ==
    ASSUME IInv, status = "run"
    PROVE  /\ stack # << >> /\ Top = stack[Len(stack)]
           /\ FrameOK(Top) /\ Top.extra \in BOOLEAN /\ (Top.extra => Top.pre # Top.node)
           /\ Top.step = "pre" => ~Top.extra
           /\ Top.node \in Marks(Top) /\ Busy(visited, Top.node)
           /\ MarksOK(visited, Append(Front(stack), Top))
           /\ MarksOK(visited, stack) /\ TrackerOK(visited)
<1>1. stack # << >> /\ MarksOK(visited, stack) /\ TrackerOK(visited)
  BY DEF IInv, MarksOK
<1>2. Top = stack[Len(stack)]
  BY DEF Top, Last
<1>3. FrameOK(Top) /\ \A n \in Marks(Top) : Busy(visited, n)
  BY <1>1, <1>2, TopFacts
<1>4. MarksOK(visited, Append(Front(stack), Top))
  BY <1>1, <1>2, <1>3, TopGoesOn
<1>5. Top.node \in Marks(Top)
  BY DEF Marks
<1>6. "pre" # "kids"
  OBVIOUS
<1>. QED
  BY <1>1, <1>2, <1>3, <1>4, <1>5, <1>6, Zenon DEF FrameOK

\* The innermost activation turns to its children.
LEMMA TopTurns ==
    ASSUME NEW f, FrameOK(f), ~f.extra
    PROVE  /\ FrameOK([f EXCEPT !.at = 1, !.step = "kids"])
           /\ Marks([f EXCEPT !.at = 1, !.step = "kids"]) = Marks(f)
<1>. DEFINE g == [f EXCEPT !.at = 1, !.step = "kids"]
<1>1. /\ DOMAIN g = DOMAIN f
      /\ g.node = f.node /\ g.extra = f.extra /\ g.pre = f.pre
  BY DEF FrameOK
<1>. HIDE DEF g
<1>2. FrameOK(g) /\ Marks(g) = Marks(f)
  BY <1>1, Zenon DEF FrameOK, Marks
<1>. QED
  BY <1>2 DEF g

\* VisitNew, VisitDone, VisitBusy.
LEMMA ChildVisited ==
    ASSUME IInv, VisitChild
    PROVE  Kept(visited)
<1>1. status = "run" /\ status' = status
  BY Zenon DEF VisitChild, VisitNew, VisitDone, VisitBusy
<1>2. PICK m : m = Top
  OBVIOUS
<1>3. /\ stack # << >> /\ m = stack[Len(stack)] /\ FrameOK(m)
      /\ MarksOK(visited, stack) /\ TrackerOK(visited)
  BY <1>1, <1>2, TopOK, Zenon
<1>4. Stand(visited, visited)
  BY Zenon DEF Stand
<1>5. CASE VisitNew
  <2>1. PICK n : n = Child
    OBVIOUS
  <2>2. PICK once, g :
          /\ ~Busy(visited, n) /\ ~Done(visited, n)
          /\ visited' = Started(visited, n, once)
          /\ g = Activation(n, Len(heap) + 1) /\ stack' = Append(stack, g)
    BY <1>5, <2>1, Zenon DEF VisitNew, Enter
  <2>3. FrameOK(g) /\ Marks(g) = {n}
    BY <2>2 DEF Activation, FrameOK, Marks
  <2>4. /\ TrackerOK(visited') /\ Stand(visited, visited')
        /\ \A x : Busy(visited', x) <=> Busy(visited, x) \/ x = n
    BY <1>3, <2>2, StartedMarks, Zenon
  <2>5. /\ \A x \in Marks(g) : ~Busy(visited, x)
        /\ \A x : Busy(visited', x) <=> Busy(visited, x) \/ x \in Marks(g)
    BY <2>2, <2>3, <2>4, Zenon
  <2>6. MarksOK(visited', stack') /\ stack' # << >>
    BY <1>3, <2>2, <2>3, <2>4, <2>5, Pushed
  <2>. QED
    BY <2>4, <2>6, Zenon DEF Kept
<1>6. CASE VisitDone
  <2>1. PICK r : visited' = visited /\ stack' = Append(Front(stack), Advanced(m, r))
    BY <1>2, <1>6, Zenon DEF VisitDone
  <2>2. Advanced(m, r) \in {m, [m EXCEPT !.at = m.at + 1]}
    BY Zenon DEF Advanced
  <2>3. FrameOK(Advanced(m, r)) /\ Marks(Advanced(m, r)) = Marks(m)
    BY <1>3, <2>2, SameMarks
  <2>4. MarksOK(visited', stack') /\ stack' # << >>
    BY <1>3, <2>1, <2>3, TopGoesOn
  <2>. QED
    BY <1>4, <2>1, <2>4, Zenon DEF Kept
<1>7. CASE VisitBusy
  <2>1. visited' = visited /\ stack' = Append(Front(stack), AfterLoop(m))
    BY <1>2, <1>7, Zenon DEF VisitBusy
  <2>2. AfterLoop(m) \in {m, [m EXCEPT !.at = m.at + 1]}
    BY Zenon DEF AfterLoop
  <2>3. FrameOK(AfterLoop(m)) /\ Marks(AfterLoop(m)) = Marks(m)
    BY <1>3, <2>2, SameMarks
  <2>4. MarksOK(visited', stack') /\ stack' # << >>
    BY <1>3, <2>1, <2>3, TopGoesOn
  <2>. QED
    BY <1>4, <2>1, <2>4, Zenon DEF Kept
<1>. QED
  BY <1>5, <1>6, <1>7 DEF VisitChild

\* prune().
LEMMA Pruned ==
    ASSUME IInv, Prune
    PROVE  Kept(visited)
<1>1. /\ status = "run" /\ visited' = visited
      /\ stack' = Append(Front(stack), [Top EXCEPT !.skips = TRUE])
  BY Zenon DEF Prune, In
<1>2. PICK m : m = Top
  OBVIOUS
<1>3. /\ stack # << >> /\ m = stack[Len(stack)] /\ FrameOK(m) /\ MarksOK(visited, stack)
  BY <1>1, <1>2, TopOK, Zenon
<1>4. PICK g : g = [m EXCEPT !.skips = TRUE]
  OBVIOUS
<1>5. FrameOK(g) /\ Marks(g) = Marks(m)
  BY <1>3, <1>4, SameMarks
<1>6. stack' = Append(Front(stack), g)
  BY <1>1, <1>2, <1>4
<1>7. MarksOK(visited', stack') /\ stack' # << >>
  BY <1>1, <1>3, <1>5, <1>6, TopGoesOn
<1>8. Stand(visited, visited')
  BY <1>1, Zenon DEF Stand
<1>. QED
  BY <1>7, <1>8, Zenon DEF Kept

\* A visit ends after the children.
LEMMA TopReturns ==
    ASSUME IInv, status = "run", NEW v, Stand(visited, v), TrackerOK(v),
           \A n : Busy(v, n) <=> Busy(visited, n),
           NEW h, NEW final, Return(Top, h, v, final)
    PROVE  Kept(visited)
<1>1. PICK m : m = Top
  OBVIOUS
<1>2. /\ stack # << >> /\ m.extra \in BOOLEAN /\ (m.extra => m.pre # m.node)
      /\ MarksOK(visited, Append(Front(stack), m))
  BY <1>1, TopOK, Zenon
<1>3. MarksOK(v, Append(Front(stack), m))
  BY <1>2, SameBusy, Zenon
<1>4. Return(m, h, v, final)
  BY <1>1
<1>5. Kept(v)
  BY <1>2, <1>3, <1>4, Returned, Zenon
<1>6. Stand(v, visited')
  BY <1>5, Zenon DEF Kept
<1>7. Stand(visited, visited')
  BY <1>6, StandTrans
<1>. QED
  BY <1>5, <1>7, Zenon DEF Kept

\* postorder, whatever it returns.
LEMMA PostorderKept ==
    ASSUME IInv, Postorder
    PROVE  Kept(visited)
<1>1. status = "run" /\ \E h, final : Return(Top, h, visited, final)
  BY Zenon DEF Postorder, PostorderKeeps, PostorderRemoves, PostorderReturnsChild,
               PostorderReturnsNew, AtPostorder, In
<1>2. PICK h, final : Return(Top, h, visited, final)
  BY <1>1
<1>3. Stand(visited, visited) /\ TrackerOK(visited)
  BY Zenon DEF Stand, IInv, MarksOK
<1>. QED
  BY <1>1, <1>2, <1>3, TopReturns, Zenon

\* The tracker as preorder leaves it.
LEMMA AfterPreorder ==
    ASSUME IInv, status = "run"
    PROVE  /\ TrackerOK(MarkedAgain(visited, Top.node))
           /\ \A n : Busy(MarkedAgain(visited, Top.node), n) <=> Busy(visited, n)
           /\ Stand(visited, MarkedAgain(visited, Top.node))
<1>1. PICK n : n = Top.node
  OBVIOUS
<1>2. TrackerOK(visited) /\ Busy(visited, n)
  BY <1>1, TopOK, Zenon
<1>3. /\ TrackerOK(MarkedAgain(visited, n))
      /\ \A x : Busy(MarkedAgain(visited, n), x) <=> Busy(visited, x)
      /\ Stand(visited, MarkedAgain(visited, n))
  BY <1>2, MarkedAgainMarks, Zenon
<1>. QED
  BY <1>1, <1>3, Zenon

\* What holds after the later part of a step holds for the whole.
LEMMA KeptFrom ==
    ASSUME NEW v, Stand(visited, v), Kept(v)
    PROVE  Kept(visited)
<1>1. Stand(v, visited')
  BY Zenon DEF Kept
<1>2. Stand(visited, visited')
  BY <1>1, StandTrans
<1>. QED
  BY <1>2, Zenon DEF Kept

\* The clone is kept: its children come next.
LEMMA DescendsKept ==
    ASSUME IInv, In("pre"), NEW h, Descend(Top, h, MarkedAgain(visited, Top.node))
    PROVE  Kept(visited)
<1>1. status = "run" /\ Top.step = "pre"
  BY Zenon DEF In
<1>2. PICK m : m = Top
  OBVIOUS
<1>3. PICK v : v = MarkedAgain(visited, m.node)
  OBVIOUS
<1>4. /\ TrackerOK(v) /\ Stand(visited, v)
      /\ \A n : Busy(v, n) <=> Busy(visited, n)
  BY <1>1, <1>2, <1>3, AfterPreorder, Zenon
<1>5. /\ stack # << >> /\ m = stack[Len(stack)] /\ FrameOK(m) /\ ~m.extra
      /\ m.extra \in BOOLEAN /\ MarksOK(visited, stack)
  BY <1>1, <1>2, TopOK, Zenon
<1>6. PICK g : g = [m EXCEPT !.at = 1, !.step = "kids"]
  OBVIOUS
<1>7. FrameOK(g) /\ Marks(g) = Marks(m)
  BY <1>5, <1>6, TopTurns
<1>8. MarksOK(v, stack)
  BY <1>4, <1>5, SameBusy, Zenon
<1>9. MarksOK(v, Append(Front(stack), g))
  BY <1>5, <1>7, <1>8, TopGoesOn
<1>10. Descend(m, h, v)
  BY <1>2, <1>3
<1>11. /\ FrameOK([m EXCEPT !.at = 1, !.step = "kids"])
       /\ MarksOK(v, Append(Front(stack), [m EXCEPT !.at = 1, !.step = "kids"]))
       /\ Marks([m EXCEPT !.at = 1, !.step = "kids"]) = Marks(m)
  BY <1>6, <1>7, <1>9
<1>12. Kept(v)
  BY <1>5, <1>10, <1>11, Descended, Zenon
<1>. QED
  BY <1>4, <1>12, KeptFrom

\* preorder returned another node.
LEMMA ReplacedKept ==
    ASSUME IInv, In("pre"), NEW p, NEW h, ReplacedBy(p, h)
    PROVE  Kept(visited)
<1>1. status = "run" /\ Top.step = "pre"
  BY Zenon DEF In
<1>2. PICK m : m = Top
  OBVIOUS
<1>3. PICK v : v = MarkedAgain(visited, m.node)
  OBVIOUS
<1>4. /\ TrackerOK(v) /\ Stand(visited, v)
      /\ \A n : Busy(v, n) <=> Busy(visited, n)
  BY <1>1, <1>2, <1>3, AfterPreorder, Zenon
<1>5. /\ stack # << >> /\ m = stack[Len(stack)] /\ FrameOK(m) /\ ~m.extra
      /\ m.extra \in BOOLEAN /\ MarksOK(visited, stack) /\ Busy(visited, m.node)
  BY <1>1, <1>2, TopOK, Zenon
<1>6. MarksOK(v, stack)
  BY <1>4, <1>5, SameBusy, Zenon
<1>7. CASE \E final : Return(m, h, v, final)
  <2>1. PICK final : Return(m, h, v, final)
    BY <1>7
  <2>2. Return(Top, h, v, final)
    BY <1>2, <2>1
  <2>. QED
    BY <1>1, <1>4, <2>2, TopReturns, Zenon
<1>8. CASE visited' = visited /\ stack' = stack /\ status' = "bug"
  <2>1. Stand(visited, visited')
    BY <1>8, Zenon DEF Stand
  <2>. QED
    BY <1>5, <1>8, <2>1, Zenon DEF Kept
<1>9. CASE \E c, once, h2 :
              /\ ~Done(v, p) /\ ~Busy(v, p)
              /\ Descend([m EXCEPT !.pre = p, !.copy = c, !.extra = TRUE], h2, Started(v, p, once))
  <2>1. PICK c, once, h2 :
              /\ ~Done(v, p) /\ ~Busy(v, p)
              /\ Descend([m EXCEPT !.pre = p, !.copy = c, !.extra = TRUE], h2, Started(v, p, once))
    BY <1>9
  <2>2. p # m.node
    BY <1>4, <1>5, <2>1, Zenon
  <2>3. PICK f : f = [m EXCEPT !.pre = p, !.copy = c, !.extra = TRUE]
    OBVIOUS
  <2>4. PICK g : g = [f EXCEPT !.at = 1, !.step = "kids"]
    OBVIOUS
  <2>5. /\ FrameOK(g) /\ Marks(g) = {m.node, p}
        /\ Marks(f) = {m.node, p} /\ f.extra /\ f.pre = p /\ f.node = m.node /\ f.extra \in BOOLEAN
    <3>1. /\ DOMAIN f = DOMAIN m
          /\ f.node = m.node /\ f.extra = TRUE /\ f.pre = p
      BY <1>5, <2>3 DEF FrameOK
    <3>2. /\ DOMAIN g = DOMAIN m
          /\ g.node = m.node /\ g.extra = TRUE /\ g.pre = p /\ g.step = "kids"
      BY <1>5, <2>4, <3>1 DEF FrameOK
    <3>3. FrameOK(g)
      BY <1>5, <2>2, <3>2 DEF FrameOK
    <3>4. Marks(g) = {m.node, p} /\ Marks(f) = {m.node, p}
      BY <3>1, <3>2 DEF Marks
    <3>. QED
      BY <3>1, <3>3, <3>4
  <2>6. PICK w : w = Started(v, p, once)
    OBVIOUS
  <2>7. /\ TrackerOK(w) /\ Stand(v, w)
        /\ \A x : Busy(w, x) <=> Busy(v, x) \/ x = p
    BY <1>4, <2>1, <2>6, StartedMarks, Zenon
  <2>8. Marks(m) = {m.node}
    BY <1>5 DEF Marks
  <2>9. MarksOK(w, Append(Front(stack), g))
    <3>1. Marks(stack[Len(stack)]) \subseteq Marks(g)
      BY <1>5, <2>5, <2>8
    <3>2. \A n \in Marks(g) \ Marks(stack[Len(stack)]) : ~Busy(v, n)
      BY <1>5, <2>1, <2>5, <2>8
    <3>3. \A n : Busy(w, n) <=> Busy(v, n) \/ n \in Marks(g)
      BY <1>4, <1>5, <2>5, <2>7, Zenon
    <3>. QED
      BY <1>5, <1>6, <2>5, <2>7, <3>1, <3>2, <3>3, TopReplaced, Zenon
  <2>10. Descend(f, h2, w)
    BY <2>1, <2>3, <2>6
  <2>11. /\ FrameOK([f EXCEPT !.at = 1, !.step = "kids"])
         /\ MarksOK(w, Append(Front(stack), [f EXCEPT !.at = 1, !.step = "kids"]))
         /\ Marks([f EXCEPT !.at = 1, !.step = "kids"]) = Marks(f)
    BY <2>4, <2>5, <2>9
  <2>12. f.pre # f.node
    BY <2>2, <2>5
  <2>13. Kept(w)
    BY <1>5, <2>5, <2>10, <2>11, <2>12, Descended, Zenon
  <2>14. Stand(visited, w)
    BY <1>4, <2>7, StandTrans
  <2>. QED
    BY <2>13, <2>14, KeptFrom
<1>10. v = MarkedAgain(visited, Top.node) /\ m = Top
  BY <1>2, <1>3
<1>. QED
  BY <1>7, <1>8, <1>9, <1>10, Zenon DEF ReplacedBy

\* preorder, whatever it does.
LEMMA PreorderKept ==
    ASSUME IInv, Preorder
    PROVE  Kept(visited)
<1>1. CASE Prune
  BY <1>1, Pruned
<1>2. CASE PreorderKeeps
  <2>1. In("pre") /\ \E h : Descend(Top, h, MarkedAgain(visited, Top.node))
    BY <1>2, Zenon DEF PreorderKeeps
  <2>. QED
    BY <2>1, DescendsKept, Zenon
<1>3. CASE PreorderRemoves
  <2>1. status = "run" /\ \E h, final : Return(Top, h, MarkedAgain(visited, Top.node), final)
    BY <1>3, Zenon DEF PreorderRemoves, In
  <2>2. PICK v : v = MarkedAgain(visited, Top.node)
    OBVIOUS
  <2>3. /\ TrackerOK(v) /\ Stand(visited, v)
        /\ \A n : Busy(v, n) <=> Busy(visited, n)
    BY <2>1, <2>2, AfterPreorder, Zenon
  <2>4. PICK h, final : Return(Top, h, v, final)
    BY <2>1, <2>2
  <2>. QED
    BY <2>1, <2>3, <2>4, TopReturns, Zenon
<1>4. CASE PreorderReturnsChild \/ PreorderReturnsNew
  <2>1. In("pre") /\ \E p, h : ReplacedBy(p, h)
    BY <1>4, Zenon DEF PreorderReturnsChild, PreorderReturnsNew
  <2>. QED
    BY <2>1, ReplacedKept, Zenon
<1>. QED
  BY <1>1, <1>2, <1>3, <1>4 DEF Preorder

----------------------------------------------------------------------------
\* Every walk begins with the mark of the root.
LEMMA InitMarks == Init => IInv
<1>1. SUFFICES ASSUME Init PROVE IInv
  OBVIOUS
<1>2. PICK once, g :
        /\ visited = With(<< >>, 1, Info(TRUE, once, 1))
        /\ \E c : g = Activation(1, c)
        /\ stack = << g >> /\ status = "run"
  BY <1>1, Zenon DEF Init
<1>3. FrameOK(g) /\ Marks(g) = {1}
  BY <1>2 DEF Activation, FrameOK, Marks
<1>4. DOMAIN visited = {1} /\ visited[1].busy = TRUE
  BY <1>2 DEF With, Info
<1>5. /\ IsSeq(stack) /\ Len(stack) = 1 /\ stack[1] = g /\ stack # << >>
  <2>1. stack \in Seq({g})
    BY <1>2
  <2>. QED
    BY <1>2, <2>1 DEF IsSeq
<1>6. StackOK(stack)
  BY <1>3, <1>5 DEF StackOK
<1>7. TrackerOK(visited)
  BY <1>4 DEF TrackerOK
<1>8. ASSUME NEW n PROVE Busy(visited, n) <=> n = 1
  BY <1>4, Zenon DEF Busy, Known
<1>9. ASSUME NEW n PROVE Owned(stack, n) <=> n = 1
  BY <1>3, <1>5 DEF Owned
<1>. QED
  BY <1>5, <1>6, <1>7, <1>8, <1>9, Zenon DEF IInv, MarksOK

\* The inductive step, with what it does to the tracker.
LEMMA StepKept ==
    ASSUME IInv, [Next]_vars
    PROVE  IInv' /\ Stand(visited, visited')
<1>1. CASE Next
  <2>1. Kept(visited)
    BY <1>1, ChildVisited, PreorderKept, PostorderKept DEF Next
  <2>. QED
    BY <2>1, Zenon DEF Kept, IInv
<1>2. CASE UNCHANGED vars
  <2>1. visited' = visited /\ stack' = stack /\ status' = status
    BY <1>2 DEF vars
  <2>2. IInv'
    BY <2>1 DEF IInv
  <2>. QED
    BY <2>1, <2>2, Zenon DEF Stand
<1>. QED
  BY <1>1, <1>2

\* The marks are right in every state of every walk.
LEMMA MarksAlwaysOK == Spec => []IInv
<1>1. Init => IInv
  BY InitMarks
<1>2. IInv /\ [Next]_vars => IInv'
  BY StepKept
<1>. QED
  BY <1>1, <1>2, PTL DEF Spec

(***************************************************************************)
(* ChangeTracker, try_start and finish: the nodes marked as being visited  *)
(* are exactly those whose apply_visitor has not returned, and what their  *)
(* preorder returned; no mark is left behind and none is lost, whatever    *)
(* the IR and whatever the visitor returns, prunes, removes or visits      *)
(* again.                                                                  *)
(***************************************************************************)
THEOREM MarksTheorem == Spec => []MarkedIffOnStack
<1>1. ASSUME IInv PROVE MarkedIffOnStack
  <2>1. IsSeq(stack) /\ Len(stack) \in Nat /\ DOMAIN stack = 1 .. Len(stack)
    <3>1. PICK S : stack \in Seq(S)
      BY <1>1 DEF IInv, MarksOK, StackOK, IsSeq
    <3>. QED
      BY <3>1 DEF IsSeq
  <2>2. ASSUME NEW n PROVE n \in InProgress <=> Owned(stack, n)
    BY <2>1 DEF InProgress, OnStack, Owned, Marks
  <2>3. ASSUME NEW n
        PROVE  n \in { x \in DOMAIN visited : visited[x].busy } <=> Busy(visited, n)
    BY Zenon DEF Busy, Known
  <2>4. \A n : Busy(visited, n) <=> Owned(stack, n)
    BY <1>1, Zenon DEF IInv, MarksOK
  <2>5. { n \in DOMAIN visited : visited[n].busy } = InProgress
    <3>. DEFINE B == { n \in DOMAIN visited : visited[n].busy }
    <3>1. \A n : n \in B <=> n \in InProgress
      BY <2>2, <2>3, <2>4, Zenon
    <3>. HIDE DEF B
    <3>2. B = InProgress
      BY <3>1
    <3>. QED
      BY <3>2 DEF B
  <2>6. ASSUME NEW i \in DOMAIN stack, NEW j \in DOMAIN stack, stack[i].node = stack[j].node
        PROVE  i = j
    <3>1. stack[i].node \in Marks(stack[i]) \intersect Marks(stack[j])
      BY <2>6 DEF Marks
    <3>. QED
      BY <1>1, <2>1, <3>1 DEF IInv, MarksOK, StackOK
  <2>. QED
    BY <2>5, <2>6 DEF MarkedIffOnStack
<1>. QED
  BY <1>1, MarksAlwaysOK, PTL

(***************************************************************************)
(* ChangeTracker::finish and finalResult: a result that other parents may  *)
(* already refer to is never replaced, for every IR and every visitor.     *)
(***************************************************************************)
THEOREM ResultsStandTheorem == Spec => ResultsStand
<1>1. IInv /\ [Next]_vars =>
        [ \A n \in DOMAIN visited :
            Done(visited, n) => Done(visited', n) /\ visited'[n] = visited[n] ]_vars
  BY StepKept, Zenon DEF Stand
<1>. QED
  BY <1>1, MarksAlwaysOK, PTL DEF Spec, ResultsStand

============================================================================
