-------------------------- MODULE RunSmith_proofs --------------------------
(* Theorems about the collecting script, for every pool, goal and bound.    *)
EXTENDS RunSmith, FiniteSetTheorems, TLAPS

(***************************************************************************)
(* The strengthening for the folders: where a worker is says whether it    *)
(* has a folder, and whether that one is known to hold a program.          *)
(***************************************************************************)
Working == {"smith", "p4c", "clean", "hung"}

SlotOK(s) ==
    /\ work[s].pc \in Working =>
          work[s].folder \in disk \ (compiled \union abandoned) /\ work[s].tries >= 1
    /\ work[s].pc \notin Working \union {"returned"} => work[s].folder = None
    /\ work[s].pc = "returned" /\ work[s].folder # None =>
          work[s].folder \in compiled /\ work[s].tries >= 1

SlotsInv == \A s \in Slots : SlotOK(s)

IInv == TypeOK /\ SlotsInv /\ FoldersOwned /\ CountedKept /\ PoolBusy /\ RatioAtMostOne

\* Before anything is submitted nothing is on disk.
LEMMA InitInv == Init => IInv
<1>. SUFFICES ASSUME Init PROVE IInv
  OBVIOUS
<1>1. TypeOK
  <2>1. work \in [Slots -> [pc : Busy \union Finished \union {"idle"},
                            folder : Folders \union {None}, tries : Nat]]
    BY DEF Init, Idle
  <2>2. stop \in BOOLEAN /\ broken \in BOOLEAN
    BY Zenon DEF Init
  <2>3. success \in Seq(Folders)
    BY DEF Init
  <2>4. /\ main \in {"fill", "wait", "shutdown", "done", "crashed"}
        /\ iter \subseteq Slots
        /\ total \in Nat /\ fails \in Nat
        /\ disk \subseteq Folders /\ compiled \subseteq Folders /\ abandoned \subseteq Folders
    BY DEF Init
  <2>. QED
    BY <2>1, <2>2, <2>3, <2>4, Zenon DEF TypeOK
<1>2. SlotsInv /\ FoldersOwned
  BY DEF Init, SlotsInv, SlotOK, Working, FoldersOwned, InHand, Idle
<1>3. CountedKept /\ PoolBusy /\ RatioAtMostOne
  BY DEF Init, CountedKept, PoolBusy, RatioAtMostOne
<1>. QED
  BY <1>1, <1>2, <1>3 DEF IInv

\* A worker's step changes nothing of the main process, and no future vanishes.
LEMMA WorkerMain ==
    ASSUME NEW s \in Slots, TypeOK, PoolBusy, RatioAtMostOne, Worker(s)
    PROVE  /\ UNCHANGED mainVars
           /\ PoolBusy' /\ RatioAtMostOne'
<1>. USE DEF TypeOK, At, Goto
<1>1. UNCHANGED mainVars
  BY DEF Worker, CheckStop, MakeFolder, NameTaken, MakeFolderFails, SmithEnds, SmithFails,
         SmithHangs, Compile, Clean, CleanFails
<1>2. PICK r : work' = [work EXCEPT ![s] = r] /\ r.pc # "idle"
  <2>1. CASE CheckStop(s)
    BY <2>1 DEF CheckStop
  <2>2. CASE MakeFolder(s)
    <3>1. PICK f \in Folders :
            work' = [work EXCEPT ![s].pc = "smith", ![s].folder = f, ![s].tries = @ + 1]
      BY <2>2 DEF MakeFolder, NewName
    <3>2. PICK r : r = [work[s] EXCEPT !.pc = "smith", !.folder = f, !.tries = @ + 1]
      OBVIOUS
    <3>3. r.pc = "smith"
      BY <3>2
    <3>4. work' = [work EXCEPT ![s] = r]
      BY <3>1, <3>2
    <3>. QED
      BY <3>3, <3>4
  <2>3. CASE NameTaken(s) \/ MakeFolderFails(s)
    BY <2>3 DEF NameTaken, MakeFolderFails
  <2>4. CASE SmithEnds(s) \/ SmithFails(s) \/ SmithHangs(s)
    BY <2>4 DEF SmithEnds, SmithFails, SmithHangs
  <2>5. CASE Compile(s)
    BY <2>5 DEF Compile
  <2>6. CASE Clean(s) \/ CleanFails(s)
    BY <2>6 DEF Clean, CleanFails
  <2>. QED
    BY <2>1, <2>2, <2>3, <2>4, <2>5, <2>6 DEF Worker
<1>. QED
  BY <1>1, <1>2 DEF mainVars, PoolBusy, Futures, Vacant, RatioAtMostOne

\* The bound of failures.
LEMMA BadLuckType == TypeOK /\ BadLuck => fails' \in Nat
<1>. SUFFICES ASSUME TypeOK, BadLuck PROVE fails' \in Nat
  OBVIOUS
<1>1. fails \in Nat
  BY DEF TypeOK
<1>. QED
  BY <1>1 DEF BadLuck

WorkType == work \in [Slots -> [pc : Busy \union Finished \union {"idle"},
                                folder : Folders \union {None}, tries : Nat]]
DiskType == disk \subseteq Folders /\ compiled \subseteq Folders /\ abandoned \subseteq Folders
RestType ==
    /\ main \in {"fill", "wait", "shutdown", "done", "crashed"}
    /\ iter \subseteq Slots
    /\ success \in Seq(Folders)
    /\ total \in Nat
    /\ stop \in BOOLEAN

\* A worker that goes on without a folder.
LEMMA FolderLeft ==
    ASSUME WorkType, NEW s \in Slots, NEW pc \in Busy \union Finished,
           work' = [work EXCEPT ![s].pc = pc, ![s].folder = None]
    PROVE  WorkType'
<1>1. PICK r : r = [work[s] EXCEPT !.pc = pc, !.folder = None]
  OBVIOUS
<1>2. r \in [pc : Busy \union Finished \union {"idle"}, folder : Folders \union {None}, tries : Nat]
  BY <1>1 DEF WorkType
<1>3. work' = [work EXCEPT ![s] = r]
  BY <1>1
<1>. QED
  BY <1>2, <1>3 DEF WorkType

\* The parts of TypeOK.
LEMMA TypeParts ==
    TypeOK <=> WorkType /\ DiskType /\ RestType /\ broken \in BOOLEAN /\ fails \in Nat
  BY Zenon DEF TypeOK, WorkType, DiskType, RestType

\* The same in the next state.
LEMMA TypePartsNext ==
    TypeOK' <=> WorkType' /\ DiskType' /\ RestType' /\ broken' \in BOOLEAN /\ fails' \in Nat
  BY Zenon DEF TypeOK, WorkType, DiskType, RestType

\* Types through a worker's step.
LEMMA WorkerType ==
    ASSUME NEW s \in Slots, TypeOK, SlotsInv, Worker(s)
    PROVE  TypeOK'
<1>1. fails' = fails \/ BadLuck
  BY DEF Worker, CheckStop, MakeFolder, NameTaken, MakeFolderFails, SmithEnds, SmithFails,
         SmithHangs, Compile, Clean, CleanFails
<1>2. fails' \in Nat
  BY <1>1, BadLuckType DEF TypeOK
<1>3. UNCHANGED <<mainVars, broken>>
  BY DEF Worker, CheckStop, MakeFolder, NameTaken, MakeFolderFails, SmithEnds, SmithFails,
         SmithHangs, Compile, Clean, CleanFails
<1>4. RestType' /\ broken' \in BOOLEAN
  BY <1>3, TypeParts, Zenon DEF RestType, mainVars
<1>5. WorkType /\ DiskType
  BY TypeParts
<1>6. WorkType' /\ DiskType'
  <2>. USE <1>5 DEF WorkType, DiskType, At, Goto, Busy, Finished
  <2>2. CASE CheckStop(s)
    BY <2>2 DEF CheckStop
  <2>3. CASE MakeFolder(s)
    BY <2>3 DEF MakeFolder, NewName
  <2>4. CASE NameTaken(s) \/ MakeFolderFails(s)
    BY <2>4 DEF NameTaken, MakeFolderFails
  <2>5. CASE SmithEnds(s) \/ SmithFails(s) \/ SmithHangs(s)
    BY <2>5 DEF SmithEnds, SmithFails, SmithHangs
  <2>6. CASE Compile(s)
    BY <2>6 DEF Compile, SlotsInv, SlotOK, Working
  <2>7. CASE Clean(s)
    <3>1. work' = [work EXCEPT ![s].pc = "loop", ![s].folder = None]
      BY <2>7 DEF Clean
    <3>2. WorkType'
      BY <3>1, FolderLeft
    <3>. QED
      BY <2>7, <3>2 DEF Clean, CleanUp
  <2>8. CASE CleanFails(s)
    <3>1. work' = [work EXCEPT ![s].pc = "raised", ![s].folder = None]
      BY <2>8 DEF CleanFails
    <3>2. WorkType'
      BY <3>1, FolderLeft
    <3>3. work[s].folder \in Folders
      BY <2>8 DEF CleanFails, SlotsInv, SlotOK, Working
    <3>. QED
      BY <2>8, <3>2, <3>3 DEF CleanFails
  <2>. QED
    BY <2>2, <2>3, <2>4, <2>5, <2>6, <2>7, <2>8 DEF Worker
<1>. QED
  BY <1>2, <1>4, <1>6, TypePartsNext

\* Nothing is known of a folder that does not exist, and each is in one hand.
LEMMA FolderFacts ==
    ASSUME TypeOK, SlotsInv, FoldersOwned, CountedKept
    PROVE  /\ \A t \in Slots : work[t].folder \in disk \union {None}
           /\ \A t \in Slots : work[t].pc \in Working => work[t].folder # None
           /\ None \notin disk
           /\ \A i \in 1 .. Len(success) : success[i] \in compiled /\ success[i] \in disk
           /\ success \in Seq(Folders)
<1>1. \A t \in Slots : work[t].folder \in InHand \union {None}
  BY DEF InHand
<1>2. \A t \in Slots : work[t].folder \in disk \union {None}
  BY <1>1 DEF FoldersOwned
<1>3. None \notin disk
  BY SmithAssumption DEF TypeOK
<1>4. \A t \in Slots : work[t].pc \in Working => work[t].folder # None
  BY <1>3 DEF SlotsInv, SlotOK
<1>. QED
  BY <1>2, <1>3, <1>4 DEF CountedKept, TypeOK

\* A new folder belongs to nobody.
LEMMA MakeFolderFolders ==
    ASSUME NEW s \in Slots, TypeOK, SlotsInv, FoldersOwned, CountedKept, MakeFolder(s)
    PROVE  SlotsInv' /\ FoldersOwned' /\ CountedKept'
<1>. USE DEF At
<1>1. PICK f \in Folders \ disk :
          /\ disk' = disk \union {f}
          /\ work' = [work EXCEPT ![s].pc = "smith", ![s].folder = f, ![s].tries = @ + 1]
  BY DEF MakeFolder, NewName
<1>2. success' = success /\ compiled' = compiled /\ abandoned' = abandoned
      /\ disk' = disk \union {f}
  BY <1>1 DEF MakeFolder, mainVars
<1>3. work[s].folder = None /\ f # None /\ work[s].tries \in Nat
  BY SmithAssumption DEF MakeFolder, SlotsInv, SlotOK, Working, TypeOK
<1>4. /\ work'[s] = [pc |-> "smith", folder |-> f, tries |-> work[s].tries + 1]
      /\ \A t \in Slots \ {s} : work'[t] = work[t]
  BY <1>1 DEF TypeOK
<1>5. f \notin compiled /\ f \notin abandoned /\ \A t \in Slots : work[t].folder # f
  BY <1>1, <1>3, FolderFacts DEF FoldersOwned
<1>6. InHand' = InHand \union {f}
  BY <1>3, <1>4 DEF InHand
<1>7. SlotsInv'
  <2>1. \A t \in Slots \ {s} : SlotOK(t)'
    BY <1>2, <1>4, <1>5 DEF SlotsInv, SlotOK, Working
  <2>2. SlotOK(s)'
    BY <1>2, <1>3, <1>4, <1>5 DEF SlotOK, Working
  <2>. QED
    BY <2>1, <2>2 DEF SlotsInv
<1>8. FoldersOwned'
  <2>1. disk' = compiled' \union abandoned' \union InHand'
    BY <1>2, <1>6 DEF FoldersOwned
  <2>2. \A t, u \in Slots : work'[t].folder = work'[u].folder => t = u \/ work'[t].folder = None
    BY <1>4, <1>5 DEF FoldersOwned
  <2>. QED
    BY <1>2, <2>1, <2>2 DEF FoldersOwned
<1>9. CountedKept'
  BY <1>2, <1>4, <1>5, FolderFacts DEF CountedKept
<1>. QED
  BY <1>7, <1>8, <1>9

\* A slot lets go of its folder, whatever becomes of the folder.
LEMMA LetGo ==
    ASSUME NEW s \in Slots, TypeOK, FoldersOwned, NEW pc,
           work[s].folder # None,
           work' = [work EXCEPT ![s].pc = pc, ![s].folder = None]
    PROVE  /\ InHand' = InHand \ {work[s].folder}
           /\ \A t \in Slots \ {s} : work'[t] = work[t]
           /\ work'[s].folder = None /\ work'[s].pc = pc
<1>1. /\ \A t \in Slots \ {s} : work'[t] = work[t]
      /\ work'[s].folder = None /\ work'[s].pc = pc
  BY DEF TypeOK
<1>2. \A t \in Slots \ {s} : work[t].folder # work[s].folder
  BY DEF FoldersOwned
<1>3. InHand' = InHand \ {work[s].folder}
  <2>1. \A g : g \in InHand' <=> g \in InHand \ {work[s].folder}
    BY ONLY <1>1, <1>2, s \in Slots DEF InHand
  <2>. QED
    BY <2>1
<1>. QED
  BY <1>1, <1>3

\* rmtree, whether it works or not, concerns the worker's own folder only.
LEMMA CleanFolders ==
    ASSUME NEW s \in Slots, TypeOK, SlotsInv, FoldersOwned, CountedKept,
           Clean(s) \/ CleanFails(s)
    PROVE  SlotsInv' /\ FoldersOwned' /\ CountedKept'
<1>1. /\ work[s].folder # None /\ work[s].folder \in disk
      /\ work[s].folder \notin compiled /\ work[s].folder \notin abandoned
  BY FolderFacts DEF Clean, CleanFails, At, SlotsInv, SlotOK, Working
<1>2. UNCHANGED <<success, compiled>>
  BY DEF Clean, CleanFails, mainVars
<1>3. PICK pc \in {"loop", "raised"} : work' = [work EXCEPT ![s].pc = pc, ![s].folder = None]
  BY DEF Clean, CleanFails
<1>4. /\ InHand' = InHand \ {work[s].folder}
      /\ \A t \in Slots \ {s} : work'[t] = work[t]
      /\ work'[s].folder = None /\ work'[s].pc = pc
  BY <1>1, <1>3, LetGo
<1>5. \/ disk' = disk \ {work[s].folder} /\ abandoned' = abandoned
      \/ disk' = disk /\ abandoned' = abandoned \union {work[s].folder}
  BY DEF Clean, CleanFails, CleanUp
<1>6. \A t \in Slots \ {s} : work[t].folder # work[s].folder
  BY <1>1 DEF FoldersOwned
<1>7. SlotsInv'
  BY <1>1, <1>2, <1>4, <1>5, <1>6 DEF SlotsInv, SlotOK, Working
<1>8. FoldersOwned'
  <2>1. disk' = compiled' \union abandoned' \union InHand'
    BY <1>1, <1>2, <1>4, <1>5 DEF FoldersOwned
  <2>2. compiled' \intersect abandoned' = {}
    BY <1>1, <1>2, <1>5 DEF FoldersOwned
  <2>3. \A t, u \in Slots : work'[t].folder = work'[u].folder => t = u \/ work'[t].folder = None
    BY <1>4 DEF FoldersOwned
  <2>. QED
    BY <2>1, <2>2, <2>3 DEF FoldersOwned
<1>9. CountedKept'
  BY <1>1, <1>2, <1>4, <1>5, FolderFacts, SmithAssumption DEF CountedKept, TypeOK
<1>. QED
  BY <1>7, <1>8, <1>9

\* A program that compiles: the folder is known to be good before anybody counts it.
LEMMA CompileFolders ==
    ASSUME NEW s \in Slots, TypeOK, SlotsInv, FoldersOwned, CountedKept, Compile(s)
    PROVE  SlotsInv' /\ FoldersOwned' /\ CountedKept'
<1>1. PICK good \in BOOLEAN :
          /\ compiled' = IF good THEN compiled \union {work[s].folder} ELSE compiled
          /\ work' = [work EXCEPT ![s].pc = IF good THEN "returned" ELSE "clean"]
  BY DEF Compile, Accept, Goto
<1>2. UNCHANGED <<success, disk, abandoned>>
  BY DEF Compile, mainVars
<1>3. /\ work[s].folder # None /\ work[s].folder \in disk /\ work[s].tries >= 1
      /\ work[s].folder \notin compiled /\ work[s].folder \notin abandoned
  BY FolderFacts DEF Compile, At, SlotsInv, SlotOK, Working
<1>4. /\ \A t \in Slots \ {s} : work'[t] = work[t]
      /\ work'[s].folder = work[s].folder /\ work'[s].tries = work[s].tries
      /\ work'[s].pc = IF good THEN "returned" ELSE "clean"
  BY <1>1 DEF TypeOK
<1>5. InHand' = InHand
  BY <1>4 DEF InHand
<1>6. \A t \in Slots \ {s} : work[t].folder # work[s].folder
  BY <1>3 DEF FoldersOwned
<1>7. SlotsInv'
  BY <1>1, <1>2, <1>3, <1>4, <1>6 DEF SlotsInv, SlotOK, Working
<1>8. FoldersOwned'
  <2>1. disk' = compiled' \union abandoned' \union InHand'
    BY <1>1, <1>2, <1>3, <1>5 DEF FoldersOwned
  <2>2. compiled' \intersect abandoned' = {}
    BY <1>1, <1>2, <1>3 DEF FoldersOwned
  <2>3. \A t, u \in Slots : work'[t].folder = work'[u].folder => t = u \/ work'[t].folder = None
    BY <1>4 DEF FoldersOwned
  <2>. QED
    BY <2>1, <2>2, <2>3 DEF FoldersOwned
<1>9. CountedKept'
  BY <1>1, <1>2, <1>4 DEF CountedKept
<1>. QED
  BY <1>7, <1>8, <1>9

\* Folders through a worker's step.
LEMMA WorkerFolders ==
    ASSUME NEW s \in Slots, TypeOK, SlotsInv, FoldersOwned, CountedKept, Worker(s)
    PROVE  SlotsInv' /\ FoldersOwned' /\ CountedKept'
<1>1. CASE \/ CheckStop(s) \/ NameTaken(s) \/ MakeFolderFails(s)
           \/ SmithEnds(s) \/ SmithFails(s) \/ SmithHangs(s)
  <2>1. UNCHANGED <<success, disk, compiled, abandoned>>
    BY <1>1 DEF CheckStop, NameTaken, MakeFolderFails, SmithEnds, SmithFails, SmithHangs, mainVars
  <2>2. /\ \A t \in Slots \ {s} : work'[t] = work[t]
        /\ work'[s].folder = work[s].folder /\ work'[s].tries = work[s].tries
        /\ \/ work[s].pc \in Working /\ work'[s].pc \in Working
           \/ work[s].folder = None /\ work'[s].pc \notin Working
    BY <1>1 DEF CheckStop, NameTaken, MakeFolderFails, SmithEnds, SmithFails, SmithHangs, TypeOK,
                At, Goto, SlotsInv, SlotOK, Working
  <2>3. InHand' = InHand
    BY <2>2 DEF InHand
  <2>. QED
    BY <2>1, <2>2, <2>3 DEF SlotsInv, SlotOK, FoldersOwned, CountedKept, Working
<1>. QED
  BY <1>1, MakeFolderFolders, CompileFolders, CleanFolders DEF Worker

\* The pool breaks.
LEMMA BreakInv == IInv /\ PoolBreaks => IInv'
<1>. SUFFICES ASSUME IInv, PoolBreaks PROVE IInv'
  OBVIOUS
<1>1. TypeOK'
  <2>. DEFINE R == [pc : Busy \union Finished \union {"idle"},
                    folder : Folders \union {None}, tries : Nat]
  <2>4. WorkType /\ DiskType
    BY TypeParts DEF IInv
  <2>5. \A s \in Slots : work[s] \in R /\ [work[s] EXCEPT !.pc = "raised", !.folder = None] \in R
    BY <2>4 DEF WorkType, Finished
  <2>1. WorkType' /\ DiskType'
    <3>1. WorkType'
      BY <2>5, Zenon DEF PoolBreaks, WorkType
    <3>2. { work[s].folder : s \in { t \in Slots : work[t].pc \in Busy } } \subseteq Folders \union {None}
      BY <2>5
    <3>. QED
      BY <2>4, <3>1, <3>2 DEF PoolBreaks, DiskType
  <2>2. fails' \in Nat
    BY BadLuckType DEF IInv, PoolBreaks
  <2>3. RestType' /\ broken' \in BOOLEAN
    BY TypeParts, Zenon DEF IInv, PoolBreaks, mainVars, RestType
  <2>. QED
    BY <2>1, <2>2, <2>3, TypePartsNext
<1>2. SlotsInv'
  BY DEF IInv, TypeOK, PoolBreaks, mainVars, Busy, Finished, SlotsInv, SlotOK, Working
<1>3. FoldersOwned' /\ CountedKept'
  <2>. DEFINE B == { t \in Slots : work[t].pc \in Busy }
              Lost == { work[t].folder : t \in B } \ {None}
  <2>1. /\ \A t \in B : work'[t].folder = None
        /\ \A t \in Slots \ B : work'[t] = work[t]
    BY DEF IInv, TypeOK, PoolBreaks
  <2>2. abandoned' = abandoned \union Lost /\ UNCHANGED <<success, disk, compiled>>
    BY DEF PoolBreaks, mainVars
  <2>3. InHand = InHand' \union Lost
    BY <2>1 DEF InHand
  <2>4. Lost \intersect compiled = {}
    BY DEF IInv, SlotsInv, SlotOK, Busy, Working
  <2>5. FoldersOwned'
    <3>1. disk' = compiled' \union abandoned' \union InHand'
      BY <2>2, <2>3 DEF IInv, FoldersOwned
    <3>2. compiled' \intersect abandoned' = {}
      BY <2>2, <2>4 DEF IInv, FoldersOwned
    <3>3. \A t, u \in Slots : work'[t].folder = work'[u].folder => t = u \/ work'[t].folder = None
      BY <2>1 DEF IInv, FoldersOwned
    <3>. QED
      BY <3>1, <3>2, <3>3 DEF FoldersOwned
  <2>6. CountedKept'
    <3>1. \A i \in 1 .. Len(success) : success[i] # None
      BY SmithAssumption, FolderFacts DEF IInv
    <3>. QED
      BY <2>1, <2>2, <3>1 DEF IInv, CountedKept
  <2>. QED
    BY <2>5, <2>6
<1>4. PoolBusy' /\ RatioAtMostOne'
  BY DEF IInv, TypeOK, PoolBreaks, mainVars, Busy, PoolBusy, Futures, Vacant, At, RatioAtMostOne
<1>. QED
  BY <1>1, <1>2, <1>3, <1>4 DEF IInv

----------------------------------------------------------------------------
(* The main process.                                                       *)

\* Replacing futures that hold no folder on disk, or a counted one, keeps the rest.
LEMMA ReplaceFolders ==
    /\ SlotsInv /\ FoldersOwned
    /\ disk' = disk /\ compiled' = compiled /\ abandoned' = abandoned
    /\ \A t \in Slots : \/ work'[t] = work[t]
                        \/ work'[t] \in {Fresh, Idle} /\ work[t].folder \in compiled \union {None}
    => SlotsInv' /\ FoldersOwned'
<1>. SUFFICES
        ASSUME SlotsInv, FoldersOwned,
               disk' = disk, compiled' = compiled, abandoned' = abandoned,
               \A t \in Slots :
                  \/ work'[t] = work[t]
                  \/ work'[t] \in {Fresh, Idle} /\ work[t].folder \in compiled \union {None}
        PROVE  SlotsInv' /\ FoldersOwned'
  OBVIOUS
<1>1. \A t \in Slots : work'[t] # work[t] => work'[t].folder = None /\ work'[t].pc \in {"loop", "idle"}
  BY DEF Fresh, Idle
<1>2. SlotsInv'
  BY <1>1 DEF SlotsInv, SlotOK, Working
<1>3. \A t, u \in Slots : work'[t].folder = work'[u].folder => t = u \/ work'[t].folder = None
  BY <1>1 DEF FoldersOwned
<1>4. InHand' \subseteq InHand
  BY <1>1 DEF InHand
<1>5. InHand \subseteq InHand' \union compiled
  BY <1>1 DEF InHand
<1>. QED
  BY <1>2, <1>3, <1>4, <1>5 DEF FoldersOwned

\* The outer loop, the iterator and the end of the pool.
LEMMA LoopInv == IInv /\ (Submit \/ NextIterator \/ Shutdown) => IInv'
<1>. SUFFICES ASSUME IInv, Submit \/ NextIterator \/ Shutdown PROVE IInv'
  OBVIOUS
<1>1. /\ success' = success /\ total' = total /\ stop' = stop /\ broken' = broken
      /\ disk' = disk /\ compiled' = compiled /\ abandoned' = abandoned /\ fails' = fails
  BY DEF Submit, NextIterator, Shutdown, Abort
<1>2. \/ work' = work
      \/ work' = [t \in Slots |-> IF t \in Vacant THEN Fresh ELSE work[t]]
  BY DEF Submit, NextIterator, Shutdown, Abort
<1>3. \A t \in Slots : work'[t] = work[t] \/ (t \in Vacant /\ work'[t] = Fresh)
  BY <1>2
<1>4. TypeOK'
  <2>1. WorkType'
    BY <1>2, TypeParts DEF IInv, WorkType, Fresh, Busy
  <2>2. DiskType' /\ fails' \in Nat
    BY <1>1, TypeParts DEF IInv, DiskType
  <2>3. main' \in {"fill", "wait", "shutdown", "done", "crashed"} /\ iter' \subseteq Slots
    BY DEF IInv, TypeOK, Submit, NextIterator, Shutdown, Abort
  <2>4. RestType' /\ broken' \in BOOLEAN
    BY <1>1, <2>3, TypeParts, Zenon DEF IInv, RestType
  <2>. QED
    BY <2>1, <2>2, <2>4, TypePartsNext
<1>5. SlotsInv' /\ FoldersOwned'
  <2>1. \A t \in Vacant : work[t].folder = None
    BY DEF IInv, SlotsInv, SlotOK, Working, Vacant, At
  <2>2. \A t \in Slots : \/ work'[t] = work[t]
                         \/ work'[t] \in {Fresh, Idle} /\ work[t].folder \in compiled \union {None}
    BY <1>3, <2>1
  <2>. QED
    BY <1>1, <2>2, ReplaceFolders DEF IInv
<1>6. CountedKept'
  <2>1. \A i \in 1 .. Len(success) : success[i] # None
    BY SmithAssumption, FolderFacts DEF IInv
  <2>. QED
    BY <1>1, <1>3, <2>1 DEF IInv, CountedKept, Fresh
<1>7. PoolBusy'
  <2>1. main' = "wait" => \A t \in Slots : work'[t].pc # "idle"
    BY <1>2 DEF Submit, NextIterator, Shutdown, Abort, Vacant, At, Fresh
  <2>. QED
    BY <2>1 DEF PoolBusy, Futures, Vacant, At
<1>. QED
  BY <1>1, <1>4, <1>5, <1>6, <1>7 DEF IInv, RatioAtMostOne

\* A failed future is replaced, or everything ends in a broken pool.
LEMMA FailureInv == ASSUME NEW s \in Slots, IInv, CollectFailure(s) PROVE IInv'
<1>1. /\ success' = success /\ total' = total /\ stop' = stop /\ broken' = broken
      /\ disk' = disk /\ compiled' = compiled /\ abandoned' = abandoned /\ fails' = fails
  BY DEF CollectFailure, Abort
<1>2. PICK r \in {Fresh, Idle} : work' = [work EXCEPT ![s] = r]
  BY DEF CollectFailure, Retried, Drop
<1>3. \A t \in Slots : work'[t] = work[t] \/ (t = s /\ work'[t] \in {Fresh, Idle})
  BY <1>2 DEF IInv, TypeOK
<1>4. work[s].folder = None
  BY DEF CollectFailure, At, IInv, SlotsInv, SlotOK, Working
<1>5. TypeOK'
  <2>1. WorkType'
    BY <1>2, TypeParts DEF IInv, WorkType, Fresh, Idle, Busy
  <2>2. DiskType' /\ fails' \in Nat
    BY <1>1, TypeParts DEF IInv, DiskType
  <2>3. main' \in {"fill", "wait", "shutdown", "done", "crashed"} /\ iter' \subseteq Slots
    BY DEF IInv, TypeOK, CollectFailure, Abort
  <2>4. RestType' /\ broken' \in BOOLEAN
    BY <1>1, <2>3, TypeParts, Zenon DEF IInv, RestType
  <2>. QED
    BY <2>1, <2>2, <2>4, TypePartsNext
<1>6. SlotsInv' /\ FoldersOwned'
  <2>1. \A t \in Slots : \/ work'[t] = work[t]
                         \/ work'[t] \in {Fresh, Idle} /\ work[t].folder \in compiled \union {None}
    BY <1>3, <1>4
  <2>. QED
    BY <1>1, <2>1, ReplaceFolders DEF IInv
<1>7. CountedKept'
  <2>1. \A i \in 1 .. Len(success) : success[i] # None
    BY SmithAssumption, FolderFacts DEF IInv
  <2>. QED
    BY <1>1, <1>3, <2>1 DEF IInv, CountedKept, Fresh, Idle
<1>8. PoolBusy'
  <2>1. main' = "wait" => work' = [work EXCEPT ![s] = Fresh] /\ main = "wait"
    BY DEF CollectFailure, Abort, Retried
  <2>2. main' = "wait" => \A t \in Slots : work'[t].pc # "idle"
    BY <2>1 DEF IInv, TypeOK, PoolBusy, Futures, Vacant, At, Fresh
  <2>. QED
    BY <2>2 DEF PoolBusy, Futures, Vacant, At
<1>. QED
  BY <1>1, <1>5, <1>6, <1>7, <1>8 DEF IInv, RatioAtMostOne

\* A result is counted once, with the folder its worker has let go of.
LEMMA ResultInv == ASSUME NEW s \in Slots, IInv, CollectResult(s) PROVE IInv'
<1>. DEFINE f == work[s].folder
<1>1. /\ success' = IF f = None THEN success ELSE Append(success, f)
      /\ total' = total + work[s].tries
      /\ broken' = broken /\ disk' = disk /\ compiled' = compiled
      /\ abandoned' = abandoned /\ fails' = fails
  BY DEF CollectResult, Abort
<1>2. PICK r \in {Fresh, Idle} : work' = [work EXCEPT ![s] = r]
  BY DEF CollectResult, Drop
<1>3. /\ \A t \in Slots : work'[t] = work[t] \/ (t = s /\ work'[t] \in {Fresh, Idle})
      /\ work'[s].folder = None
  BY <1>2 DEF IInv, TypeOK, Fresh, Idle
<1>4. f # None => f \in compiled /\ f \in disk /\ f \in Folders /\ work[s].tries >= 1
  BY FolderFacts DEF CollectResult, At, IInv, SlotsInv, SlotOK, TypeOK
<1>5. success \in Seq(Folders) /\ total \in Nat /\ work[s].tries \in Nat /\ success' \in Seq(Folders)
  BY <1>1, <1>4 DEF IInv, TypeOK
<1>6. TypeOK'
  <2>1. WorkType'
    BY <1>2, TypeParts DEF IInv, WorkType, Fresh, Idle, Busy
  <2>2. DiskType' /\ fails' \in Nat
    BY <1>1, TypeParts DEF IInv, DiskType
  <2>3. main' \in {"fill", "wait", "shutdown", "done", "crashed"} /\ iter' \subseteq Slots
    BY DEF IInv, TypeOK, CollectResult, Abort
  <2>4. stop' \in BOOLEAN
    <3>1. stop' = stop \/ \E n : stop' = Enough(n)
      BY DEF CollectResult, Abort
    <3>2. \A n : Enough(n) \in BOOLEAN
      BY DEF Enough
    <3>. QED
      BY <3>1, <3>2, TypeParts, Zenon DEF IInv, RestType
  <2>5. total' \in Nat
    BY <1>1, <1>5
  <2>6. broken' \in BOOLEAN
    BY <1>1, TypeParts DEF IInv
  <2>7. RestType'
    BY <1>5, <2>3, <2>4, <2>5, Zenon DEF RestType
  <2>. QED
    BY <2>1, <2>2, <2>6, <2>7, TypePartsNext
<1>7. SlotsInv' /\ FoldersOwned'
  <2>1. \A t \in Slots : \/ work'[t] = work[t]
                         \/ work'[t] \in {Fresh, Idle} /\ work[t].folder \in compiled \union {None}
    BY <1>3, <1>4
  <2>. QED
    BY <1>1, <2>1, ReplaceFolders DEF IInv
<1>8. CountedKept'
  <2>1. \A i \in 1 .. Len(success) : /\ success[i] # None /\ success[i] # f
                                    /\ success[i] \in disk \intersect compiled
    BY SmithAssumption, FolderFacts DEF IInv, CountedKept
  <2>2. CASE f = None
    BY <1>1, <1>3, <2>1, <2>2 DEF IInv, CountedKept, Fresh, Idle
  <2>3. CASE f # None
    <3>1. /\ Len(success') = Len(success) + 1
          /\ \A i \in 1 .. Len(success) : success'[i] = success[i]
          /\ success'[Len(success) + 1] = f
      BY <1>1, <1>4, <1>5, <2>3
    <3>2. \A t \in Slots \ {s} : work'[t].folder # f
      BY <1>3, <2>3 DEF IInv, FoldersOwned
    <3>3. \A i \in 1 .. Len(success) : \A t \in Slots : work'[t].folder # success[i]
      BY <1>3, <2>1 DEF IInv, CountedKept
    <3>4. \A i \in 1 .. Len(success') :
             /\ success'[i] \in disk' \intersect compiled'
             /\ \A t \in Slots : work'[t].folder # success'[i]
      BY <1>1, <1>3, <1>4, <1>5, <2>1, <2>3, <3>1, <3>2, <3>3
    <3>5. \A i, j \in 1 .. Len(success') : success'[i] = success'[j] => i = j
      BY <1>5, <2>1, <3>1 DEF IInv, CountedKept
    <3>. QED
      BY <3>4, <3>5 DEF CountedKept
  <2>. QED
    BY <2>2, <2>3
<1>9. PoolBusy'
  BY DEF CollectResult, Abort, PoolBusy
<1>10. RatioAtMostOne'
  <2>1. CASE f = None
    BY <1>1, <1>5, <2>1 DEF IInv, RatioAtMostOne
  <2>2. CASE f # None
    BY <1>1, <1>4, <1>5, <2>2 DEF IInv, RatioAtMostOne
  <2>. QED
    BY <2>1, <2>2
<1>. QED
  BY <1>6, <1>7, <1>8, <1>9, <1>10 DEF IInv

----------------------------------------------------------------------------
\* Every step of every process preserves the invariant.
LEMMA StepInv == IInv /\ [Next]_vars => IInv'
<1>. SUFFICES ASSUME IInv, [Next]_vars PROVE IInv'
  OBVIOUS
<1>1. ASSUME NEW s \in Slots, Worker(s) PROVE IInv'
  <2>1. PoolBusy' /\ RatioAtMostOne'
    BY <1>1, WorkerMain DEF IInv
  <2>2. TypeOK'
    BY <1>1, WorkerType DEF IInv
  <2>3. SlotsInv' /\ FoldersOwned' /\ CountedKept'
    BY <1>1, WorkerFolders DEF IInv
  <2>. QED
    BY <2>1, <2>2, <2>3 DEF IInv
<1>2. CASE PoolBreaks
  BY <1>2, BreakInv
<1>3. CASE Collector
  BY <1>3, LoopInv, FailureInv, ResultInv DEF Collector
<1>4. CASE UNCHANGED vars
  BY <1>4 DEF vars, mainVars, IInv, TypeOK, SlotsInv, SlotOK, FoldersOwned, InHand, CountedKept,
              PoolBusy, Futures, Vacant, At, RatioAtMostOne
<1>. QED
  BY <1>1, <1>2, <1>3, <1>4 DEF Next

(***************************************************************************)
(* The invariant holds for every pool: its conjuncts are the properties of *)
(* the run.                                                                *)
(***************************************************************************)
THEOREM Invariance == Spec => []IInv
<1>1. Init => IInv
  BY InitInv
<1>2. IInv /\ [Next]_vars => IInv'
  BY StepInv
<1>. QED
  BY <1>1, <1>2, PTL DEF Spec

(***************************************************************************)
(* The futures, the lists and the folders are well typed: in particular no *)
(* folder that is counted or removed is the name of none.                  *)
(***************************************************************************)
THEOREM TypeTheorem == Spec => []TypeOK
<1>1. IInv => TypeOK
  BY DEF IInv
<1>. QED
  BY <1>1, Invariance, PTL

(***************************************************************************)
(* run_smith_parallel reports folders that exist, compiled, are counted    *)
(* once, and are nobody's working folder any more.                         *)
(***************************************************************************)
THEOREM CountedTheorem == Spec => []CountedKept
<1>1. IInv => CountedKept
  BY DEF IInv
<1>. QED
  BY <1>1, Invariance, PTL

(***************************************************************************)
(* Every folder on disk is one worker's, holds a program that compiled, or *)
(* was left by a worker that could not remove it or died.                  *)
(***************************************************************************)
THEOREM FoldersTheorem == Spec => []FoldersOwned
<1>1. IInv => FoldersOwned
  BY DEF IInv
<1>. QED
  BY <1>1, Invariance, PTL

(***************************************************************************)
(* While run_smith_parallel waits, no process of the pool is without a     *)
(* future.                                                                 *)
(***************************************************************************)
THEOREM BusyTheorem == Spec => []PoolBusy
<1>1. IInv => PoolBusy
  BY DEF IInv
<1>. QED
  BY <1>1, Invariance, PTL

(***************************************************************************)
(* No program is counted without the attempt that made it.                 *)
(***************************************************************************)
THEOREM RatioTheorem == Spec => []RatioAtMostOne
<1>1. IInv => RatioAtMostOne
  BY DEF IInv
<1>. QED
  BY <1>1, Invariance, PTL

-----------------------------------------------------------------------------
(* How many programs are kept: those that are counted, and those of the     *)
(* workers that have returned and are not collected yet.  When the goal is *)
(* reached the worker that reached it has no future any more.              *)

KeptInv ==
    /\ \A c \in compiled : \/ \E i \in 1 .. Len(success) : success[i] = c
                           \/ \E s \in Slots : work[s].folder = c
    /\ Len(success) <= Goal
    /\ Len(success) = Goal =>
          main \in {"shutdown", "done"} /\ \E s \in Slots : work[s].pc = "idle"

\* The folders on disk are folders, and not None.
LEMMA CompiledNotNone == IInv => None \notin compiled /\ compiled \subseteq Folders
  BY SmithAssumption DEF IInv, TypeOK

\* A program that is kept stays with who keeps it.
LEMMA KeptStays ==
    ASSUME KeptInv,
           compiled' \subseteq compiled \union { work'[s].folder : s \in Slots },
           UNCHANGED success,
           \A s \in Slots : work'[s].folder = work[s].folder \/ work[s].folder \notin compiled
    PROVE  \A c \in compiled' : \/ \E i \in 1 .. Len(success') : success'[i] = c
                                \/ \E s \in Slots : work'[s].folder = c
  BY DEF KeptInv

\* The workers.
LEMMA KeptWorker ==
    ASSUME NEW s \in Slots, IInv, KeptInv, Worker(s)
    PROVE  KeptInv'
<1>. USE DEF At, Goto
<1>1. UNCHANGED <<main, success>> /\ \A t \in Slots : work[t].pc = "idle" => work'[t].pc = "idle"
  BY DEF IInv, TypeOK, Worker, CheckStop, MakeFolder, NameTaken, MakeFolderFails, SmithEnds,
     SmithFails, SmithHangs, Compile, Clean, CleanFails, mainVars
<1>2. compiled' \subseteq compiled \union { work'[t].folder : t \in Slots }
  <2>1. CASE Compile(s)
    <3>1. compiled' \subseteq compiled \union {work[s].folder} /\ work'[s].folder = work[s].folder
      BY <2>1 DEF IInv, TypeOK, Compile
    <3>. QED
      BY <3>1
  <2>2. CASE ~Compile(s)
    BY <2>2 DEF Worker, CheckStop, MakeFolder, NameTaken, MakeFolderFails, SmithEnds, SmithFails,
       SmithHangs, Clean, CleanFails
  <2>. QED
    BY <2>1, <2>2
<1>3. work'[s].folder = work[s].folder \/ work[s].folder \notin compiled
  BY CompiledNotNone DEF IInv, SlotsInv, SlotOK, Working, TypeOK, Worker, CheckStop, MakeFolder,
     NameTaken, MakeFolderFails, SmithEnds, SmithFails, SmithHangs, Compile, Clean, CleanFails
<1>4. \A t \in Slots \ {s} : work'[t] = work[t]
  BY DEF IInv, TypeOK, Worker, CheckStop, MakeFolder, NameTaken, MakeFolderFails, SmithEnds,
     SmithFails, SmithHangs, Compile, Clean, CleanFails
<1>. QED
  BY <1>1, <1>2, <1>3, <1>4, KeptStays DEF KeptInv

\* The pool.
LEMMA KeptBreaks == ASSUME IInv, KeptInv, PoolBreaks PROVE KeptInv'
<1>1. UNCHANGED <<main, success, compiled>>
  BY DEF PoolBreaks, mainVars
<1>2. \A t \in Slots : work'[t] = work[t] \/ work[t].pc \in Busy
  BY DEF PoolBreaks
<1>3. \A t \in Slots : work[t].pc \in Busy => work[t].folder \notin compiled
  BY CompiledNotNone DEF IInv, SlotsInv, SlotOK, Working, Busy
<1>. QED
  BY <1>1, <1>2, <1>3, KeptStays DEF KeptInv, Busy

\* The main process.
LEMMA KeptCollector == ASSUME IInv, KeptInv, Collector PROVE KeptInv'
<1>1. CASE Submit
  <2>1. UNCHANGED <<success, compiled>> /\ Len(success) < Goal
        /\ \A t \in Slots : work'[t] = work[t] \/ t \in Vacant
    BY <1>1 DEF Submit, Abort
  <2>2. \A t \in Vacant : work[t].folder \notin compiled
    BY CompiledNotNone DEF IInv, SlotsInv, SlotOK, Working, Vacant, At
  <2>. QED
    BY <2>1, <2>2, KeptStays DEF KeptInv
<1>2. CASE NextIterator \/ Shutdown
  BY <1>2 DEF KeptInv, NextIterator, Shutdown
<1>3. ASSUME NEW s \in Slots, CollectFailure(s) PROVE KeptInv'
  <2>1. UNCHANGED <<success, compiled>> /\ main = "wait"
        /\ \A t \in Slots \ {s} : work'[t] = work[t]
    BY <1>3 DEF CollectFailure, Abort, Drop, IInv, TypeOK
  <2>2. work[s].folder \notin compiled
    BY <1>3, CompiledNotNone DEF CollectFailure, At, IInv, SlotsInv, SlotOK, Working
  <2>3. Len(success) # Goal
    BY <2>1 DEF KeptInv
  <2>. QED
    BY <2>1, <2>2, <2>3, KeptStays DEF KeptInv
<1>4. ASSUME NEW s \in Slots, CollectResult(s) PROVE KeptInv'
  <2> DEFINE f == work[s].folder
             list == IF f = None THEN success ELSE Append(success, f)
  <2>1. /\ success' = list /\ UNCHANGED compiled /\ main = "wait"
        /\ \A t \in Slots \ {s} : work'[t] = work[t]
    BY <1>4 DEF CollectResult, Abort, Drop, IInv, TypeOK
  <2>2. Len(success) < Goal /\ Len(success) \in Nat /\ success \in Seq(Folders)
    BY <2>1, SmithAssumption DEF KeptInv, IInv, TypeOK
  <2>3. f \in Folders \union {None}
    BY DEF IInv, TypeOK
  <2>4. /\ Len(list) \in {Len(success), Len(success) + 1}
        /\ \A i \in 1 .. Len(success) : list[i] = success[i]
        /\ f # None => Len(list) = Len(success) + 1 /\ list[Len(success) + 1] = f
    BY <2>2, <2>3
  <2>5. Len(list) <= Goal
    BY <2>2, <2>4, SmithAssumption
  <2>6. \A c \in compiled' : \/ \E i \in 1 .. Len(list) : list[i] = c
                             \/ \E t \in Slots : work'[t].folder = c
    <3>. SUFFICES ASSUME NEW c \in compiled, \A t \in Slots : work'[t].folder # c
                  PROVE  \E i \in 1 .. Len(list) : list[i] = c
      BY <2>1
    <3>1. CASE \E i \in 1 .. Len(success) : success[i] = c
      BY <2>2, <2>4, <3>1
    <3>2. CASE f = c
      <4>1. f # None
        BY <3>2, CompiledNotNone
      <4>. QED
        BY <2>2, <2>4, <3>2, <4>1
    <3>. QED
      BY <2>1, <3>1, <3>2 DEF KeptInv
  <2>7. Len(list) = Goal => main' = "shutdown" /\ work'[s].pc = "idle"
    <3>. SUFFICES ASSUME Len(list) = Goal PROVE main' = "shutdown" /\ work'[s].pc = "idle"
      OBVIOUS
    <3>1. Enough(Len(list))
      BY SmithAssumption DEF Enough
    <3>2. stop' /\ main' = "shutdown" /\ work' = [work EXCEPT ![s] = Idle]
      BY <1>4, <3>1 DEF CollectResult
    <3>. QED
      BY <3>2 DEF Idle, IInv, TypeOK
  <2>. HIDE DEF list
  <2>. QED
    BY <2>1, <2>5, <2>6, <2>7 DEF KeptInv
<1>. QED
  BY <1>1, <1>2, <1>3, <1>4 DEF Collector

\* Every step.
LEMMA KeptStep == IInv /\ KeptInv /\ [Next]_vars => KeptInv'
<1>. SUFFICES ASSUME IInv, KeptInv, [Next]_vars PROVE KeptInv'
  OBVIOUS
<1>1. CASE UNCHANGED vars
  BY <1>1 DEF KeptInv, vars, mainVars
<1>. QED
  BY <1>1, KeptWorker, KeptBreaks, KeptCollector DEF Next

\* The values of a function are not more than its arguments.
LEMMA ValuesBound ==
    ASSUME NEW S, IsFiniteSet(S), NEW f, NEW T, \A y \in T : \E x \in S : f[x] = y
    PROVE  IsFiniteSet(T) /\ Cardinality(T) <= Cardinality(S)
<1> DEFINE R == { x \in S : f[x] \in T }
           g == [x \in R |-> f[x]]
<1>1. IsFiniteSet(R) /\ Cardinality(R) <= Cardinality(S)
  BY FS_Subset
<1>2. g \in Surjection(R, T)
  BY DEF Surjection
<1>3. IsFiniteSet(T) /\ Cardinality(T) <= Cardinality(R)
  BY <1>1, <1>2, FS_Surjection
<1>4. Cardinality(T) \in Int /\ Cardinality(R) \in Int /\ Cardinality(S) \in Int
  BY <1>1, <1>3, FS_CardinalityType
<1>. QED
  BY <1>1, <1>3, <1>4

\* What the invariant says of the number of programs.
LEMMA KeptCount == IInv /\ KeptInv => KeptBounded
<1>. SUFFICES ASSUME IInv, KeptInv PROVE KeptBounded
  OBVIOUS
<1> DEFINE n == Len(success)
           A == { c \in compiled : \E i \in 1 .. n : success[i] = c }
           holders == { s \in Slots : work[s].pc # "idle" }
           folder == [s \in Slots |-> work[s].folder]
           B == { c \in compiled : \E s \in holders : folder[s] = c }
<1>1. n \in Nat /\ n <= Goal /\ Goal \in Nat
  BY SmithAssumption DEF KeptInv, IInv, TypeOK
<1>2. IsFiniteSet(A) /\ Cardinality(A) <= n
  <2>. HIDE DEF n
  <2>1. IsFiniteSet(1 .. n) /\ Cardinality(1 .. n) = n
    <3>1. 1 \in Int /\ n \in Int
      BY <1>1
    <3>2. IsFiniteSet(1 .. n) /\ Cardinality(1 .. n) = IF 1 > n THEN 0 ELSE n - 1 + 1
      BY <3>1, FS_Interval, Zenon
    <3>. QED
      BY <1>1, <3>2
  <2>2. \A y \in A : \E x \in 1 .. n : success[x] = y
    OBVIOUS
  <2>3. IsFiniteSet(A) /\ Cardinality(A) <= Cardinality(1 .. n)
    BY <2>1, <2>2, ValuesBound
  <2>. QED
    BY <2>1, <2>3
<1>3. IsFiniteSet(holders) /\ Cardinality(holders) <= Cardinality(Slots)
      /\ (Cardinality(Slots) = Cardinality(holders) => Slots = holders)
  BY FS_Subset, SmithAssumption
<1>4. IsFiniteSet(B) /\ Cardinality(B) <= Cardinality(holders)
  <2>1. \A y \in B : \E x \in holders : folder[x] = y
    OBVIOUS
  <2>. QED
    BY <1>3, <2>1, ValuesBound
<1>5. compiled = A \union B
  <2>1. \A s \in Slots : work[s].folder \in compiled => s \in holders
    BY CompiledNotNone DEF IInv, SlotsInv, SlotOK, Working
  <2>. QED
    BY <2>1 DEF KeptInv
<1>6. /\ Cardinality(A) \in Nat /\ Cardinality(B) \in Nat /\ Cardinality(holders) \in Nat
      /\ Cardinality(Slots) \in Nat /\ Cardinality(A \intersect B) \in Nat
  <2>1. IsFiniteSet(A \intersect B)
    BY <1>2, FS_Intersection
  <2>. QED
    BY <1>2, <1>3, <1>4, <2>1, FS_CardinalityType, SmithAssumption
<1>7. Cardinality(compiled) = Cardinality(A) + Cardinality(B) - Cardinality(A \intersect B)
  BY <1>2, <1>4, <1>5, FS_Union
<1>8. n = Goal => Cardinality(holders) < Cardinality(Slots)
  <2>1. n = Goal => holders # Slots
    BY DEF KeptInv
  <2>. HIDE DEF holders
  <2>. QED
    BY <1>3, <1>6, <2>1
<1>. HIDE DEF n, A, B, holders
<1>9. Cardinality(compiled) <= Goal + Cardinality(Slots) - 1
  BY <1>1, <1>2, <1>3, <1>4, <1>6, <1>7, <1>8
<1>. QED
  BY <1>9 DEF KeptBounded

(***************************************************************************)
(* run_smith_parallel keeps at most one program too many for each worker   *)
(* but the one that reached the goal, for every pool, goal and failure.    *)
(***************************************************************************)
THEOREM KeptTheorem == Spec => []KeptBounded
<1>1. Init => KeptInv
  BY SmithAssumption DEF Init, KeptInv
<1>. QED
  BY <1>1, InitInv, StepInv, KeptStep, KeptCount, PTL DEF Spec
=============================================================================
