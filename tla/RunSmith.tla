------------------------------ MODULE RunSmith ------------------------------
(***************************************************************************)
(* The script that collects training programs (run_smith.py): a pool of    *)
(* worker processes, each generating and compiling programs in folders of  *)
(* its own until one compiles, and a main process that collects the        *)
(* folders until it has enough, then stops the pool.                       *)
(*                                                                         *)
(* main never has more futures than the pool has processes, so a slot is a *)
(* process together with the future it runs; a future that is collected    *)
(* and replaced leaves its slot to the new one.  smith and p4c are child   *)
(* processes whose outcome is left open.                                   *)
(***************************************************************************)
EXTENDS Integers, Sequences, FiniteSets

CONSTANTS
    Slots,          \* num_workers processes
    Goal,           \* num_repetitions
    Folders,        \* names of folders
    None,           \* no folder
    MaxFails        \* bound on the failures before the goal is reached

ASSUME SmithAssumption ==
    /\ IsFiniteSet(Slots) /\ Slots # {}
    /\ Goal \in Nat \ {0}
    /\ None \notin Folders
    /\ MaxFails \in Nat

VARIABLES
    work,       \* slot -> its future: where run_single_smith is, folder, attempts
    main,       \* where run_smith_parallel is
    iter,       \* futures the as_completed iterator has not yielded yet
    success,    \* success_list
    total,      \* total_runs_cnt
    stop,       \* stop_ongoing_process
    broken,     \* the ProcessPoolExecutor has lost a process
    disk,       \* folders that exist
    compiled,   \* those whose log has "0 errors" and was not cut off (history)
    abandoned,  \* those whose worker gave up on cleaning (history)
    fails       \* failures before stop (bound only)

mainVars == <<main, iter, success, total, stop>>
vars == <<work, mainVars, broken, disk, compiled, abandoned, fails>>

Busy == {"loop", "mkdir", "smith", "p4c", "clean", "hung"}
Finished == {"returned", "raised"}

\* A future as submitted, and a slot without one.
Fresh == [pc |-> "loop", folder |-> None, tries |-> 0]
Idle == [pc |-> "idle", folder |-> None, tries |-> 0]

At(s, pc) == work[s].pc = pc
Goto(s, pc) == work' = [work EXCEPT ![s].pc = pc]

\* Bad luck is bounded only as long as the script needs successes.
BadLuck ==
    /\ stop \/ fails < MaxFails
    /\ fails' = IF stop THEN fails ELSE fails + 1

Init ==
    /\ work = [s \in Slots |-> Idle]
    /\ main = "fill"
    /\ iter = {}
    /\ success = << >>
    /\ total = 0
    /\ stop = FALSE /\ broken = FALSE
    /\ disk = {} /\ compiled = {} /\ abandoned = {}
    /\ fails = 0

----------------------------------------------------------------------------
(* run_single_smith, in the process of slot s.                             *)

StopIgnored(s) == FALSE         \* mutant: the event is not looked at
StopSeen(s) == stop

\* The head of the loop.
CheckStop(s) ==
    /\ At(s, "loop")
    /\ IF StopSeen(s)
       THEN work' = [work EXCEPT ![s].pc = "returned", ![s].folder = None]
       ELSE Goto(s, "mkdir")
    /\ UNCHANGED <<mainVars, broken, disk, compiled, abandoned, fails>>

NameExistOk == Folders          \* mutant: makedirs(folder_name, exist_ok=True)
NameOrNone ==                   \* mutant: makedirs fails and nobody notices
    (Folders \ disk) \union {None}
NewName == Folders \ disk

MakeFolder(s) ==
    /\ At(s, "mkdir")
    /\ \E f \in NewName :
          /\ disk' = disk \union {f}
          /\ work' = [work EXCEPT ![s].pc = "smith", ![s].folder = f, ![s].tries = @ + 1]
    /\ UNCHANGED <<mainVars, broken, compiled, abandoned, fails>>

\* FileExistsError: try another name.
NameTaken(s) ==
    /\ At(s, "mkdir") /\ disk # {}
    /\ BadLuck
    /\ Goto(s, "loop")
    /\ UNCHANGED <<mainVars, broken, disk, compiled, abandoned>>

\* Any other error of makedirs is not caught.
MakeFolderFails(s) ==
    /\ At(s, "mkdir")
    /\ BadLuck
    /\ Goto(s, "raised")
    /\ UNCHANGED <<mainVars, broken, disk, compiled, abandoned>>

SmithEnds(s) ==
    /\ At(s, "smith")
    /\ Goto(s, "p4c")
    /\ UNCHANGED <<mainVars, broken, disk, compiled, abandoned, fails>>

\* smith fails (check=True), or the log cannot be written.
SmithFails(s) ==
    /\ At(s, "smith")
    /\ BadLuck
    /\ Goto(s, "clean")
    /\ UNCHANGED <<mainVars, broken, disk, compiled, abandoned>>

\* smith is run without a timeout.
SmithHangs(s) ==
    /\ At(s, "smith")
    /\ Goto(s, "hung")
    /\ UNCHANGED <<mainVars, broken, disk, compiled, abandoned, fails>>

AcceptLog(zeroErrors, timedout) == zeroErrors    \* mutant: the timeout is not looked at
Accept(zeroErrors, timedout) == zeroErrors /\ ~timedout

\* p4c ends or is killed after its timeout; the log is searched for "0 errors".
Compile(s) ==
    /\ At(s, "p4c")
    /\ \E zeroErrors, timedout \in BOOLEAN :
          /\ compiled' = IF zeroErrors /\ ~timedout
                         THEN compiled \union {work[s].folder} ELSE compiled
          /\ IF zeroErrors /\ ~timedout THEN UNCHANGED fails ELSE BadLuck
          /\ Goto(s, IF Accept(zeroErrors, timedout) THEN "returned" ELSE "clean")
    /\ UNCHANGED <<mainVars, broken, disk, abandoned>>

\* shutil.rmtree, and the next attempt.
CleanUp(s) == disk \ {work[s].folder}
Clean(s) ==
    /\ At(s, "clean")
    /\ disk' = CleanUp(s)
    /\ work' = [work EXCEPT ![s].pc = "loop", ![s].folder = None]
    /\ UNCHANGED <<mainVars, broken, compiled, abandoned, fails>>

\* rmtree is outside the try: its exceptions end the task.
CleanFails(s) ==
    /\ At(s, "clean")
    /\ BadLuck
    /\ abandoned' = abandoned \union {work[s].folder}
    /\ work' = [work EXCEPT ![s].pc = "raised", ![s].folder = None]
    /\ UNCHANGED <<mainVars, broken, disk, compiled>>

\* A process dies: the executor fails every pending future and ends the others.
PoolBreaks ==
    /\ ~broken
    /\ \E s \in Slots : work[s].pc \in Busy
    /\ BadLuck
    /\ broken' = TRUE
    /\ work' = [s \in Slots |-> IF work[s].pc \in Busy
                                THEN [work[s] EXCEPT !.pc = "raised", !.folder = None]
                                ELSE work[s]]
    /\ abandoned' = abandoned \union
            ({ work[s].folder : s \in { t \in Slots : work[t].pc \in Busy } } \ {None})
    /\ UNCHANGED <<mainVars, disk, compiled>>

----------------------------------------------------------------------------
(* run_smith_parallel.                                                     *)

Vacant == { s \in Slots : At(s, "idle") }
Futures == Slots \ Vacant

\* submit() raises: the exception leaves run_smith_parallel.
Abort == main' = "crashed" /\ UNCHANGED <<iter, stop>>
Drop(s) == work' = [work EXCEPT ![s] = Idle]

\* The head of the outer while, and the inner one; submit raises in a broken pool.
Submit ==
    /\ main = "fill"
    /\ Len(success) < Goal
    /\ IF broken /\ Vacant # {} THEN Abort /\ UNCHANGED work
       ELSE /\ work' = [s \in Slots |-> IF s \in Vacant THEN Fresh ELSE work[s]]
            /\ iter' = Slots
            /\ main' = "wait"
            /\ UNCHANGED stop
    /\ UNCHANGED <<success, total, broken, disk, compiled, abandoned, fails>>

\* The iterator has yielded everything it was made for.
NextIterator ==
    /\ main = "wait"
    /\ iter = {}
    /\ main' = "fill"
    /\ UNCHANGED <<iter, success, total, stop, work, broken, disk, compiled, abandoned, fails>>

EnoughPlus(n) == n > Goal       \* mutant: one success too many
Enough(n) == n >= Goal

\* A future has returned: count it; stop everybody or submit another one, and leave
\* the iterator.
CollectResult(s) ==
    /\ main = "wait"
    /\ s \in iter /\ At(s, "returned")
    /\ LET list == IF work[s].folder = None THEN success
                   ELSE Append(success, work[s].folder)
       IN  /\ success' = list
           /\ total' = total + work[s].tries
           /\ IF ~Enough(Len(list)) /\ broken THEN Abort /\ Drop(s)
              ELSE /\ iter' = {}
                   /\ stop' = Enough(Len(list))
                   /\ main' = IF stop' THEN "shutdown" ELSE "fill"
                   /\ work' = [work EXCEPT ![s] = IF stop' THEN Idle ELSE Fresh]
    /\ UNCHANGED <<broken, disk, compiled, abandoned, fails>>

NotRetried == Idle              \* mutant: the failed task is only removed
Retried == Fresh

\* A future has raised an exception: submit another one, and go on with the iterator.
CollectFailure(s) ==
    /\ main = "wait"
    /\ s \in iter /\ At(s, "raised")
    /\ IF broken THEN Abort /\ Drop(s)
       ELSE /\ iter' = iter \ {s}
            /\ work' = [work EXCEPT ![s] = Retried]
            /\ UNCHANGED <<main, stop>>
    /\ UNCHANGED <<success, total, broken, disk, compiled, abandoned, fails>>

\* The end of the with block: shutdown(wait=True).
Shutdown ==
    /\ main = "shutdown"
    /\ \A s \in Slots : work[s].pc \notin Busy
    /\ main' = "done"
    /\ UNCHANGED <<iter, success, total, stop, work, broken, disk, compiled, abandoned, fails>>

----------------------------------------------------------------------------
Worker(s) ==
    \/ CheckStop(s)
    \/ MakeFolder(s) \/ NameTaken(s) \/ MakeFolderFails(s)
    \/ SmithEnds(s) \/ SmithFails(s) \/ SmithHangs(s)
    \/ Compile(s)
    \/ Clean(s) \/ CleanFails(s)

Collector ==
    \/ Submit
    \/ NextIterator
    \/ \E s \in Slots : CollectResult(s) \/ CollectFailure(s)
    \/ Shutdown

Next == (\E s \in Slots : Worker(s)) \/ PoolBreaks \/ Collector

Spec == Init /\ [][Next]_vars

\* Every process is scheduled by the operating system; smith may hang, p4c is
\* killed after its timeout.
FairSpec == Spec /\ WF_vars(Collector) /\ \A s \in Slots : WF_vars(Worker(s))

----------------------------------------------------------------------------
(* Properties.                                                             *)

\* Types of the futures, the lists and the folders.
TypeOK ==
    /\ work \in [Slots -> [pc : Busy \union Finished \union {"idle"},
                           folder : Folders \union {None}, tries : Nat]]
    /\ main \in {"fill", "wait", "shutdown", "done", "crashed"}
    /\ iter \subseteq Slots
    /\ success \in Seq(Folders)
    /\ total \in Nat
    /\ stop \in BOOLEAN /\ broken \in BOOLEAN
    /\ disk \subseteq Folders /\ compiled \subseteq Folders /\ abandoned \subseteq Folders
    /\ fails \in Nat

(***************************************************************************)
(* What the script reports is on disk: the folders of success_list are     *)
(* distinct, exist, hold a program that compiled, and no worker is still   *)
(* at work in them.                                                        *)
(***************************************************************************)
CountedKept ==
    /\ \A i \in 1 .. Len(success) :
          /\ success[i] \in disk \intersect compiled
          /\ \A s \in Slots : work[s].folder # success[i]
    /\ \A i, j \in 1 .. Len(success) : success[i] = success[j] => i = j

(***************************************************************************)
(* The overshoot is bounded: when the goal is reached each other worker    *)
(* may keep one more program, which nobody counts.                         *)
(***************************************************************************)
KeptBounded == Cardinality(compiled) <= Goal + Cardinality(Slots) - 1

(***************************************************************************)
(* While main waits, every process of the pool has a future, whichever     *)
(* futures have failed or have been replaced.                              *)
(***************************************************************************)
PoolBusy == main = "wait" => Futures = Slots

\* The folders the workers are working in, or have just returned.
InHand == { work[s].folder : s \in Slots } \ {None}

(***************************************************************************)
(* Every folder on disk is the working folder of exactly one worker, holds *)
(* a program that compiled, or was left behind by a worker that could not  *)
(* remove it or died; only one worker writes and removes it.               *)
(***************************************************************************)
FoldersOwned ==
    /\ disk = compiled \union abandoned \union InHand
    /\ \A s, t \in Slots : work[s].folder = work[t].folder => s = t \/ work[s].folder = None
    /\ compiled \intersect abandoned = {}

\* The success ratio the script prints is at most one.
RatioAtMostOne == Len(success) <= total

(***************************************************************************)
(* The script ends, unless a smith hangs or the pool breaks: the event     *)
(* reaches every worker after its current attempt.                         *)
(***************************************************************************)
EndsUnlessHung ==
    <>(main \in {"done", "crashed"} \/ \E s \in Slots : At(s, "hung"))

(***************************************************************************)
(* run_smith.py:123 "break here so the as_completed(futures) iterator will *)
(* be updated": main waits for every future it has submitted.              *)
(***************************************************************************)
IteratorUpdated == main = "wait" => iter = Futures
=============================================================================
