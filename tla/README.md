# p4c-lacpp in TLA+

p4c-lacpp is a fork of the P4 compiler p4c (with the open-sourced Tofino back end) to which
LACPP adds a program generator (P4Smith with a DAG skeleton), a feature extractor, a
compile-time timer for the Tofino back end, and the scripts that collect training data with
them. Most of the 15 000 files are test programs, their expected outputs, vendored code and
device descriptions; what follows is about the compiler's own logic.

This directory holds TLA+ modules of the parts with control worth checking, TLC
configurations for small instances, and proofs checked by TLAPS. `PROJECT.json` lists
components, runs, mutants, the definition-to-source map, findings, hazards and theorems.

## 1. Inventory

State, operations and interactions of each component; **M** marks what is modelled here.

| Component | State it keeps | Operations and callers | What is hard | What makes it correct |
|---|---|---|---|---|
| **M** Pass manager, `ir/pass_manager.{h,cpp}` | pass list, `early_exit_flag`, `running`, `never_backtracks_cache`; per call: iterator, program, backup stack, error count | `apply_visitor` of `PassManager`, `PassRepeated`, `PassRepeatUntil`, `PassIf`; `backtrack`; nested through the list | triggers (C++ exceptions) cross managers; restarts, rounds and early exit in any order | a trigger restarts at the nearest earlier pass that accepts it, with that pass's input; no recovery point is lost |
| **M** Tofino retry ladder, `bf-p4c/mau/table_summary.*`, `phv/mau_backtracker.*`, `TablePlacement::backtrack`, `backend.cpp` | `state`, `prev_state`, `numInvoked`, `firstRoundFit`, remembered placements, `ignoreContainerConflicts`, `limit_tmp_creation`, long branch options | PHV allocation, table placement, TableSummary, temporaries, next tables; they communicate by triggers and by a `State` three of them share | three handlers, five throwers; flags that are reset here and not there; each failure chooses another retry | no state the ladder does not know; an accepted placement fits; the climb ends |
| **M** Visitor framework, `ir/visitor.*` | `ChangeTracker` (node → visiting, visitOnce, result), `prune_flag`, `Tracker`; `flow_join_points` and the `split_link` chain of `ControlFlowVisitor` | `apply_visitor` of Modifier, Transform and Inspector, recursive through `visit_children`; `SplitFlowVisit`, `join_flows` | nodes with several parents, replaced while other parents wait; cycles; join points that wait on the call stack their own parents are suspended on | one result per node for all its parents, no copy for nothing; a join point is visited once, after its predecessors, with what all of them gathered |
| Type inference, `frontends/p4/typeChecking` | substitution, constraints | unify, solve, apply substitution | recursion, occurs check, order of constraints | a solution makes both sides equal |
| Call graph, `frontends/p4/callGraph.h` | adjacency lists | `reachable`, `dominators`, `sort`, `strongConnect` | recursion over cycles | components and order are those of graph theory |
| Def-use, predication and the other front- and mid-end rewrites | per-pass maps | one tree walk each | semantics of P4 | output program means what the input did |
| PHV allocation, `bf-p4c/phv/**` | `ConcreteAllocation`, nested `Transaction`s | slice, score, `commit` | speculative transactions on top of each other | a committed transaction is what was tried |
| Table placement, `bf-p4c/mau/table_placement.*` | partial placements, backtrack points | search | heuristics over resource tables | dependences and resources hold |
| P4Testgen, `p4tools/modules/testgen` | execution states, work list | exploration strategies | path explosion; SMT solver external | every feasible path once |
| P4Smith and DAG skeleton, `p4tools/modules/smith` | skeleton graph, scopes | random generation | termination, acyclicity | the generated dependences are those of the DAG |
| LACPP feature extractor, `backends/lacpp_be` | features | one inspector pass | – | – |
| **M** LACPP timer, `bf-p4c/lacpp_addons` | `started`, `elapsed_time` | visited at two places of the back end's list | toggles, and restarts visit it again | start and stop pair up |
| **M** LACPP collecting script, `backends/lacpp_be/scripts/code_gen_data_collect/run_smith.py` | success list, futures, stop event, folders on disk | pool of worker processes | processes, timeouts, cleaning up after failures | the folders that are kept are the ones that are counted |
| BMv2 STF harness, `backends/bmv2/bmv2stf.py`, `tools/stf` | switch process, packet queues | run, wait with timeouts | process start-up races | verdict does not depend on timing |
| Other back ends (bmv2, dpdk, ebpf, ubpf, tc, graphs, p4fmt), control-plane API, parser/preprocessor, assembler | – | pass lists and printing | – | – |

How they interact: a driver builds nested pass managers out of visitors and applies the
outermost to the program. Everything runs in one thread; the only non-local control is the
`Backtrack::trigger` exception, which the pass manager turns into a restart. The Tofino back
end uses that mechanism for its whole search of PHV allocation and table placement. Errors
are counted by a global reporter, whose count the managers compare. The collecting script
runs the generator and the compiler as child processes.

The hazards, each at its line, are in `PROJECT.json`.

## 2. Modules

| Module | Models | Composes |
|---|---|---|
| `PassManager` | `ir/pass_manager.{h,cpp}` for any tree of managers | |
| `RecoveryBlocks` | what a pass manager promises, without its backup stack and catch block | |
| `PassManagerRefines` | the refinement mapping | `PassManager` implements `RecoveryBlocks` |
| `MCPassManager` | two trees of passes for TLC | `PassManagerRefines` |
| `PassManager_proofs`, `PassManagerRefines_proofs` | theorems for every tree | TLAPS |
| `BackendRetry` | the retry ladder of the Tofino back end, and the LACPP timer in its pass list | uses, at the level of whole passes, what `PassManager` guarantees |
| `BackendRetry_proofs` | theorems for every device and both modes | TLAPS |
| `TreeVisitor` | `apply_visitor` of Transform and Modifier, and the `ChangeTracker` | |
| `MCTreeVisitor` | eight visits of three small IRs for TLC | `TreeVisitor` |
| `TreeVisitor_proofs`, `TreeVisitorKept_proofs`, `TreeVisitorResults_proofs` | theorems for every IR and visitor | TLAPS |
| `FlowJoin` | join points and branches of a `ControlFlowVisitor` Inspector | |
| `MCFlowJoin` | all IRs of four nodes and many of five for TLC | `FlowJoin` |
| `FlowJoin_proofs` | theorems for every IR without loops | TLAPS |
| `RunSmith` | `run_smith_parallel` and `run_single_smith` of the collecting script | |
| `RunSmith_proofs` | theorems for every pool and goal | TLAPS |

### PassManager

A manager whose `apply_visitor` is on the C++ stack is in `active` and owns a `frame`: the
iterator `it`, `program`, the `backup` stack of (position, program) pairs,
`early_exit_flag`, the error counts taken at the start, and for `PassRepeated` the round's
first program and the iterations. `focus` is the innermost active manager. The history
field `given` records what each position was last invoked with.

`LeafReturns` and `LeafThrows` are a pass that is no manager: it may return any program or
null, report an error, call `early_exit()` on a manager above it, or throw. `EnterManager`,
`SkipManager` (a `PassIf` whose condition is false) start a nested manager. `EndLoop` is the
end of each round, which clears `running` (line 120); then `FinishOnce`, `FinishRepeated` or
`FinishUntil` leaves the manager or begins another round, and that has to set the flag again
(lines 155 and 168, `NextRound`). The catch block is three
actions: `PopEntry` drops the entry of the pass that threw or has refused, `AskHandler`
rewinds to a candidate and asks it, `Rethrow` lets the exception leave. The program is only
its identity, because the manager never looks inside it.

Two simplifications. A manager occurs once in the tree (the code would allow sharing), so
the stack is a path. And a nested manager answers `backtrack` for the passes below it
without recording which handler said yes.

### RecoveryBlocks and PassManagerRefines

`RecoveryBlocks` is the abstract specification: nested lists of steps over one value. A fault
(`Throw`) is one atomic step. It takes everything back to the nearest earlier step that
accepts it, in the innermost open list that has one, with the input that step had; the lists
inside that one are abandoned; only a fault nobody accepts reaches the caller. Which value a
step returns and when a list ends early are left open, so it says nothing of errors, rounds
or `running`. It is a promise, not a translation, and is therefore not in the source map.

The mapping (`AbsBlock`, `AbsOpen`, `AbsFocus`, `AbsStatus`) shows an unwinding manager where
the trigger will take it: from the throw on, the catch block's steps are stutters. That is
why the refinement says something: popping an entry too many, asking in another order, or
restoring another program would make one of these steps visible, or the restart a step the
abstract specification does not have. `Inside` is the nesting of managers made transitive,
a constant so that no recursion is needed.

### BackendRetry

`pc` names the pass about to run: `phv` (from `mau_backtracker` to PHV allocation), `place`
(TableAlloc), `summary` (TableSummary), `temps` (allocation of the temporaries of table
placement) and `next` (next tables). `state` is the `State` object that TableSummary and
MauBacktracker share; `alt` is the option `alt_phv_alloc`, which chooses one of the two
ladders. The fields of MauBacktracker form the record `mau`; a placement is
named by the number of the TableSummary invocation that recorded it, so "which placement
does this flag refer to" is a comparison of numbers. What PHV allocation and table placement
achieve is left open: any number of stages, errors or none, any outcome.

The actions are the outcomes of a pass: `PhvFits`, `PhvFallsBack`, `PhvStopsReplay`,
`PhvFails`; `Place`; one `Summarise...` per case of the switch on the state in
`TableSummary::postorder(Pipe)`; `AllAllocated`, `TempsFit`, `TempsLimited`, `TempsFail`;
`LongBranchFails`, `NextTableFails`, `Finish`. Each contains the whole way of the trigger it
throws: TablePlacement is asked first and, as a side effect of refusing, resets
`ignoreContainerConflicts` (`Refused`); MauBacktracker notes the placement (`Noted`) and, when
restarted, may drop it again (`Applied`). `prev_state`, `limit_tmp_creation`, `darkSpillARA`,
`numInvoked` and the saved placements are reset exactly where the code resets them, which
for several of them is nowhere. `darkSpillARA` does have a reset, `PhvInfo::resetDarkSpillARA`,
but only `Backend::init_apply` calls it (`backend.h:90`): once per run of the back end, which is
`Init`, and not when a trigger restarts passes.

The LACPP timer is one object that stands at two places of the back end's list, around
PHV allocation and table placement, and toggles at every visit. A restart for long branches
goes back to before its first place without passing the second, so the visit that should
start it again stops it. `TimePrinted` states what is printed then.

History variables: `roundOne` (the settings with which the first round of PHV allocation
fitted, so after those `AllocatePHV` itself changed on the way), `since`
(`numInvoked` at the last restart of everything), `attempt` (how often that was),
`tempRuns` (bound only), and `again`, which flips whenever PHV allocation makes itself be
redone: the endless fallback described below would otherwise change nothing, and would be
taken for a system at rest.

### TreeVisitor

The recursion of `apply_visitor` is `stack`; `heap` holds the IR and every clone and new
node; `visited` is the `ChangeTracker`. A node is a label (its class and its other fields)
and its children, an `IR::Vector`, whose `visit_children` drops removed children. The
visitor itself is left open: in preorder and postorder it may relabel the clone, remove it,
return one of its children or a new node, prune, visit children itself, and for some labels
call `visitAgain()`. `VisitNew`, `VisitDone`, `VisitBusy` are the three answers of
`try_start`; `Return` is everything from `finish` to the caller's `visit_children` putting
the result back. `MaxEdits` bounds the visitor's changes, not the walk.

History variables: `last` (what `apply_visitor` last returned for a node), `pruned`,
`looped` (nodes met while being visited) and `dirty` (nodes during whose visit something
changed).

### FlowJoin

`stack` holds the calls in progress: the visits, and the `join_flows` calls that wait.
`Caller` is the call whose next child is visited: the innermost visit, or, while the
innermost call waits, the innermost branch with an alternative left (`Ready`, the
`split_link` chain). `points` is `flow_join_points`; `flows` holds what the visitor and each
clone has gathered, which stands for an analysis of what may have been executed before:
`clone()` copies it, `flow_merge` is the union, `flow_copy` the assignment. A wait (`WaitAt`), a
visit (`Begin`), a second meeting (`Revisit`, `LoopFound`), the end of a visit with the merge of
the alternatives (`Finish`), the return from a wait (`Resume`) and the failing assertion
(`GiveUp`) are the actions.

Against this stands what the walk is to compute: `BeforeIn` defines, from the graph alone,
which nodes may be executed before which. History variables: `met` (what a node's visitors
had gathered when it was visited) and `times` (how often that was).

### RunSmith

`main` says where `run_smith_parallel` is, `iter` which futures the current `as_completed`
iterator has still to yield, `success`, `total` and `stop` are `success_list`,
`total_runs_cnt` and `stop_ongoing_process`. main never has more futures than the pool has
processes, so `work` has one slot for a process with its future; `Worker(s)` is
`run_single_smith` there, one action per call that can fail. `disk` holds the folders. What
smith and p4c do is left open: smith may fail or hang (it is run without a timeout), p4c may
report errors or run into its timeout after having printed anything. `PoolBreaks` is a worker
process that dies, after which `ProcessPoolExecutor` fails every pending future and refuses
new ones; it is modelled from the library's documented behaviour. The event is assumed to be
inherited by the workers (start method fork, the default on Linux before Python 3.14).

History variables: `compiled` (folders whose log is a success), `abandoned` (folders that could
not be removed, or whose worker died), `fails` (bound only).

## 3. Runs

| Run | Instance | Shows |
|---|---|---|
| `engine_flat` | a handler before, and one inside, a group repeated up to twice; a trigger type one handler takes and one nobody takes | `BackupCovers`, `BackupRestoresInput`: the backup stack is what recovery needs; `TriggerEscapesOnlyUnhandled`: who lets a trigger go; `RunningInEveryRound`: the flag that the `BUG_CHECK` at line 73 wants, in every round and after every trigger; `StopsUnlessRestarted`: a manager told to stop runs only the pass it restarts at; `NoNullApply`; `UnwindingEnds` (liveness); `ImplementsPromise` (refinement) |
| `engine_deep` | three levels; the middle one is a `PassIf` that does not stop on errors and holds a `PassRepeatUntil`; two handlers compete for one trigger | `TriggerCaughtByNearest` and `ImplementsPromise` where triggers cross two managers |
| `engine_stops` | as `engine_flat` | violation: `StopsAfterError`, see findings |
| `retry` | both ladders | `SummaryStateHandled`: no `BUG` on an unexpected state; `ConflictsIgnoredOnlyInNocc`: flag and state agree though two passes own them; `SuccessFits`; `RedoUsesNoccPlacements`, `ReplaysTrivial`: remembered placements are those of this attempt; `LadderClimbs`; `TimePrinted`; `RetriesEnd`, `EndsOrFallsBackForever` (liveness) |
| `retry_fallback`, `retry_stored`, `retry_physical` | normal, normal, alternative | violations, see findings |
| `tree_visitor` | a node with two parents, one twice in the same parent, a cycle; Transform and Modifier, with and without `visitDagOnce`, `forceClone` and the forwarding of children | `MarkedIffOnStack`: no mark left behind or missing; `ResultsSettled`: no stale reference; `UntouchedKept`: no copy for nothing; `ResultsStand`; `NoLoopFound`; `WalkEnds` (liveness) |
| `flow_join` | all IRs of four nodes whose root branches, with every choice of branches, filtered nodes and settings; many of five | `OnlyWhatIsBefore`, `AllThatIsBefore`: a node is visited with exactly what may be executed before it; `JoinedOnce`: the BUGs on join points and loops; `TailsFinish`: when no wait is in vain; `WalkEnds` (liveness) |
| `flow_stuck` | one `switch` | violation: `SplitsFinish`, see findings |
| `smith_pool` | two workers, two programs wanted, two failures | `CountedKept`: what is reported is on disk and compiled, once; `KeptBounded`: the overshoot; `PoolBusy`; `FoldersOwned`: no folder is shared or deleted by another worker, none is left but for the stated reasons; `EndsUnlessHung` (liveness) |
| `smith_iterator` | the same | violation, see findings |

### Bounds

Pass manager. `MaxThrows = 2` and `MaxErrors = 1`: two triggers are what it takes for a
duplicate or stale backup entry to be used, and one error is enough to stop every manager.
`Program = {p1, p2}`: the manager compares programs only for identity. 172 000 and 660 000
states.

Retries. `DeviceStages = 3`, `GoodStages = 2`, `MaxStages = 4`: the code distinguishes at most
`GoodStages`, at most `DeviceStages`, equal to it, and above it, and each occurs.
`MaxTempRuns = 2`: the first rerun for temporaries may set `limit_tmp_creation`, the second
finds it set. At most two restarts for long branches follow from the code.
`MaxInvoked = 38` is where the model's copy of `numInvoked` would saturate. It is above
`27 + 5 * MaxTempRuns`, which `CountTheorem` proves to be a bound for every device, so nothing
depends on it. 910 000 states. `retry_fallback` alone has `MaxStages = 3`: placements that are
longer than the device would set `metaInitDisable` on ways of the same length, and without
them every shortest way to the fallback is the one finding 1 describes.

`TreeVisitor`: a second change by the visitor is what it takes for two parents to disagree
about a child, and three nodes for a node to be shared, repeated or below itself. 717 000
states. `FlowJoin`: crossed joins need four nodes, three levels of waits five. 179 000 states.

`RunSmith`: two workers, so that one can succeed, fail or hang while the other is waited for;
two failures, so that a task that has raised and a broken pool, or two tasks that have
raised, occur together; six folders are more than can exist at once. `MaxFails` bounds the
failures only until the stop event is set: how long a random generator takes to make a
program that compiles is a matter of probability, but once the event is set each worker must
end however its current attempt ends. 216 000 states.

Deadlock is not checked because a compilation, a walk and the script end.

### Fairness

`WF_vars(Next)` for the pass manager, the retries and both walks: the compiler is a single
thread and does not stop between two passes or two nodes. Nothing is assumed about
outcomes. `MaxThrows`, `MaxTempRuns` and `MaxEdits` bound what the algorithms, not the
control, could repeat for ever. In particular, that the reruns for temporaries
(`check_unallocated.cpp:35`) end is assumed by `MaxTempRuns` and shown by nothing:
`EndsOrFallsBackForever` is about the rest.

For `RunSmith`, weak fairness of the main process and of each worker: the operating system
schedules all of them. A hanging smith is not excluded; `EndsUnlessHung` says so.

### Findings

1. `retry_fallback` / `FallbackRepeatsFirstRound`. When PHV allocation fails after the first
   round had fitted, `allocate_phv.cpp:4257` says it falls back "onto the first round of PHV
   allocation". The settings are not those with which the first round fitted. In the trace
   that one fits with ARA, and the allocation redone after it (`REDO_PHV1`) fails: on its way
   it tries a last configuration, without ARA (4110-4123, on devices other than Tofino 1),
   for which line 4130 turns `darkSpillARA` off, and nothing turns it on before the back end
   starts anew. On longer paths `table_summary.cpp:741` has turned it off, and
   `metaInitDisable`, which MauBacktracker ORs into what it has, stays on.
2. `retry_stored` / `PlacementIsStored`. `mau_backtracker.h:56`: `has_table_placement` is "true
   if a valid table placement is stored in tables". `tables` is cleared in two places that
   leave the flag.
3. `retry_physical` / `PhysicalStagesAreCurrent`. `backend.cpp` takes `numInvoked != 0` to mean
   the second trivial allocation, the one that uses the physical stages of a placement; after
   a restart for long branches it is the first, and there is no placement.
4. `engine_stops` / `StopsAfterError`. `pass_manager.h:47`: `stop_on_error` "stops compilation
   after first pass that signals an error". If that pass then throws a trigger that is
   caught, one more pass is applied.
5. `smith_iterator` / `IteratorUpdated`. `run_smith.py:123` breaks "so the as_completed(futures)
   iterator will be updated" after resubmitting; the `except` branch resubmits without a
   break, so the result of that task is not seen until all older futures have ended.
6. `flow_stuck` / `SplitsFinish`. `visitor.cpp:716` asserts that whoever waits at a join point
   waits until it has been visited. On `switch { 1: {j; k}  2: {k}  3: {j} }`, where `j` always
   comes before `k`, branch 1 waits at `j`, from within that wait branch 2 waits at `k`, and
   `k`'s other parent is branch 1, suspended below. `TailsFinish` shows when it cannot
   happen: if nothing follows a join point in sequence.

Met while modelling, and stated in a property rather than as a finding, because no document
says otherwise:

- The loop `EndsOrFallsBackForever` allows is the fallback of finding 1: if the repeated
  allocation fails, `didFirstRoundFit()` still holds and the same trigger is thrown again.
- `TimePrinted`: after one restart for long branches the time printed is that of the attempt
  that was given up, and the timer is left running.
- `PassRepeatUntil` dereferences a null program (run `engine_deep` reaches mode `crashed` and
  therefore does not check `NoNullApply`). No manager of the repository is a
  `PassRepeatUntil`.
- `BackwardsCompatibleBroken` gathers less than may be executed before (`AllThatIsBefore`
  excepts it); its name says so. The comments at lines 31
  and 49 of `bf-p4c/ir/control_flow_visitor.h` describe an order of visits that
  `join_flows` no longer has.
- Below a shared node that is filtered out and visited each time, a join point is met more
  often than it counted (`visitor.cpp:668` has a FIXME), so the properties on join points
  assume that all shared nodes are join points, or that the walk visits each node once.

## 4. Proofs

Checked by `tlapm` for every value of the constants allowed by the `ASSUME`s of the modules:
`TreeAssumption`, `ParameterAssumption` (each nested manager has one parent, which lists
it), `NestAssumption` (what `Inside` is), `BoundAssumption` and `SmithAssumption` (bounds are
natural numbers, a goal of at least one, a name that is no folder), `GraphAssumption` (the
children of a node are nodes), `WalkAssumption` (children have higher
numbers: no loops; every node but the root is a child: an IR is what its root reaches).

`PassManager_proofs`
- `TypeCorrect`: `[](TypeOK /\ PathOK)`. `PathOK` is the strengthening the induction needs:
  each active manager but the root is the pass its parent is currently at, and `focus` is
  the end of that path.
- `RunningTheorem`: `RunningInEveryRound`. By `PathOK` a manager that waits for a nested one, or
  unwinds, stands inside its list; at its end a manager is innermost, and leaves that place
  only through `EndLoop` and then by returning, which ends its being active, or by
  `NextRound`, which must have set the flag.
- `BackupTheorem`, `RestoresTheorem`: `BackupCovers`, `BackupOrdered`, `BackupRestoresInput`. They
  are not inductive. `BackupInv` adds that a manager waiting for a nested one has an entry
  for it, that a pass already on the stack is about to be invoked with what it had before,
  and, in the catch block, that the passes from `it` to `origin` have all refused the trigger.
- `CaughtTheorem`, `EscapedTheorem`: the two action properties, from `BackupInv`: a popped
  candidate is the nearest one because the stack is ordered, and none is missed because it
  covers every pass that can catch.
- `StopsTheorem`: `StopsUnlessRestarted`; a manager that was told to stop has either ended or
  just been restarted, and then its top entry is the pass it is at.
- `NullTheorem`: `NoNullApply`, for trees without a `PassRepeatUntil`: a null program occurs
  only at the end of a list, and what a trigger restores was given to a pass.

`PassManagerRefines_proofs`
- `RefinementTheorem`: `Spec => Promise!Spec`. One lemma per action maps it to an abstract step
  or a stutter; the cases of the catch block rest on `BackupInv`, which says that the entry
  that will be used is the one the mapping already shows.

`BackendRetry_proofs`
- `Invariance`: `[]IInv`, with `IInv == StateInv /\ FlagInv /\ SuccessFits`. Before TableSummary
  runs the state is one of the mode's own, after it a verdict; `prevState`, which
  `limit_tmp_creation` puts back, is never a verdict and never one that ignores conflicts
  once a verdict stands; TablePlacement's flag is off whenever PHV allocation is about to
  run.
- `HandledTheorem`, `ConflictsTheorem`, `SuccessTheorem`: the properties of the run, from it.
- `LadderTheorem`: `LadderClimbs`, from `IInv`, one step per action: `Rank` of the state drops
  only in the excused steps.
- `TimeTheorem`: `TimePrinted`; the timer runs exactly in the attempts with an odd number.
- `CountTheorem`: `numInvoked <= 27 + 5 * MaxTempRuns`. A potential, made of the rank of the
  state and of what is never given back once used (the long branch options, the fixed
  retries of the alternative ladder, the reruns for temporaries), falls with each of them.
- `TypeTheorem`, `RedoTheorem`, `ReplaysTheorem`: for `MaxInvoked` above that bound. `FieldInv` says
  for each state and `pc` which placement each of the remembered fields names.

`TreeVisitor_proofs`
- `MarksTheorem`: `MarkedIffOnStack`. The invariant says that each activation owns the mark of
  its node and of the extra node its preorder returned, that no two own the same, and
  that nothing else is marked.
- `ResultsStandTheorem`: `ResultsStand`, from the same invariant: `finish` is only called for
  nodes that are marked, and a result that stands is not.

`TreeVisitorKept_proofs`
- `TypeTheorem`: `TypeOK`. To say that a child's result is put back where the child stood, the
  invariant `TInv` needs `Private`: the clone an activation works on is known to no one else
  until the visit returns (no node has it as a child, the tracker neither lists it nor gives
  it as a result, no other activation has it). So a step changes no clone but the innermost,
  and the children the outer activations wait for stay where they are.
- `UntouchedTheorem`: `UntouchedKept`. `KInv` adds `Clean`, which says of each activation that its
  clone still equals its node unless something changed while it was on the stack, and such
  a change counts for every activation below it; and `SameOutside`, which says that what a
  finished visit returned for an untouched node is that node.

`TreeVisitorResults_proofs`
- `NoLoopTheorem`: `NoLoopFound`. An IR without cycles can be numbered so that children come after
  their parents, and `LInv` says that every node the walk makes can be given a number too:
  children still come after their parents, and what a node became, what preorder returned
  and the clone come no earlier than the node. A child that is about to be visited then comes
  after every node that is marked, so it is none of them. A clone or a new node gets the
  number of the node whose children it takes.
- `SettledTheorem`: `ResultsSettled`, for every IR, with cycles or without. What the run checks of
  the last returned results is not inductive: a result is put into a clone, and the clone
  becomes a result later. `SInv` says of each node in the tracker's results, in the part of a clone
  that has been visited and in what was last returned that it is `Fine`: later visits cannot
  change it (`Calm`), nor its children, unless it was pruned or cut off as a loop. It also says
  that a node visited for the first time is still its own result, which is why a clone that
  is not finished yet is nobody's result, and that `prune_flag` is saved and put back along the
  stack (`FlagOK`), so that an activation that visits its children was not told to prune. The
  ownership of marks and of clones, from the two modules before, is what keeps a step of the
  innermost activation from touching anything that is fine already.

`FlowJoin_proofs`
- `TypeTheorem`: every call is one of a visitor that exists, and has one for each child.
- `JoinedOnceTheorem`: `JoinedOnce`. `JoinInv` counts edges: the children of a node are called one
  after the other by the one call that visits it, so each edge of the IR is used once;
  a join point's `count` is the number of unused edges to it, less one; and a node in the
  tracker has none. So a call always meets a node that is not in the tracker, and visits it
  with its last edge.
- `TailsTheorem`, `OnlyTheorem`, `AllTheorem`: `TailsFinish`, `OnlyWhatIsBefore`, `AllThatIsBefore`.
  `Below` and `BeforeIn` are recursive functions of a number of steps. Induction over data is out
  of the provers' reach as a rule, but not by least elements: a set of natural numbers with
  a member has a least one (`LeastOf`), so a least step or node at which something fails can
  be picked and refuted. From this come that the recursive functions are what their
  equations say (`ReachedSteps`), and that a set which grows by at least one member in each
  step, and has no more than that many, is closed at the last (`ReachedClosed`). What remains
  uses only that `Up(w, p)` is the least closed set that holds the point `p`.
  Three invariants describe the stack. `StackInv`: who shares a visitor with a call above has
  handed it to the child whose call that is, and alternatives share none. `SeenInv`: what was
  called is in the tracker or waits; what is in the tracker as busy has its call on the stack, above
  those that wait for it; a join point is counted down below zero exactly when visited. `TailInv`:
  above a call that goes on in sequence there is only what is below the child it called last,
  and nobody there waits. Hence when `GiveUp` is about to fire some call still has a child to visit
  (`Unreached`: else every edge to the least unvisited node would be used), and as join points
  come last that call is a branch, which `Ready` offers.
  `FlowInv` then says what each visitor has gathered, up to inclusion from above (`Once`: nothing
  else) and from below (`Full`: nothing less): a call begins with what was before its node, hands
  that to each alternative it has not visited, and finds in the visitor of a child what the
  child leaves behind, unless that child's call is still above; a join point holds what came
  along the edges used so far. It needs no record of which visitor did what: a visitor that
  is written belongs to the innermost call, and by `StackInv` the calls below that have it too
  are those that wait for that very child.

`RunSmith_proofs`
- `Invariance`: `[]IInv`, which adds `SlotsInv` to the properties: where a worker is says whether
  it has a folder, and whether that folder is known to hold a program.
- `TypeTheorem`, `CountedTheorem`, `FoldersTheorem`, `BusyTheorem`, `RatioTheorem`: from it.
- `KeptTheorem`: `KeptBounded`. Every compiled folder is counted or is held by a slot, and the
  slot whose result reached the goal holds none; the rest is about cardinalities.

Proved but not run, because they follow from what is: `BackupOrdered`, `RatioAtMostOne`.

Model-checked only: all liveness (`UnwindingEnds`, `RetriesEnd`, `EndsOrFallsBackForever`,
`EndsUnlessHung`, `WalkEnds`), which needs fairness and `ENABLED`. Every invariant and action
property of the passing runs is proved.

## 5. Not modelled, and why

The models cover the parts of the repository whose correctness is a matter of control:
exceptions and restarts, shared mutable state, recursion over shared graphs, processes. That
is a small share of its lines. Most of the rest falls into these groups.

- Rewriting passes of front, mid and back ends, def-use, predication, type inference: their
  correctness is that of P4's semantics. A model of them would need that semantics, and
  without it would restate a tree walk; the walk itself is `TreeVisitor`.
- The allocation and placement algorithms of the Tofino back end (`phv/`, `mau/`,
  some hundred thousand lines): heuristics over the resources of a device. Any outcome is
  allowed instead. The nested `Transaction`s of PHV allocation are maps that are merged on
  commit and dropped otherwise; nothing else can happen to them.
- The call graph (Tarjan, dominators), the exploration strategies of P4Testgen, P4Smith: textbook
  or random algorithms in one thread, which unit tests reach.
- Parsers, printers, serializers, code generators, the assembler: text and tables.
- The STF harness: the switch it drives is not in the repository.
- The other modes of the collecting script: one task per file.

In the components that are modelled: `removePasses`, `listPasses` and the debug hooks of
`ir/pass_manager.*`, which change the list before a run or only observe it;
`MauBacktracker::maxStage`, which only `happensBefore` and `numStages` read
(`mau_backtracker.cpp:161`, `176`), and those nobody calls; of the visitors,
`revisit_visited`, switching `visitDagOnce` from node to node, vectors returned for a node by
preorder and postorder, and unreachable flows (`setUnreachable`).
