# QSYM: a TLA+ model of the concolic executor and its fuzzing loop

QSYM is a concolic execution engine tailored for hybrid fuzzing. A Pin tool
(`src/qsym/pintool`) runs the program under test on one input file, follows the
input's bytes through registers and memory as symbolic expressions, and at each
branch that depends on them asks z3 for an input that goes the other way. A
Python driver (`src/qsym/afl.py`) runs beside AFL: it takes files from AFL's
queue, runs the Pin tool on them under a time limit, and puts those new inputs
that cover something new where AFL picks them up.

This directory holds modules that model the parts of QSYM whose correctness is
about state, order and failure, TLC configurations that check them on small
instances, and TLAPS proofs of the results that matter most for every instance.

## 1. Inventory

| Component | State | Operations | What makes it hard |
| --- | --- | --- | --- |
| Dependency forest (`dependency.h`) | `forest_`: byte offset to shared tree; trees hold constraints and offsets | `find`, `addNode` (merges trees and redirects entries) | pointers shared between entries; any order of merges |
| Solver (`solver.cpp`) | `dep_forest_`, range sets, z3's assertion stack, `last_interested_` | `addJcc`, `addAddr`, `addValue`, `solveAll` and what they call | z3 may give any model, or time out at any check; queries are slices of the path |
| Range sets (`third_party/llvm/range.h`, `Expr::addConstraint`) | two sets of intervals for each expression | six intersections, `getRangeConstraint` | overflow, ranges that wrap, iterator state kept between calls |
| Expression cache (`expr_cache.cpp`) | a hash set and a queue of weak references | `find`, `insert`, `shrink`, `cleanup` | entries expire while they are cached |
| Trace map (`afl_trace_map.cpp`) | `trace_map_`, `virgin_map_`, `context_map_`, their file | `isInterestingBranch`, `commit`, `import` | the process is killed at any time; counters and hashes wrap and collide |
| Lazy eflags (`flags.cpp`) | one record for each kind of operation, a ring of kinds, `valid_set_` | `set`, `invalidate`, `computeJcc` | partial writers, a search backwards around a ring |
| Fuzzing loop (`afl.py`, `run_qsym_afl.py`) | `AFLExecutorState`, pickled at exit; the queue | `run`, `run_file`, `check_crashes`, `cleanup`, start | AFL runs concurrently; Ctrl-C, exceptions and kills at every step |
| Test case minimizer (`minimizer.py`) | two coverage maps and their files | `check_testcase` | saved before the input is |
| Pintool executor (`executor.py`) | output directories | `run` | time limit |
| Shadow registers (`thread_context.*`) | an expression for each byte of each register | read, write and clear of partial registers, address expressions | overlap, 32-bit writes that clear the upper half, concretization |
| Shadow memory (`memory.*`, `allocation.cpp`) | `page_table_`, `brk_page_`, `brk_end_`, `off_` | get, set, clear; mmap, munmap, mremap, brk | pages shared, freed or left uninitialised by sequences of calls |
| System calls (`third_party/libdft`) | `kFdSet`, which descriptors carry the input | hooks of open, read, lseek, dup, close, mmap, ... | sequences of calls, failed calls, calls without a hook |
| Call stack manager (`call_stack_manager.cpp`) | call stack, hash, bitmap of counters | `visitCall`, `visitRet`, `visitBasicBlock`, `updateBitmap` | calls and returns that do not match, counters that wrap |
| Expressions and their builders (`expr.h`, `codegen/expr_builder.cpp`, `codegen/gen_expr_builder.py`) | none but the cache | a chain of builders, each with rewriting rules | rules that call one another; widths; pruning |
| Instruction handlers (`instrument.cpp`) | none of their own | one for each instruction form | what a handler forgets is believed from then on |
| Decoding (`analysis.cpp`, `analysis_instruction.cpp`) | none | attaches a handler to each opcode and operand form | forms that get the wrong handler or none |

How they interact: an instruction handler reads and writes shadow registers and
memory, records its flags in `Eflags`, and calls the solver at branches
(`addJcc`), indirect jumps (`solveAll`), symbolic addresses (`addAddr`) and
concretisations (`addValue`). `addJcc` asks the trace map whether the branch is
interesting. The solver collects constraints in the range sets of canonical
expressions and in the dependency forest, and builds each query from the trees
of the bytes involved. New inputs are files in the output directory of the run;
the fuzzing loop filters them through the minimizer and queues them.

The Pin tool is sequential as far as these components are concerned (`Solver`
and the expression builder are globals used by one traced thread); concurrency
is between AFL, the driver, the Pin tool and whoever kills them. What is hard
inside the Pin tool is that two machines have to stay in step: the processor, and
the shadow that predicts what the processor would do with another input.

`PROJECT.json` lists the components with what is and is not modelled, and the
hazards, each at the line where it bites.

## 2. Modules

| Module | Models | Checked by | Proved in |
| --- | --- | --- | --- |
| `ConstraintSlices` | what `DependencyForest` promises (abstract) | through the next one | |
| `DependencyForest` | trees, entries, one step for each iteration of `addNode` | `MCDependencyForest` | `DependencyForestProofs` |
| `Solver` | `Solver` over `ConstraintSlices`, z3 as environment | `MCSolver` | `SolverProofs` |
| `RangeSet` | `RangeSet`, `Expr::addConstraint`, `getRangeConstraint` | `MCRangeSet` | `RangeSetProofs` |
| `ExprCache` | `ExprCache` under `CacheExprBuilder::findOrInsert` | `MCExprCache` | `ExprCacheProofs` |
| `TraceMap` | `AflTraceMap` and its file over several runs | `MCTraceMap` | `TraceMapProofs` |
| `FlagTables` | the kinds of operations and conditions, and the flags of each | through the next one | |
| `Eflags` | the ring and the search of `Eflags`, over time stamps | `MCEflags` (two configurations) | `EflagsProofs` |
| `AflExecutor` | `AFLExecutor`, `TestcaseMinimizer`, their files, AFL | `MCAflExecutor` (two configurations) | `AflExecutorProofs` |
| `BitVectors` | the meaning of each kind of expression, as a value for each input | through `Concolic` | |
| `ThreadContext` | shadow registers, addresses, concretization | through `Concolic` | |
| `FlagExprs` | the formula of each flag and condition | through `Concolic` | |
| `Instrument`, `InstrumentVector` | the handlers of `instrument.cpp`: integer instructions; SSE and AVX | through `Concolic` | |
| `Decoding` | opcode families and operand forms of `analysis*.cpp` | through `Concolic` | |
| `Processor` | what the processor does (external) | through `Concolic` | |
| `Concolic` | the composition: one action for each `analyze...` function | `MCConcolic` | |
| `ExprRules` | the expression tree and every rule of every builder | through `ExprBuilder` | |
| `CallStackManager` | `CallStackManager` | through `ExprBuilder` | |
| `ExprBuilder` | the builder under a program that makes expressions, calls and returns | `MCExprBuilder` | |
| `Memory` | `Memory`, the hooks of system calls, and the kernel beside them | `MCMemory` | `MemoryProofs` |

Definitions keep the names of the code. Names that end in a word such as `Not`,
`Any` or `Again` and whose comment begins with "Mutant" are deliberately wrong
variants of the definition that follows; no specification uses them. Each
property is paired in `PROJECT.json` with one of them that violates it.

**DependencyForest.** A tree is named by the offset whose `find` created it.
`nodes_` is kept as the number of occurrences of each constraint. `addNode` is a
begin step, one step for each dependency in increasing order (first tree, same
tree, or another tree that is merged) and an end step. The refinement mapping
shows `ConstraintSlices` the merged slice from the begin step on.

**Solver.** An expression has a set of bytes it depends on and a value for each
input; a constraint says that an expression's value is in a set. This covers
range constraints, relational expressions and their negations. A formula is kept
as the inputs on which it is true, since a bound may compare the expression with a
term: `getPossibleValue` evaluates without model completion, so the bytes that the
query does not name stay symbols, and `lo` and `hi` are terms, which are numbers
only if no byte is left. `frames` is z3's
assertion stack. Each `check()` is a step that ends sat with any model (bytes
outside the query keep the current input's value, as in `getConcreteValues`),
unsat if there is none, or unknown. The observer `path` collects the constraints
of the path; `lost` those that `addAddr` gives up on. The debug build
(`CONFIG_TRACE`) is not modelled.

**RangeSet.** `Half` is `2^(bits - 1)`; signed and unsigned numbers wrap at the
width. A constraint is added only if it holds for the current input, because the
program took that branch; `input` stands for the expression's value on it.

**ExprCache.** Expressions have an operator and one operand, are owned by the
program (`roots`) or by expressions that use them, and expire when the last
owner goes. The hash table is a set: `WeakExprRefEqual` decides, and what it
finds is unique (`OneLivePerForm`). `SweepFactor` is 16 in the code.

**TraceMap.** `HashPc` and `ContextHash` are constants. A run starts from the
file, goes through branches, and may be stopped between any two steps; between
`commit`'s open and its last write the file is `Torn`, which `import` reads as
empty. Context sensitivity is on and a bitmap file is given, as in hybrid mode.

**Eflags.** Operands are abstracted to the time stamp of the operation, so the
condition of a jump is the set of flags it is built from, each with a time
stamp. `writer` is the observer that says which one it should be. The search
index is computed in unsigned arithmetic as in the code, so from the latest slot it
goes down to slot 0 and then, as 2^32 is 4 modulo 12, to 3, 2, 1, 0 once more and
only then to 11. A writer is in reach (`InReach`) if it is found before that.

**AflExecutor.** One step for each file-system operation and each update of the
state that a stop could fall between. `Interrupt` is any exception or Ctrl-C:
main's `finally` runs `cleanup`, and `cleanup` runs once more at exit; a further
interrupt during either is swallowed by its bare `except`. `Kill` skips both. A
torn map or metadata file makes the next start fail. The observer `hung` has the
files that hung since the hangs were last cleared, whatever the state on disk has
kept of them. A file's score is its
number. Mail reports are on (`-m`). The number of crashes stands for the ids
that AFL gives them.

**Concolic.** Two machines run side by side. `cpu` gives each byte of registers
and memory its value on *every* input at once, computed by `Processor` from the
manual's semantics; `sym` is the tool: an expression, or `Null`, for each byte, the
operations of `Eflags`, and the path constraint. An expression is its meaning, a
sequence of bytes each with a value for each input, so equal expressions are
equal and no rewriting is involved (that is `ExprBuilder`'s subject). Each action
picks operands, runs the handler that `analysis_instruction.cpp` inserts for that
form on `sym`, and the instruction on `cpu`. A handler is translated with its
early returns: which operands it reads (reading a register whose expression is
constant clears it), when it gives up, what it clears, and when it sets flags.
`follow` is the set of inputs that take the same branches as the run. A byte has
`CharBit` bits (two in the run), so all widths scale: `EAX` is four bytes of two
bits, and masks such as that of the shift count are those of the scaled widths.
Solver calls are reduced to the constraint they add to the path.

**Doubts.** Where a handler is known to differ from the processor, its action
says so: the flags, or the data, that it gets wrong enter `doubt`, with the
condition under which they do, and leave it when they are written again. A doubt
about data ends the program. The properties are claimed for everything else. No
doubt is there for comfort: for each of them, removing it makes TLC report a
violation. They are listed in section 5. `Memory` (`doubts`) and `ExprBuilder`
(`exact`) follow the same rule.

**ExprBuilder.** An expression is a tree. `Create` walks the chain of builders
(commutative, symbolic, common simplification, constant folding, prune, base) with
each builder's rules in the order of the code; a rule that calls `createX` on
itself starts again at its own builder (`Create`), one that calls
`ExprBuilder::createX` leaves the request to the next (`Forward`). `meaning` is the value on each input of what the program asked
for. A plan fixes the seeds, the operands and the kinds of up to three nested
requests. With `linearization`, the program also runs through blocks, calls and
returns, and `PruneExprBuilder` replaces what is made in an uninteresting block by
its value in this run.

**Memory.** The tool's state (`page_table_`, the shadow pages, `brk_page_`,
`kFdSet`, `off_`) stands next to the kernel's (mappings, break, descriptors with
their offsets, and which byte of the input each byte of memory is). Each action
is a system call with the kernel's effect and the whole hook: failed calls,
short reads, calls without a hook and moves by the program included. A shadow
page freed by munmap or realloc is gone, a page fresh from realloc holds `Junk`;
a hook that touches a page that is not there stops the tool. munmap and mremap free
host memory for the whole range from the first page's shadow on. Where that is not
one block (several mappings, a range that was unmapped before, and whose pages are
at `unmapped_page_`), the memory behind it goes too (`Overrun`): memory of the tool,
or the first pages of any block (`Behind`), and the tool may fault.

A failed call reads as -1: `PIN_GetSyscallReturn`, from which `onSyscallExit` fills
`ctx->ret`, does not return `-errno` but, by the manual of the Pin version in the
repository (`doc/html/group__PIN__SYSCALL__API.html`), "on Linux and MacOS the
function returns -1 if the system call failed". The checks against -1 and
`MAP_FAILED` in the hooks of mmap, munmap and mremap see it, so `FailedCall` changes
nothing. lseek's hook has no check (`failed`), and calls without a hook of their own
compare the unsigned value with 0 (`error`).

## 3. Runs

| Run | Shows | Bounds |
| --- | --- | --- |
| `forest` | `SliceComplete`, `SliceClosed`, `NoNullTree`, `ImplementsSlices` | four bytes; five constraints on two adjacent, two distant, one or no byte, each added up to twice |
| `solver` | saved inputs follow the whole path (`SavedFollowsPath`) and leave it at the branch (`SavedLeavesPath`); slicing loses no solution (`OptimisticOnlyIfNeeded`); the bounds of an address are exact if the path constrains all its bytes (`BoundsExact`); jump targets are complete (`SolveAllComplete`); errors need a z3 timeout (`TroubleOnlyAfterUnknown`); calls return (`CallsReturn`) | three one-bit bytes, three overlapping expressions and a concrete one, two constraints on each |
| `rangeset` | `ConstraintExact`, `RangesDisjoint` | two bits, every constant and adjustment, any number of constraints |
| `exprcache` | `OneLivePerForm`, `SetIsQueue`, `Bounded`, `SharedUnlessEvicted` | cache of two, sweep beyond four, six expressions over two operators |
| `tracemap` | `VirginCountsHits`, `DiskCurrent`, `RerunQuiet` | two branches, four map bytes of two bits (counters wrap), two runs of four branches, colliding hashes |
| `eflags` | `ValidIsSymbolic`, `JccFromLastWriters` for all conditions but JZ | all twelve kinds, any four symbolic instructions; up to nineteen if they are rotations with at most two ADD or INC in the ring; any number of concrete ones |
| `afl` | `QueueInBitmap`, `BitmapInQueue`, `OverwriteOnlyAfterKill`, `RefusesOnlyIfCut` | one file, three possible inputs, up to two for a run, two stops |
| `afl_files` | `HungNotRerun`, `ReportsOncePerCrash`, `EveryFileRun` | two files, two crashes, at most two reports, one stop |
| `eflags_jz` | violated: `JccFromLastWriters` with JZ | all twelve kinds, four symbolic instructions |
| `concolic` | the shadow predicts registers and memory (`DataSound`) and conditions (`ConditionsSound`) on every input of the path; the run satisfies its own constraints (`InputOnPath`), and an input that satisfies them takes the same branches (`PathFollows`) | two-bit bytes, four inputs, 8 general and 2 vector registers, 16 bytes of memory, four ways to taint them; every instruction, then a jump, and programs of three |
| `builder` | rewriting keeps the value on every input (`MeaningKept`), pruning keeps that of the run (`ConcreteKept`) and happens only in frequent blocks (`PrunedOnlyIfFrequent`); widths agree (`AssertionsHold`) | two input bytes of two bits (all 16 inputs), up to three nested requests of every kind over seeds chosen for each family of rules; stride 1, four-bit counters, calls of depth two |
| `memory` | a cell never names a wrong byte of the input (`ShadowIsInput`), none is lost (`InputIsTracked`), every page has a shadow page of its own (`PagesBacked`) | six pages of two bytes, two descriptors, input of three bytes, mappings of one, two and four bytes, any five calls; one doubt that concerns tracking only at a time |

The type invariants of `DependencyForest`, `Solver`, `RangeSet`, `AflExecutor`,
`TraceMap`, `Eflags`, `ExprCache` and `Memory` are proved for every instance (section 4) and
not checked again by the runs; the configurations spend their time on the other
properties.

Why the bounds are enough for what they are meant to show: the forest and solver
instances have constraints that connect bytes directly, through one another and
not at all, so a merge of merged trees and a query with related constraints on
foreign bytes both happen; the theorems below drop the bounds. Two bits are
enough for every case of `intersectInRange` and for signed and unsigned overflow,
and the theorem is for every width. The cache instance evicts live and expired
entries and sweeps. In the trace map a two-bit counter wraps within four
branches. In `eflags`, nineteen operations fill the ring of twelve and overwrite more
than half of it; rotations write few flags, so the writers of the others move
through the whole ring, and out of it. Two stops suffice for an interrupt during a
cleanup and for a stop
after a restart. In `concolic` one instruction before a jump shows most of what a
handler can get wrong, since every byte and every condition is compared after
every step; flags that stay from an older operation need the programs of three.
Two-bit bytes have carry, overflow, sign and parity, and four inputs tell the
values of a byte apart; the ring of operations is never full there, which is
`eflags`' subject. In `builder`, rules meet the results of rules within three
requests. Four calls are the shortest way to most of the doubts of `memory` (open,
dup, close, read), and the fifth shows the damage; its constraint leaves out the
states after a doubt, in which only a property is left that does not depend on it.
`CHECK_DEADLOCK FALSE` is set where a bound on a counter ends
the behaviour (and, in `AflExecutor`, where the executor refuses to start); in
`Solver` a run also ends when z3 throws on an uninitialised expression.

**Fairness.** `CallsReturn` assumes weak fairness of the solver's steps: `check`
returns, because a 10 s timeout is set for z3 and an exception counts as unknown,
and the rest is sequential code. `EveryFileRun` assumes weak fairness of the
executor's steps: the loop never blocks but on its child, which `timeout -k`
ends. Nothing is assumed of AFL, of stops or of restarts. `EveryFileRun` is for
finitely many files: if AFL found better files for ever, the others would wait.

### What the violations show

* `eflags_jz`: `computeSlowJcc` has no `break` after `case JCC_Z`, so JZ is built
  from OF whenever the fast path does not apply (the latest symbolic operation
  leaves ZF alone: ROL, ROR, BT).

## 4. Proofs

The theorems are for every value of the constants under the named assumptions.

`DependencyForestProofs` assumes that offsets are naturals and dependencies are
sets of offsets. The inductive invariant also covers the middle of `addNode`:
`deps_` of a tree is the union of its constraints' bytes (`DepsOfNodes`), all of
them refer to the tree (`DepsPointBack`), only they, the creator of an empty tree
and the bytes just visited refer to it (`Referrers`), a tree not yet created is
empty (`Uncreated`), the bytes visited refer to the loop's tree (`LoopState`), and
every byte of a constraint finds it as often as it was added (`Counts`).
`SliceComplete` alone is not inductive because in the middle of the loop the node
is in no tree and merged trees still exist. From it follow `Completeness`,
`Closure`, `NullSafety` and `TypeCorrect`; `Refinement` maps each step of the loop
to a stutter and the begin step to the abstract `addNode`.

`SolverProofs` assumes that an expression's value depends only on its bytes
(`DependencyAssumption`). The inductive invariant relates slices to bytes
(constraints that share a byte are in one slice), ranges to the path (what the
path says of an expression is in its range, and the current input satisfies it),
and the assertion stack to the operation (the first frame holds the synchronised
constraints, and every assertion is on related expressions). `SlicingSound`: a
model of a sliced query, completed by the current input, satisfies the constraints
outside the slice because they read only bytes the query leaves alone.

Its second half goes the other way on top of that invariant: unless z3
gives up, unsat means that no input follows the path and does what is asked. The
second invariant says what each query is: the slice of `op.e` (or nothing, when
optimistic) and that `op.e` has one of the values in `Wanted`, which is defined
from the place in the program, the targets found so far and the bounds found so
far (`QueryInv`); the ranges say no more than the path (`TightInv`); nothing is
found before the first check (`FreshInv`); a bound found so far is a term that reads
only bytes of the address (`TermInv`); if the slice names all of them, it is a number
that occurs on the path, and from the end of its loop on the least or the greatest
(`BoundsInv`). `BoundsExactHolds` needs the condition `Bound`: without
it the value is a term that is not less than itself, and the loop ends after one turn.
`ModelExists` is the step that makes it complete: from any input that satisfies
the query, the bytes that the query reads and the current input's other bytes make
a model. `InputFeasible` (the current input is on its own path) shows that the
first check of `addAddr` and those of both loops have a model, hence
`TroubleOnlyAfterUnknownHolds`. The other theorems are `SavedLeavesPathHolds`,
`OptimisticOnlyIfNeededHolds`, `BoundsExactHolds` and `SolveAllCompleteHolds`.

`RangeSetProofs` assumes `Half >= 1`. The invariant adds to the two properties
that each set contains the current value, which is what makes "empty" never mean
"no constraint". The lemmas say that `intersectInRange` yields exactly the values
in the range in disjoint intervals, that the second call finds from where the
first stopped what it would find from the start, and that each of the six
comparisons is the intersection with one modular range.

`AflExecutorProofs` is for any files, inputs, edges, bounds and stops; besides the
bounds being numbers it assumes that the mark of a torn file is neither a map nor
a state (`TornAssumption`). None of the six properties is inductive, because each
speaks of the running process and has to survive a stop: the invariant therefore
speaks of the map or the state *that the executor has or would start from* (`Map`,
`Current`). `FileInv`: the file of a map is the map in memory, or torn. `KnownInv`
and `NothingElseInv`: a map has the coverage of the queue and of the one input
between the map and the move (`Unmoved`), and nothing else while nothing was lost.
`TornInv`: a torn file is being written, or a stop struck there. `IndexInv`:
without a kill, the index of the state, or of the metadata that was exported, is
above every name in the queue. `HungInv`, `NotedInv`, `MailedInv`: the files of `hung`
are processed in the state that the executor has or would start from unless it was
killed, noted crashes mailed and mailed ones noted, each but for the one
between the two steps. `LocalInv` says what the place in the program says about
the local variables.

`TraceMapProofs` is for any map size, counter width and hashes. `XorAssumption`
says that the exclusive or of two indexes is one, as for a map size that is a
power of two (`kMapSize` is 65536); `CharAssumption` that a counter has at least
one value; `FileAssumption` that the marks of a missing and of a torn file are no
maps. `RerunQuiet` compares a run with an earlier one of which only the maps are
left. The invariant that bridges them has two parts: the memory of a run
(counters, hashes of new branches, previous location) is a function of the path
alone (`RunInv`), and the maps contain what that function makes of every prefix of
every path seen (`SeenInv`), also on disk (`DiskInv`). `VirginCountsHits` needs
the counters *without* the inverse branch that is counted during commit
(`Virgin`), and that counting it and taking it back is the identity modulo the
width.

`ExprCacheProofs` is for any cache size and sweep factor; `ExpiredAssumption` says
that the mark of a dead expression is no expression. The invariant says that the
queue has the expressions created last, in order, and is full or has all of them
(`QueueInv`), that live expressions of one form are at least `CacheSize` apart
(`Apart`), and that the set is finite and within its bound (`SetBounded`).
`SetIsQueue` is preserved by `shrink` only because of `OneLivePerForm`: erasing by
equality then erases that very entry.

`EflagsProofs` is for any set of conditions and any number of instructions.
`ValidIsSymbolicHolds` has no further limit. `JccFromLastWritersHolds` excludes
JZ, for which the run `eflags_jz` shows the contrary, and conditions with a flag
whose writer is not in the search's reach, of which the property is not true of
the code (section 5). Its invariant says that slot `n % 12` has the kind of operation
`n` for the latest twelve (`InRing`), that what is recorded for a kind is its
last operation (`RingInv`), and that no operation after the writer of a symbolic
flag touches the flag (`WriterInv`). The proof goes through the search backwards
(`SearchGoesDown`, `ComputeFlagFinds`), fast path and slow path.

`MemoryProofs` is for any page size, layout of the address space, length of the
input, descriptors, buffers and number of calls. `SizeAssumption` says that a page
has bytes and that lengths are numbers; `SpaceAssumption` that the address space is
finite, and that the heap, which grows from the end of the image, shares no page
with the image, with what mmap returns or with the vdso, which the kernel sees to;
`ArgumentAssumption` that addresses and descriptors are numbers. The three
properties hold except in the cases that section 5 lists (`doubts`), and none is
inductive:

* A hook frees and allocates runs of shadow pages, while `PagesBacked` speaks of one
  page at a time. The invariant says that pages of one block are as far apart as
  their shadow pages (`Aligned`), so freeing the shadow of n pages from the first one
  on frees theirs and no other page's as long as the pages are of one block, and two
  pages never share one; beyond the block nothing is known (`NothingBehind` is for
  calls that stay within it); that the
  heap's block belongs to the heap's pages in order and ends where the heap ends
  (`HeapInv`), so a resize moves no cell; and that nothing keeps a shadow page but
  the page table and the heap (`Lean`), so there is always a free block.
* `ShadowIsInput` of a `read` needs that `off_`, of which there is one, is the offset
  of the description that each tracked descriptor refers to (`OffsetInv`), which
  `open`, `dup`, `close`, `read`, `readv` and `lseek` have to keep together.
* `InputIsTracked` needs that every descriptor of the input is tracked
  (`TrackedInv`).

The lemmas say of each operation of `Memory` (`MmapFacts`, `MunmapFacts`, `WithoutFacts`,
`MremapOne`, `BrkFacts`, `StoredFacts`) which cells it keeps
and which it changes; then there is one lemma for each system call.

Each inductive invariant of `AflExecutor`, `TraceMap`, `Memory` and both of
`Solver` was also checked by TLC on the instances of section 3.

Only model-checked: everything about `Concolic` and `ExprBuilder`, which stand on
recursion over data and on `Bitwise`, which the prover does not reach. Liveness
(`CallsReturn`, `EveryFileRun`) is out of its reach too.

## 5. Known differences, and what is not modelled

### Where the handlers differ from the processor (doubts of `Concolic`)

* Flags: shifts are exact for a count of one only, and the count is reduced by the
  operand's width; SHLD and SHRD, BT, XADD (none set), NEG and NOT (as a logical
  operation), ADC and SBB (CF and OF of the second addition alone), MUL (OF
  inverted), IMUL, CMPXCHG of registers (operands swapped), PAND, POR, PXOR and PTEST
  (take EFLAGS for written; CF, SF, PF). The default handler invalidates the
  arithmetic flags whatever the instruction writes (`instrument.cpp` 3522-3531, whose
  comment says so). A condition with only some of its flags symbolic is taken as
  concrete.
* Stale destinations: a 32-bit destination with concrete operands keeps the
  expression of its upper half (Binary, IncDec, Shift, Div, Movlz, NegNot, CMOV not
  taken); BSF and BSR from memory; LEAVE clears RBP only; MOVQ between vector
  registers; the registers a REP prefix moves.
* Addresses that are not made concrete: BT, XCHG, CMPXCHG and JMP with memory, the
  clearing and the default handler, vector shifts with a count in memory.
* Values: ADC and SBB with a concrete carry take it to be set (`fixCfExpr` uses the
  mask `EFLAGS_CF` as the number of a bit, and bit 1 of EFLAGS is always set); BSF never
  finds the highest bit, and a scan of zero; LZCNT and TZCNT are
  treated as BSR and BSF; byte MUL and DIV put the high half in DL; DIV adds no
  constraint that it does not fault; the masks `1 << imm` of BTS, BTR and BTC
  are computed as int, which is too narrow for a 64-bit operand; PMAXSW
  compares unsigned, PACKUS too, PMADDWD extends by zeros, PEXTR's index.
* Path: RET adds no constraint on its target, nor does JMP through memory on the
  address; CALL through memory that overlaps the slot of the return address.
* VPAND and VPUNPCK get the two-operand handlers; a register without a shadow
  (`GET_REG`) means that no handler is inserted.

### Where the builders do (`InexactDivision`)

Merging two constant divisors although their product wraps, dividing a sign
extended value at its narrow width, and truncating divisions by
`canEvaluateTruncated`, which passes the depth as the width.

### Where the shadow memory and the hooks do (doubts of `Memory`)

* The offset: one for all descriptors (`several`), reset when any is closed, set for
  files whose name contains the input's (`similar`), kept when dup2 replaces a
  tracked descriptor (`replaced`), not moved by reads of a copy that fcntl(F_DUPFD)
  made, which is not tracked (`fcntl`), set to -1 by a failed lseek (`failed`), not moved
  by lseek on stdin (`stdin`), 0 for any mapping (`offset`), and bytes of a mapping beyond
  the end of the file (`end`).
* Stale cells: readlink, the hook of which has its clear commented out, ioctl, which
  is in the table without sizes, and the calls that are not in the table leave the
  expressions of what they overwrite (`unhooked`).
* Pages: a mapping that grows down (`down`), munmap or mremap that frees host memory
  behind the block of its first page (`overrun`), mremap of several pages onto one shadow
  page (`shared`) or to a smaller size (`shrunk`), brk one page too far (`beyond`), to
  nothing (`empty`) or grown (`realloc`, uninitialised), the guess of the stack
  (`stack`).
* Tracking only: openat (`openat`), preadv, which gets readv's clearing hook
  (`preadv`), a mapping of a descriptor that is not tracked, or
  the rest of its last page (`rest`), a failed call that clears its buffers (`error`).

### Where the solver and the flags do

`getMinValue` and `getMaxValue` of an address with a byte that is in no constraint
yet end with a term for a bound: `solver.cpp` has "TODO: add unbound case" there
(line 207). The input that `solveOne` then saves follows the path (`SavedFollowsPath`
holds of it), but is at no bound.

`(start_ - i) % CC_OP_LAST` in `computeFlag` is unsigned: the search jumps from slot 0
to slot 3. While the ring is not full the slots above are empty; after twelve symbolic
instructions a flag whose writer is above the latest slot is looked for in the wrong
ones first, and the condition may be built from another operation. Both
`Eflags` and `FlagExprs` compute it so; `JccFromLastWriters` is claimed for writers in
reach.

### One more, without a run

`increase_timeout` doubles after comparing, so runs get up to 720 s while
`MAX_TIMEOUT` is ten minutes.

### Not modelled

* VINSERTI128, 256-bit operands and the upper halves of YMM registers, MMX and the
  FPU; MUL, DIV, SHLD and SHRD on operands above four bytes, whose double width does
  not fit TLC's integers at two bits a byte. PSHUFW is checked in its XMM forms.
* Calls without a hook that move the file offset of the input (sendfile, splice, preadv2
  with offset -1), and programs that write to their own input; an allocation that gets
  the host address of `unmapped_page_` after an overrun freed it.
* afl-showmap failing, which would leave the map of the previous input in the temporary
  file.
* Sockets, system calls of 32-bit programs only; `isReadable`, `isUnmappedAddress` and
  the exception handler, which recovers from faults on `unmapped_page_`.
* Concretization along `uses_`, hashing and printing of expressions.
* z3 and the hash functions, which are environment or constants.
* `getCanonicalExpr` and the adjustment it splits off; names of saved files.
* Start-up, logging, tracing, command lines; the debug build's extra checks.

## 6. Plan

The plan is carried out: each property of a run is proved as well, but for those that
the prover does not reach (section 4). `BitVectors`, `ExprRules` and `CallStackManager`
use recursion over data or `Bitwise`, so what is built on them stays with TLC.

A change of the code starts at the map of `PROJECT.json`: the definitions that name the
changed lines are brought up to date, then the runs, then the proofs of the module.
