# Verification of ElyLlama

TLA+ modules, TLC configurations and TLAPS proofs for ElyLlama, a C++23
inference library for GGUF models. Paths are relative to the repository; lines
are given as `file:line`. `PROJECT.json` maps every definition to the lines it
models.

## The system

The library is single-threaded and holds no lock. It is made of these parts.

| Part | Source | State | Operations |
|---|---|---|---|
| Tensor | `include/core/tensor.hpp` | op, type, layer, device, dims, strides, five source pointers, four parameters | `numel`, `nbytes`, `isOperator` |
| Compute graph | `include/core/graph.h`, `src/core/graph.cpp` | `all_tensors` (owned), outputs, levels, order, layer groups, `max_layer` | build, rebuild, clear, add, replace an output, insert a memcpy, export, move, destroy |
| GGUF parser | `include/core/gguf_parser.h`, `src/core/gguf_parser.cpp` | the file stream, `GGUFInfo`, `data_offset` | the constructor parses the header; `readTensorData` |
| Operation factory | `include/model/op_factory.hpp` | none; it allocates tensors | one call per operation, with shape inference |
| Half floats | `include/utils/fp16.hpp` | 16 bits | conversion from and to float, negation, arithmetic through float |
| Backend registry, device manager | `include/backend/backend.h`, `src/backend/cpu/` | list of providers, cached list of devices | register, detect, query |
| Model factory, Qwen3 | `include/model/model.h`, `qwen3.h`, `src/model/` | registry by architecture, configuration | create, parse configuration, build graph (stub) |
| CPU memory | `include/core/resource.h`, `src/core/cpu/` | none | aligned allocation with page lock |
| Types and tools | `include/utils/type.hpp`, `tools.hpp` | none | tables, names, logging |

How they interact: the parser produces the `GGUFInfo` and `TensorInfo`s; a model
definition calls the factory, which reads `TensorInfo`s and links new tensors by
their source pointers; the graph takes the outputs (or single tensors), becomes
their owner and sorts them into levels an executor may run in parallel. Data,
memory and devices are attached later by code that does not exist yet.

What is hard here is not concurrency but

- **long sequences of legal calls**: a graph that is built, edited, sorted,
  found cyclic, cleared and moved, with six members that have to agree, raw
  pointers that one of them owns, and exceptions that leave it half way;
- **an algorithm with counters** updated while the level they were read for is
  being retired, over multi-edges, with an unstable sort;
- **partial failure of a stream**: cut-off files and a fail bit that outlives a
  call;
- **shapes** with the two sentinels 0 (unused) and -1 (dynamic) that each
  function treats in its own way;
- **numeric edges** of rounding, shifting, wrapping and alignment.

There is no timing, no message passing, nothing persistent and no retry in this
code, so no hazard of these kinds is listed.

## Modules

| Module | Models | Extends or instantiates |
|---|---|---|
| `LevelSchedule` | what the level grouping promises: waves of nodes, verdict on cycles | |
| `LevelScheduleProofs` | its proofs | `LevelSchedule` |
| `TopologicalSort` | `ComputeGraph::topologicalSort` | instantiates `LevelSchedule` |
| `TopologicalSortProofs` | its inductive invariant, refinement and verdict, and what its results are worth | `TopologicalSort` |
| `ComputeGraph` | one graph object, its heap and its client | instantiates `TopologicalSort` for the sort |
| `ComputeGraphProofs` | its proofs | `ComputeGraph`, instantiates `TopologicalSortProofs` |
| `Ownership` | what graphs promise about the tensors handed to them | |
| `GraphMoves` | several graph objects moved into one another | instantiates `Ownership` |
| `GraphMovesProofs` | its proofs | `GraphMoves` |
| `GGUFFile` | what a writer puts in a file (external) | |
| `GGUFParser` | constructor and `readTensorData` | extends `GGUFFile` |
| `ModelLoading` | `Qwen3Model::parseConfig` on what the parser made | extends `GGUFParser` |
| `GGUFProofs` | proofs about the parser and, resting on them, about the configuration | `ModelLoading` |
| `OpFactory` | every call of the factory | |
| `OpFactoryProofs` | its proofs | `OpFactory` |
| `FloatArithmetic` | numbers, floats and their arithmetic (IEEE 754, external) | |
| `Float16` | conversions and arithmetic of `float16_t` | extends `FloatArithmetic` |
| `Float16Proofs` | its proofs | `Float16` |
| `DeviceManager` | registry of backends, list of devices, provider of the CPU | |
| `DeviceManagerProofs` | its proofs | `DeviceManager` |
| `MC...` | constants for TLC; `MCGGUFDocuments` the documents of the parser's runs | the module named |

Definitions whose comment begins with "Wrong:" are not part of any
specification. Each is the form a definition would take with a plausible bug,
and is kept to show that the properties notice it.

### TopologicalSort

The variables are the members and locals of the function. `BeginSort` is the
loop that counts edges (17-36), `CollectLevel` the collection and `std::sort` of
one level (38-53), `RetireTensor` one turn of the inner loop (56-72),
`StoreLevel` the `push_back` of the level (73), and `LeaveLoop` the break and
the final comparison (46-48, 76-78). `std::sort` is unstable, so a level comes
out in any order that is sorted by layer. The graph (which tensors, which
sources, layers, kinds) is chosen by `Init` and never changes.

The refinement maps the abstract `emitted` to the tensors of the stored levels:
`StoreLevel` is the abstract step, all others stutter until the verdict.

### ComputeGraph

A client allocates tensors, sets their sources and calls the members; calls do
not overlap. The deletes of `clear` and the destructor act on a heap, and using
what is deleted or null sets `fault`. The search of `buildFromOutputs` takes a
step per tensor, the sort the steps of `TopologicalSort`; every other call is
one step. A client has to keep a contract that no call checks and that
`MayAdd` and `MayBuild` state: a tensor is handed to a graph once, alive, with
live sources, and the outputs of a build do not lead into the graph being
rebuilt, whose tensors the build deletes first. It may do everything else,
cyclic sources included.

### Ownership and GraphMoves

Graphs are records of the six members. Tensors have no edges to tensors of a
graph (their slots hold tensors outside), so a sort has one level; what is
looked at is ownership: construction, move construction, move assignment with
the self-test, clear, build and destruction.

`Ownership` has one variable, the owner of every tensor, and three steps: a
tensor is handed over, a graph starts anew and deletes what it had, a graph
takes over all that another one owns and deletes what it had. The refinement
maps a tensor to the graph whose `all_tensors` holds it, or to the client or
the deleted by the heap. Moves, in either form, are `TakeOver`; build and clear
are `Restart`; a sort and a self-assignment stutter.

### GGUFFile and GGUFParser

A document is the list of typed fields its writer emits; the file holds the
first `length` bytes of it and the data. The parser reads field after field; a
read that does not fit is the exception. Arrays nest by a stack of frames, the
call stack of `readMetadataValue`. A client then reads tensors in any order; the
fail bit stays set. What a value is written as, what it means and whether a
reader of version 3 knows its types are one recursive function, `Encoding`.

The writer is one that follows the format, which three assumptions say and TLC
evaluates: numbers fit their types and the items of an array have its type
(`ValuesAreTyped`), arrays nest to a finite depth (`ValuesAreFinite`), and counts
are right and the data is aligned, to a number other than zero, as the metadata
say (`DocumentsAreWritten`). A document may be of any version and magic, have
keys twice, and have values of types the parser does not know (`BFLOAT16` stands
for these). A floating-point value is a whole number of units, `FloatUnits` of them
to a one, so that its fraction can be lost; its bits are not spelled out.
`GGUFInfo::offset` wraps at `Uint32Values`. The scalar cases of
`readMetadataValue` read the width the writer gives the type: what each type is
read as, its sign and its kind are in `JsonOf`, the width is not a choice of the
model.

All data types of `type.hpp` are there: the size the format gives them
(`DataBytes`: plain elements, blocks of 32, blocks of 256) and, apart from it, the
constant `dataTypeSize` returns for them (`DataTypeSize`), which
`TensorInfo::bytes` multiplies by the number of elements. For a type in blocks
that is not the size of the tensor, so `ReadsAreTheTensors` says where a read of
any tensor starts, but where it ends only for the plain types.

`readTensorData` seeks and reads. A seek beyond the end of the file succeeds, and
so does a read of no bytes there: a tensor without elements, or of a type of size 0
to the parser, is read whatever the file holds, until another read has set the fail
bit.

### ModelLoading

`ParseConfig` runs once the parser is done, on a model that is new or that has
parsed a file before (`ParsedBefore`): the nine fields are assigned one after
the other until one throws, then the vocabulary is taken from the list of
tokens, from the model's own past, or from the embedding. A list of tokens that
is not an array counts as none. `parseConfig` is private and nothing calls it
yet; the configuration is what the model would build from.

An `int` field takes what the file says through a conversion: an integer is cut to
its lowest bits (`AsInt`), so that an unsigned number from the middle of its range on
turns negative; a boolean is 0 or 1; a float loses its fraction, and one that no int
holds may become any of `OutOfRange` (the conversion is undefined). The count of the
tokens and the dimension of the embedding are cut in the same way, to a zero even.
`float` fields take the nearest float (`Single`). The properties hold the
configuration to the file as far as an int can hold what it says, and say nothing
of the vocabulary a used model keeps.

### OpFactory

The tensors handed out so far are a sequence; a call appends one or more or
throws. The stated contract of a client: shapes without 0 (`ShapesHaveNoZeros`),
new shapes that fit into `dims` (`NewShapesFit`), weights that are matrices
(`WeightsAreMatrices`), permutations that are permutations
(`PermsArePermutations`); and, as guards of the actions that stand for no line
of the code, ids with a batch and a sequence dimension, `narrow` within range,
and attention over tensors with heads. `dims` has at least three places
(`MaxDimsIsNat`; the code has four). Strides are `size_t` and wrap. As written,
`op_factory.hpp` is included by no source file, and several declarations there
put parameters without defaults after parameters with; the model takes the
bodies as they stand.

### FloatArithmetic and Float16

A client constructs, converts back, starts from bits, negates, or computes with
a second half. The four operators of the code convert to float, compute and
convert back; what the float hardware does is `FloatArithmetic` (a number is
`n * 2^e` with a sign), whose operators give the exact result and the floats
next to it. `NearestHalf` there is the reference the results are compared with.
Shifts by 32 or more are undefined in C++: the model lets them yield zero or the
result of taking the count modulo 32. Results between 2^-38 and 2^-32 reach
those shifts, so `ArithmeticRoundsOnce` leaves them out (finding 5). It leaves out
operations without a number for their result too: the code makes an infinity of
every NaN, which the section on findings comes back to.

### DeviceManager

Providers are registered at any time, the CPU's by a static initialiser that
may run before or after somebody's first query, and repeatedly; other providers
are external. `GetDevice` stands for `getDevices`, `deviceCount` and
`getDevice`, which all go through the lazy detection; a pointer is a place in
the vector. What was answered is remembered in `answers`, what the system
reported when it was asked in `reported`. A size of memory is one number (pages
times page size), and `Unknown` stands for a branch that returns the 8 GiB: no
count of pages on Linux, a failing `sysctlbyname` on Apple, any other system. On
Windows no branch does: there every report is a size, any one if the call fails and
leaves the status unset. Apple reports 0 when no page is free.

As written, `src/backend/cpu` and `src/core/cpu` are collected by
`CMakeLists.txt` (75-78) but not added to the library, `#if defined()_WIN32`
(backend_cpu.cpp:9) is not an expression, and `printDevices` has a format string
without its arguments; nothing registers the CPU at this commit. The model takes
the bodies as they stand.

## Runs

| Run | Bounds | Shows |
|---|---|---|
| `TopologicalSort_graphs` | all graphs of up to 3 tensors with 2 slots, 4 tensors of which one has 2 sources, 3 tensors with 2 kinds and 3 layers | levels, order, groups, exactness of the cycle verdict, completeness, tightness, termination, refinement of `LevelSchedule` |
| `TopologicalSort_duplicates` | 2 tensors, lists with repetitions | **violation**: "cycle detected" without a cycle |
| `ComputeGraph_calls` | 3 tensors, 1 slot, 2 outputs, every call sequence | no dangling pointer, no use after free, current schedule, cycle left after a throw, devices reset only by success |
| `ComputeGraph_nullsource` | 2 tensors, 1 slot | **violation**: a null source is followed |
| `GraphMoves_moves` | 3 graphs, 3 tensors, 2 layers, 2 outputs | one owner until deleted, members travel together, refinement of `Ownership` |
| `ModelLoading_files` | 99 documents (up to 2 entries, 2 tensors) cut off at every byte, 3 reads, a new and a used model | accepted exactly if whole, parsed as written, reads start at the tensors and are all of the plain ones, fail bit; the configuration is what the file says as far as an int holds it, and is refused exactly if the file is no source of one |
| `ModelLoading_vocab` | the same | **violation**: the vocabulary read from the embedding is its hidden size |
| `OpFactory_shapes` | chains of 3 calls, 6 input shapes, 2 weights, 6 target shapes, 3 permutations | no holes, element counts kept by each view of a static shape, dense strides, linear layers fit |
| `OpFactory_reshape` | the same | **violation**: two reshapes give 16 elements over 6 |
| `Float16_convert` | all 65536 halves; floats of all 512 signs and exponents with about 170 mantissas; arithmetic of 384 by 384 halves | nearest-even, exact widening, one rounding per operation |
| `Float16_rounding` | the floats | **violation**: exponents 89 to 94 are undefined |
| `DeviceManager_queries` | up to 3 registrations of the CPU and of a provider of 2 devices, 4 reports of memory, size_t of 4 bits, every query | answers and pointers stand for good, available memory is what was reported |

Why the bounds are enough. A cycle, a self-loop, a double edge and a chain with
a non-operator in the middle all fit in three tensors with two slots; unequal
levels need three, a diamond four. Tensors are interchangeable, so one list of
each length stands for all. The graph calls need one tensor owned, one handed
over and one outside, and symmetric tensors make three tractable with one slot
(multi-edges are the matter of the sort's runs). Three graphs allow a move
through an intermediate. The reports of memory are nothing free, a size below
and one above the fallback, and unknown, so that the used memory wraps; three
registrations allow two equal ones before the first query and one after it.
Truncation is at every byte, the documents hold every scalar width the parser
treats differently (1, 4, signed, boolean, string), empty and nested arrays,
repeated and late alignments, and a header that ends on the alignment exactly,
tensors of no bytes before the end of the file and past it, and tensors in
blocks for which the parser has more, fewer and no bytes. In the factory each
property of the passing run relates a tensor to its direct source; a chain of
three gives a source made by any call and a tensor made by any other.
`SizeValues` is 2^16 instead of 2^64 because TLC's integers have 32 bits;
dynamic dimensions do wrap at it. In `DeviceManager_queries` it is 2^4, and 8
stands for the 8 GiB. `Uint32Values` is 2^13, the smallest power of two whose
ints hold the defaults of the configuration: the documents have numbers at the
largest int (4095), one past it and past 2^13, a dimension of 2^13, and floats
beyond the largest int. `FloatUnits` is 2, for halves; `Rounded` stands for the
nearest float and gives floats three digits, so that a field of that type can
differ from what the file says; `OutOfRange` is the least int, zero and the
largest. The theorems hold for any of these constants. The mantissas are the
ones next to every bit at which rounding can cut.

The other bounds stop counters: `MaxCalls` (factory calls), `MaxReads` (tensor
reads), `MaxOutputs` (outputs of a build), `MaxRegistrations` (providers), and
`Operands` (the halves computed with: every exponent with six mantissas).

### Fairness

`TopologicalSort` and `LevelSchedule` have weak fairness of `Next`,
`ComputeGraph` of the steps inside a call: a sequential function that has begun
keeps running and nothing blocks it. The other modules state no liveness and
assume no fairness. No fairness is assumed of clients, who may stop calling at
any time; this is also why deadlock is not checked in runs whose function ends
or whose bound on calls is reached. `Float16` and `DeviceManager` never stop and
are checked for deadlock.

## Findings

1. `graph.cpp:96` tests the source slot the wrong way round: a search from an
   output with an unused slot dereferences null, and sources are never
   collected (`NoNullDereference`).
2. `graph.cpp:76`: adding a tensor twice makes the sort report a cycle that is
   not there (`CycleDetectedMeansCycle`).
3. `qwen3.cpp:25` takes `dimensions[1]` of the embedding for the vocabulary. The
   parser has reversed the dimensions, and `op_factory.hpp:116` calls the same
   dimension the hidden size, which it is (`VocabIsNotTheHiddenSize`).
4. `op_factory.hpp:264` skips the check of the element count when the source has a
   -1, and a reshape of a static tensor to a shape with several -1 keeps all but the
   last of them: a second reshape then makes a view of any size (`ViewsKeepElements`).
5. `fp16.hpp:35` lets shift counts of 32 and more through
   (`RoundsEveryNumber`).

Disagreements between a comment or a constant and the code that need no run to be
seen, and that no property takes a side in:

- `gguf_parser.h:17` calls `TensorInfo::offset` an "absolute file offset". The
  parser stores it as the file has it, relative to the data section, and
  `readTensorData` adds the start of the data: `ReadsAreTheTensors` holds the sum to
  the tensor's place and is not about the comment.
- `dataTypeSize` (`type.hpp:180-230`) returns for the types in blocks constants that
  are not the bytes of an element, and that its comments call sizes of blocks, while
  `TensorInfo::bytes` multiplies by the number of elements; neither reading gives the
  size of such a tensor.
- `op_factory.hpp:177` calls `narrow` a "view, no copy"; line 189 computes dense
  strides for the narrowed dims instead of keeping those of the source.
- `fp16.hpp:192` announces a quiet NaN and `isNan` tests for one, but line 29 makes
  infinities of NaNs, which its comment does not mention. `ThereAndBack` shows it of
  the conversion.
- `parseConfig` does not reset the vocabulary (`qwen3.cpp:22`): a used model keeps
  the one of an earlier file. The properties of the configuration leave this case
  out.

The properties of the passing runs held of the code, with the exclusions that each
of them names.

## Proofs

All of these hold for every value of the constants that meets the named
assumptions of the modules. Fairness is not used (`SafetySpec`, or a `Spec` from
which the proof takes the initial states and the steps).

**The sort.**

- `LevelScheduleType`, `LevelScheduleVerdict`: the abstract walk is well typed
  and its verdict right both ways. The inductive invariant adds to the verdict
  that no *trap* (a non-empty set of nodes each depending on one of the set)
  has lost a node: a wave cannot take the first, since it would depend on
  another. When no wave is left, the nodes left over are a trap themselves.
- `SortType`: the sort is well typed, with repeated tensors too.
- `SortLevelsIndependent`, `SortImplementsWalk`, `SortVerdictExact`: under the
  assumption that no tensor is listed twice (finding 2 shows it is needed), no
  tensor shares a level with its sources or precedes them, each step is a step
  of `LevelSchedule` or a stutter, and hence a cycle is reported exactly when
  there is one. The inductive invariant `SortInv` says that the counter of a
  tensor not yet retired is the *number of its edges from tensors not retired*
  (`CountersExact`), which tensors are retired half way through a level
  (`RetiredInLevels`), that the level being retired is the abstract wave
  (`LevelIsWave`), that `count` counts the retired, and what backs each verdict.
  Without the counting of edges (a set of pairs of tensor and slot, not of
  tensors) double edges would break the induction.
- `SortOrderRespectsDependencies`, `SortLevelsTight`, `SortThrowKeepsAcyclicPart`,
  `SortReturnsComplete`: the results may be used as the executor needs. `OrderInv`
  strengthens `SortInv` by three facts: each stored level is the wave that
  follows the levels before it (`LevelsAreWaves`; a level is not just independent
  but everything that could run), the order holds the operators retired, once each
  (`OrderIsRetired`), and climbs through the levels (`OrderClimbs`); and no trap
  has lost a tensor (`TrapsIntact`), which is what a sort that throws leaves.
- `SortGroupsCutUpOrder`: each layer group is the part of the order with its layer,
  in its order. `GroupInv` adds to `OrderInv` which tensors a group holds and that
  any two of one group stand in the order as they do in the group
  (`GroupsFollowOrder`), and that `max_layer` is the largest layer retired.

**The graph object.** `GraphType`, `GraphGettersHandOutLive`,
`GraphNoUseAfterFree`, `GraphSortedScheduleCurrent`, `GraphThrowLeavesTheCycle`,
`GraphDevicesReset`: for any number of tensors and slots and every sequence of
calls of a client that keeps the contract. `GraphInv` says, between calls and in
their middle, that what the graph owns is alive, listed once and has live
sources (`OwnedAlive`), that outputs are alive, that the search has queued only
live tensors, each once and none already collected (`SearchSound`), that the
locals of the sort are gone outside it, that while it runs the sort's own `GroupInv`
holds, and that what is scheduled is owned. The assumption of the sort's theorems,
no tensor listed twice, is thereby discharged: the contract of the client and the
visited set of the search see to it. The one undefined step left is the null
source of finding 1 (`FaultIsNull`).

**Moves.**

- `MovesKeepOneOwner`, `MovesImplementOwnership`: for any number of graphs and
  tensors, and any client of theirs that keeps the contract. The invariant
  `OwnerInv` says graph by graph what the property says tensor by tensor: handed
  over is exactly what some graph owns (`HandedIsOwned`), no two graphs share a
  tensor (`NoTwoOwners`), no graph lists one twice (`OwnedOnce`). Without the
  last, the second delete of `clear` would go unseen.
- `MovesKeepTypes`, `MovesKeepMembersTogether`: what a graph schedules and answers
  for it owns, and `max_layer` is the largest layer scheduled. `MembersInv` says it
  of each record of members (`Consistent`), moved-from and destroyed graphs
  included, so that a move carries it from one graph to another. The filters of
  the sort are handled as a recursive function (`Selected`); that a largest layer
  exists is shown by induction.

**The parser.** `ParserType`, `ParserAcceptsExactlyWholeHeaders`,
`ParserParsedAsWritten`, `ParserReadsAreTheTensors`,
`ParserReadsUntilFirstFailure`: for all documents of the format (numbers that fit
their types, counts that are right, data types of `type.hpp` or newer
ones), with any number of
entries and tensors and arrays nested to any depth, and for files cut off
anywhere. `ParserInv` says for every phase that *the fields not yet read are those
of the rest of the document*, that their bytes and the position of the stream add
up to the header, and that what was read is what the document says up to there.

- Between entries the rest is a concatenation of whole entries and tensors
  (`EntriesFrom`, `TensorsFrom`).
- Inside a value it is not. There the invariant exists in terms of two histories
  the parser does not keep: for each frame the array of the document it stands for
  and the fields that follow this array (`Nested`, for the frames one by one). The
  fields left are the items left of the innermost array, then what follows it
  (`Ahead`). Opening an array adds one to both histories, closing it takes it away.
- `Reading` and `ReadingOn` turn this into what the guards need: if the rest is `s`
  followed by `t`, reading `Len(s)` fields yields `s`, leaves `t`, and fails only
  if the file does not hold the whole header.
- At the end, the padding of the code is rounding up (`PaddingRoundsUp`), and the
  product of dimensions does not depend on their order (`ProductOfReverse`).

**The configuration.** `ModelType`, `ModelConfigAsWritten`,
`ModelConfigRefusedExactly`, on top of `ParserInv`: since the metadata are those of
the document, each field is convertible exactly if the document does not contradict
it, the conversion to an int changes no number that an int holds (`AsIntIs`), the assigned fields are those before the first that is not (`AssignedIs`), and
the vocabulary is zero exactly if neither tokens nor embedding nor past give one
(`VocabularyIs`).

**The factory.** `FactoryType`, `FactoryShapesHaveNoHoles`,
`FactoryViewsKeepElements`, `FactoryStridesCoverTensor`,
`FactoryLinearContractsMatching`: for chains of calls of any length, over any shapes,
weights and permutations of the contract. `FactoryViewsKeepElements` is about one
view of a tensor of static shape; that the count is kept along a chain with a -1 on
the way is false (finding 4). `FactoryInv` says of every tensor handed
out that its dims are *packed* (used ones first), its strides those of its dims, its
sources in the list, that a view has the elements of its source, and that a linear
layer fits its weight (`Good`). There is one lemma per operation; the element count
of a permuted shape is the product along a bijection.

**Devices.** `DeviceManagerType`, `DeviceAnswersStand`,
`DeviceAvailableAsReported`: for any providers that answer with a device of theirs
(`ProvidersAnswer`), any width of `size_t`, any fallback. An answer implies a list
(`AnswersNeedAList`), and what a CPU device shows is computed from the
reports that were given for it (`InfosOfReports`); taking the used from the total memory
undoes a wrap.

**Half floats.** `Float16Type`, `RoundsToNearestAlways`, `WidensExactlyAlways`,
`ArithmeticRoundsOnceAlways`: for all 2^32 floats, all halves, all pairs of halves
and the four operators. The invariants are inductive beside `TypeOK`, since each speaks of the
step that ran last; the work is in the operators.

- Everything rests on the values of 2^0 to 2^30 (`PowerValues`) and on division with
  rest: rounding to even is a function of quotient and rest (`NearestEvenOf`), and
  the code's round bit, sticky bits and last bit decide as it does
  (`RoundedOffIsNearest`), also where more is shifted out than there is.
- `ToNearest` goes by the exponent: infinity above, the carry into the exponent
  between, and below a shift by up to 31 places. `PlacesFit` shows that the
  loop of `fp16Bits2Float` brings a subnormal mantissa to exactly eleven bits.
- Rounding twice is rounding once unless the first rounding makes a tie for the second
  (`RoundedTwice`). `FloatOfNumber` carries this through the fields of the float. What
  remains is that no exact result makes such a tie. A product of two halves
  fits a float. A sum that does not is the larger operand followed by at least fourteen zeros,
  changed within the last twelve bits (`LongSumSafe`), so it is far from
  any half of a unit. A quotient that rounds to a multiple of 2^12, as a tie is, must
  be that multiple: the divisor, of eleven bits, is too short to
  separate them (`QuotientExact`); then the first rounding has rounded nothing. The
  second rounding of a subnormal quotient cuts more than thirteen bits, and the
  lemma covers all of them.
- `ThereAndBack`: of a half converted to a float and back nothing is lost,
  except that a NaN becomes the infinity of its sign.

The six exponents whose shift is undefined (finding 5) are excluded from what is
claimed of the nearest half, not from `Float16Type`; NaNs are excluded from
everything but `Float16Type` and `ThereAndBack`.

Induction. The definitions that recurse over data (bytes of a list of fields,
products, offsets, encodings, filters) are recursive functions, and what they
compute is proved from the well-foundedness of `<` on the naturals, applied to a
set (`Induction`, `LeastMember`); that such a function exists is a proof
of its own (`Recursion`; for encodings, which recurse over values and not numbers,
`EncodingExists`, from functions on sets of values closed under items).

The assumptions are the named ones of the modules and, for the sort's theorems
but `SortType`, that no tensor is listed twice.

Only model-checked: `Termination` of the sort, and the fairness that
`ImplementsSchedule` asks of the abstract walk (liveness and fairness are out of
the prover's reach; the steps of that refinement are `SortImplementsWalk`).
Every other property of a passing run is stated by a theorem.

## Not modelled

- Model factory: nothing is ever registered (`init` is empty, and `registerModel`
  takes the address of a temporary, so it would not compile if it were used);
  every `createFromArch` and `createFromGGUF` therefore throws. The graph builders
  of Qwen3 are stubs that return null.
- CPU memory: one system call per operation, no state, no caller. Its POSIX
  branch names variables that are not declared.
- Type tables, names, logging, the text of `exportDot`, `printInfo` and
  `printDevices`, names and cores of the CPU, build files and tests (which assert
  nothing).

## Plan

The order was: the sort with its abstract specification and proofs (the core of
the library), the graph object around it, moves and ownership, the parser and the
configuration read from it, the factory, half floats, devices. Next:

1. Model the builder of the Qwen3 graph when it exists: the factory's calls over
   what the parser read, handed to a graph and sorted.
