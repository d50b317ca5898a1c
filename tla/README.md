# CertiRocq in TLA+

CertiRocq compiles programs of the Rocq proof assistant to C (through
CompCert's Clight) and to WebAssembly.  Most of the compiler is a chain of pure
translations, written and in large part proved correct in Rocq itself.  What
nobody has proved is what surrounds the chain: a runtime in C with a
generational copying collector, primitives in C, the contract between generated
code and collector, and a plugin that compiles, links and runs programs inside a
Rocq session.  That is where this project looks first: it has state, it is
written by hand, and its failures show up far from where they are caused.

Paths below are relative to the repository (`src/` is its root), with line
numbers of the commit the modules were written from.

## 1. Inventory

### The runtime (`src/runtime`)

**Generational collector** (`gc_stack.c`, `gc_stack.h`).

- *State.*  A heap of `MAX_SPACES` space descriptors `start`, `next`, `limit`,
  `rem_limit`.  Objects grow up from `start` to `next`; a remembered set of
  addresses of cells grows down from `rem_limit` to `limit`.  The thread has
  `alloc` and `limit`, its own copies of the nursery's pointers, `fp`, the
  shadow stack of frames of roots, and `nalloc`, the words that the last caller
  of the collector needs.
- *Operations.*  `make_tinfo`, `garbage_collect` (with `create_space`,
  `do_generation` = `forward_remset`, `forward_roots`, `do_scan`, and
  `resume`), the write barrier `certirocq_modify`, `garbage_collect_all`,
  `export_heap`, `reset_heap`, `free_heap`.
- *Interactions.*  Called by generated code on entry of a function and after a
  call, and by primitives that allocate.  It reads and rewrites their frames.
- *Hard behaviours.*  Nothing tests for room while copying: the test at the end
  of one collection must have left room for the next one, of objects and of
  remembered cells, in every pair of generations.  Objects move, so a word that
  is nobody's root is wrong afterwards.  The oldest generation only fills up.
- *Right when* the graph of live objects is the same before and after; copies
  and remembered sets never meet; the request is served; a collection ends.

**Integer primitives** (`prim_int63.c`).  No state of its own but the blocks it
allocates.  63-bit integers are tagged in 64-bit words, so that a carry, a sign
and a shift are all off by one from what C gives.  *Right when* each operator
returns what Rocq's operator of that name does.

**Float and string primitives** (`prim_floats.c`, `prim_string.c`).  They
allocate and collect from inside C, with their arguments in C variables.

**Large integers** (`certirocq_gmp.c`).  Small integers are tagged and large
ones are blocks with the address of a number of gmp; the boundary is
`Min_long .. Max_long`.  A number keeps the form in which it was computed, so a
small one may be in a block, and every operation has a path for each form.
*Right when* the result does not depend on the form.  An allocator that would
put the numbers themselves in the nursery is there and is not installed
(`certirocq_run_main.c:20`); with gmp's own, no number is ever freed.

**Calls of the compiled compiler** (`src/bootstrap/certirocqc/certirocqc_wrapper.c`).
The compiler, compiled by itself, is called from OCaml.  State: the struct of a
call, on the stack of its caller, shared with a worker thread that has a large
stack; OCaml's runtime lock; a static pointer to the heap whose result is being
copied.  Hard: other OCaml threads run, collect and call the compiler
meanwhile; the worker reads arguments that no root of its own covers; it may not
come into being.  *Right when* pointers into OCaml's heap are used only with
the lock and never after they were left behind, and a call runs the compiler once.

**Messages, main functions, value macros** (`rocq_ffi.c`,
`certirocq_run_main.c`, `values.h`, `config.h`).  Output and macros.

### Code generation (`src/theories`)

**Clight, direct style** (`Codegen/LambdaANF_to_Clight_stack.v`), the default
backend.

- *State of the code it emits.*  Per activation: C variables, cached `alloc` and
  `limit`, an array of roots, a frame.  Shared: the thread.
- *Operations.*  Entry of a function with its test for room; constructors,
  projections, literals, branches, primitives; calls that save live variables
  on the shadow stack and may collect afterwards; tail calls; return.
- *Hard behaviours.*  One test covers all allocations until the next call, over
  branches.  What is saved is computed from free variables.  The frame is
  linked, or not, on five different paths.
- *Right when* no stale address is ever used, frames are linked exactly while
  they hold something, no object is written beyond `limit`, and the collector
  always sees the current `alloc`.

**Clight, CPS** (`Codegen/LambdaANF_to_Clight.v`).  Roots in `args`; not on the
default pipeline, and proved correct in Rocq.

**WebAssembly** (`CodegenWasm`).  State: linear memory, a bump pointer, an
out-of-memory flag, four scratch globals.  Proved correct in Rocq; the
interesting parts for a model are the primitives (arithmetic) and the growing of
memory (one page at a time, signed comparisons, a flag that callers test).

**Passes** (`LambdaBox_to_LambdaANF`, `LambdaANF`, `common`, `Compiler`).  Pure
translations of terms with name supplies and a state-and-error monad.

**Glue** (`Glue`).  Generates C text for constructors and eliminators.

### The plugin (`src/plugins`)

Commands of Rocq.  State: tables of registered constants, inductive types and
linked programs.  Some follow the backtracking of the session (`Summary`), and
some do not (the names of all run functions, the libraries already loaded).

The full list, parts that are not modelled included, is `components` in
`PROJECT.json`; what is hard to test in each of them is `hazards`.

## 2. Plan

| order | module | of | state |
|---|---|---|---|
| 1 | `Generations` | generation policy of the collector | done, proved |
| 2 | `HeapGraph`, `CheneyGC`, `CheneyGraph` | words of the heap; implements 1 and the graph | done, proved to implement both |
| 3 | `AnfCode`, `ClightStack` | generated C code against the collector's contract | done, proved |
| 4 | `Words`, `Uint63`, `Int63Runtime`, `Int63Wasm`, `PrimFloats`, `PrimStrings`, `PrimitiveCalls` | integer primitives of both backends, float and string primitives of the C runtime, against Rocq's | done |
| 5 | `Div21Words`, `Div21`, `Div21Wasm` | long division, as a loop, in both backends; the second implements the first | done, proved |
| 6 | `GmpNumbers`, `Gmp` | small and large integers; implements integers | done, proved |
| 7 | `ExportHeap` | `garbage_collect_all` and `export_heap`, over `CheneyGC`'s steps | done, proved |
| 8 | `CompilerCall` | OCaml threads that call the compiled compiler | done, proved |

Composition: `ClightStack` relies on the contract that `CheneyGC` and
`Generations` establish; `ExportHeap` is composed of the steps of
`CheneyGC`, in another order.  Abstract
specifications: `HeapGraph` for anything that moves objects, `Uint63` for
arithmetic, `Generations` for anything that changes a space descriptor.

Proofs: the invariants of `Generations`, the division and its refinement by the
WebAssembly backend, the refinement of `GmpNumbers`, the safety of
`CompilerCall`, `ClightStack` for every program, the invariants of `CheneyGC`
with its refinements of `Generations` and of `HeapGraph`, and the copy that `ExportHeap`
makes with the same steps in another order and under another policy.

## 3. Modules and the code

### Generations

A space is four offsets from its `start`; a generation without one (`NULL`) is
not in `created`.  The thread's `alloc` and `limit` are `alloc` and `ti_limit`.

| action | code |
|---|---|
| `Allocate`, `Modify`, `GcCall` | taking words of the nursery; `certirocq_modify`; the call, with the publication of `alloc` and `limit` |
| `Create` | top of the loop of `garbage_collect`, `create_space` included |
| `SkipEntry`, `KeepEntry`, `RemsetDone` | one entry of `forward_remset`, dropped or kept; its end |
| `Copy` | one object copied by `forward_roots` or `do_scan` |
| `EndGeneration` | the end of `do_generation` |
| `Check` | the test for room, `resume`, or the next generation |
| `Halted` | `abort_with` and failed assertions: the program has exited |

What is copied is any number of words that from-space still has: which words is
`CheneyGC`'s business.

### HeapValues, HeapGraph, CheneyGC, CheneyGraph

`HeapGraph` is what the mutator sees: a stack of frames of values and the objects
reachable from it, by identity.  Collections are not part of it.  `CheneyGC` has
the words: headers, pointers as (generation, offset), remembered cells, the
forwarding mark, the cursors of the three loops, one action per entry, root or
field.  Its policy variables are those of `Generations` and its actions call
that module's.  Identities in headers are ghosts; no action reads them.  When a
generation ends, its words become `Junk`, so that a pointer left behind reads
something that no live object can be.  A generation gets its words when
`create_space` does (`Space`).  `ObjectsAssumption` says that an object has a field:
that is where `forward` leaves the address of its copy.

`CheneyGraph` adds the variable `graph`, which is always the graph of the memory and the
shadow stack, and states the refinement of `HeapGraph` with it.  A variable rather than a
state function: TLC then computes the graph once in a state, and the mapping of the proof
is a name.

The mutator is the generated code and C stubs at their most liberal: any live
value may be stored in any live cell.  `MayStore` splits that in two (section 5).

Left out: `DEPTH > 0` (the repository builds with 0), frames of other sizes than
`Slots`, and objects without fields in the heap, which the code generator never
makes (`LambdaANF_to_Clight_stack.v`: such constructors are unboxed).

### ExportHeap

`export_heap` returns a copy of what a value reaches, outside the heap.  It moves
everything the value reaches to the oldest generation, then into a space as
large as that generation (`fake_sp`), then into one as large as what arrived
there (`value_sp`).  `Export` is its entry with that of `garbage_collect_all`,
`ToNextGeneration` a turn of the latter's loop, `ToFake` and `ToValue` the two
spaces, which take the two indexes after the last generation, and `Result` the
return; between them run the steps of `CheneyGC`, without its tests for room.
`before` is a ghost: the graph of the root when the export is called.

The assertion of `forward_remset` (`gc_stack.c:223`) can stop an export: a cell that was
stored three times is three entries, and the space of the live words may have
fewer.  The model reaches that stop (`remsetAssertion`), as it does a failing
`create_space`.  Left out: a root outside the heap, and going on after an export,
of which the repository has no example.

### AnfCode, ClightStack

`AnfCode` has the terms of the direct-style backend and the analyses of the code
generator: free variables, `max_allocs`, slots of the roots array.
`ClightStack` runs what it emits.  A C variable or slot holds an integer, a
right address, a stale one, or nothing yet; a collection makes every address
stale that is not in a slot of a linked frame below its `next`.  That is the
contract of `CheneyGC`: roots are forwarded, and nothing else is.

Programs are `WellFormed`: terms are finite trees (`Numbered`), functions are
closed, a call passes as many arguments as the function it reaches has
parameters.  That is what closure conversion and hoisting leave, and what
`translate_body` takes for granted.  A call names the set of functions that it may
reach (`fs`), since a code pointer is not a heap value and is not tracked.

| action | code |
|---|---|
| `Enter`, `Collect`, `EnterPop` | entry of a function, with its test for room and the collection |
| `Construct`, `Literal`, `Project`, `Compute`, `Switch` | straight-line code of `translate_body` |
| `CallFunction`, `AfterCall`, `Collect`, `AfterCallPop` | a call, with what is saved, and the test for room after it |
| `CallPrimitive`, `PrimitiveCollects`, `PrimitiveReturns` | a primitive that gets the thread |
| `TailCall`, `Return` | `Eapp`, `Ehalt` |

`args` of the thread, which this backend uses for the arguments beyond those
passed in C, is modelled as passing them.  Objects are not: a field of a right
address is any right value.

### Words, Uint63, Int63Runtime, Int63Wasm, PrimFloats, PrimStrings, PrimitiveCalls

`Words` has machine words and the tagging of `values.h`, for integers of
`2 * (2^LOG - 1) + 1` bits: 63 for `LOG = 5`.  All the algorithms, which split words in
halves or search by halving, exist for every `LOG`.  `Uint63` is the meaning that
the semantics of LambdaANF gives to the operators; `Int63Runtime` and
`Int63Wasm` are the two implementations, on tagged words and on untagged ones.

`PrimFloats` has the float primitives that are more than one operator of C, on floats of
a word with `EW` bits of exponent (11 in a double); `Frexp`, `Order` and the like are
IEEE's and C's.  `PrimStrings` has the bytes of string blocks, in words of
`WordBytes` bytes, made by C or laid out by the code generator for a literal
(`encode_list`).  A new block comes with the words that were asked for and those
that `alloc` goes forward by.  What `sub` reads behind a block is `Beyond`.

`PrimitiveCalls` applies every operator to the same arguments: a set of pairs of
integers, of floats and of strings (`Arguments`), in any order of the backends
and families.  What the results must be is defined there on numbers and sequences, not bits:
the next float is the least one above, a float is its mantissa times a power of
two, a string block is OCaml's layout (`Filled`).

Left out of floats: `+`, `-`, `*`, `/`, `sqrt`, `abs`, `opp`, `<`, `<=`, `==` and the
class, one operator of C or libm each; `of_uint63`, a conversion of C (which reads the
integer as signed); `ldshiftexp`, marked `todo fix` in the code.  Left out of strings: `compare`, and where
blocks lie, so that the arguments that `sub` and `cat` read after a
collection are a hazard without a property.

Left out: `land`, `lor` and `lxor`, which are one C operator each; `mods` and
`asr`.  The last two do not compute Rocq's signed operators (they read the
integers as unsigned), but nothing in the repository says what they should do.

### Div21Words, Div21, Div21Wasm

`Div21` is `prim_int63_diveucl_21` turn by turn, and `Div21Wasm` the same division
of the WebAssembly backend, which does not mask the low word and reads the next
bit after the shift instead of before it.  The second implements the first,
with its low word masked by the mapping.  `Pow2` is a table of powers of two, so
that the definition of exponentiation is not needed to prove about them.

### GmpNumbers, Gmp

`GmpNumbers` is what a program sees: integers, with the names that `GMP.v` gives
to the operations as axioms.  The quotient is not computed there but
characterised: what it leaves is smaller than the divisor and has the sign of
the dividend.  `Gmp` has the two forms of a number and the paths of the code.
`call` records what was called on what, in both, so that an operation cannot pass
for another one that happens to give the same result.  Where the code does
something else than its name says, `GmpNumbers` says so: at `Min_long`, `z_neg`
and `z_div` by -1 wrap around, and `z_abs` reads memory at an odd address (`Trap`);
a division by zero traps; `z_of_string` hands gmp a number that nothing has
initialized, and may trap; `z_compare` answers 1 for "less" between small
integers and for "greater" otherwise; `z_pow` drops the sign of the exponent and
`z_nat_pred` is meant for natural numbers.  None of this is contradicted by a
comment, document or test of the repository.

Left out: `z_logand`, `z_logor`, `z_logxor` (one C operator or one call of gmp
each), `z_to_string`, and the room that `mk_gmp_int` takes in the nursery; that
`z_nat_case` uses its second case after it may have collected is left out too.

### CompilerCall

One caller per OCaml thread and one worker per caller; `at` says where each is, and
every step is one between two points where the lock can change hands or another
thread can run.

| action | code |
|---|---|
| `Call`, `Promote` | entry of `certirocq_pipeline_wrapper`; the minor collection, and only then the struct and the root |
| `ReleaseRuntime`, `Create`, `Join`, `ReacquireRuntime`, `Back` | the caller, until it returns or runs the compiler itself |
| `Register`, `AcquireRuntime`, `LeaveRuntime`, `Unregister` | the worker, `pipeline_thread` |
| `Run`, `CopyStart`, `CopyBlock`, `CopyEnd` | `run_pipeline`, on either; each block copied may collect |
| `Exit` | `abort_with`: the process has exited |
| `Takes`, `Yields`, `Allocates` | OCaml code of the callers (external) |

A pointer to an OCaml value is nothing yet, right, or left behind by a minor
collection while no root covered it.  The copy is data: it is right if the heap
that addresses are compared with is that of the call, and the OCaml values it
keeps are where they were.  OCaml's lock is not given up inside `caml_alloc`
called from C.  Left out: compaction of OCaml's major heap (before OCaml 5 it may happen
at an allocation, and would move the arguments although they are promoted),
the sharing that `copy_value` loses, and `certirocqchk_wrapper.c`, the same protocol
for the checker with one argument and no result to copy.

## 4. Runs

| run | question | bounds, and why they are enough |
|---|---|---|
| `generations` | Do objects and remembered sets ever collide, is the request served, does a collection end? | nursery of 3 words, ratio 2, 3 generations: two rounds of the loop, each generation full, half full and empty, every mixture of copies and remembered cells; requests of 0, 1, all and more than all. The theorems cover every other size. |
| `cheney_stores` | Do the words keep to the policy and the graph, when stores go from old to young? | 3 objects of one field, 3 generations: an object in each, a store into each, an entry remembered twice |
| `cheney_shapes` | Are cycles, sharing, raw data and several frames handled? | 2 objects of 1 or 2 fields, 2 frames, 2 generations; raw data has the bits of a pointer |
| `export_heap` | Is what `export_heap` returns a full, closed copy? Does every collection and every export end, the scan catching up with the copies it causes? | 2 objects of one field, raw or not, cycles included; a nursery of 3 words and at most 2 generations, so that both the loop and the two spaces happen, after collections and before; the theorem covers every heap |
| `clight_stack` | Is anything live lost, a frame left linked, a word written without room? | all programs of two bindings, an optional branch and an end, with calls, primitives that collect, tail calls and recursion; a nursery of 5 words forces a collection at every place that has one; 3 activations |
| `primitives` | Do the primitives compute what Rocq says? | all pairs of 7-bit integers: halves of 3 bits, every carry between them, upper bits, 0 and the largest; all floats of 8 bits, 4 of them exponent: both zeros and infinities, NaNs, subnormal and normal ones; all strings of up to 4 characters, one of ASCII and one beyond, in words of 2 bytes: empty, full and nearly full last words |
| `div21` | Do both backends divide alike, turn by turn? Does the loop keep its invariant and end with quotient and remainder? | all triples of 5-bit integers; the theorems cover every other size |
| `gmp` | Is every operation right whichever numbers are tagged and whichever in blocks? | two variables, small integers -2 .. 1, numbers up to 5 (`Bound`) and exponents -2 .. 4 (`Exponents`): every operation crosses the boundary in both directions, and every number has both forms where it can; the theorem covers every other boundary and bound |
| `compiler_call` | Is the lock held, the input in place, the heap the right one? Does the compiler run once, and does the call return? | 2 callers with a worker each, calling again and again: every interleaving of two calls, every failure of a stack, a thread or a registration. The theorems cover any number of callers. |

Runs that are expected to find a violation are in section 5.  Deadlock is
checked except in `primitives*` and `div21`, which return and stop, in `gmp`, where a
trap stops the program, and in `compiler_call`, where the process may exit.

Every property of a passing run has a mutant: a definition of the same module
(named in `PROJECT.json`) that replaces one definition with what a plausible
bug would make of it, and makes the run fail on that property.

**Fairness.**  `FairSpec` of `Generations` and `ExportFairSpec` have weak fairness
of the steps of the collector and of the export, and of nothing else.  Both are function
calls on the only thread: once entered, they run until they return or exit.  The
mutator owes nothing: it may stop allocating.  In `CompilerCall` threads run
(weak fairness), OCaml code yields the lock, and a step that waits for the lock has
strong fairness: other threads may take the lock again and again, and OCaml's
master lock is handed over to those that wait.  The compiler is assumed to end, and
so is the copy, which is of a finite value; that a process exits is not assumed.

## 5. Where code and comments disagree

- **A middle generation is forgotten** (`cheney_middle`).  `forward_remset` keeps
  an entry only if the present collection moved its value
  (`gc_stack.c:230`).  A cell of generation 2 that was made to point into
  generation 1 is forgotten by the next collection of the nursery, and is left
  pointing into from-space when generation 1 is collected.  `gc_stack.h:148`
  promises an isomorphic graph.  `cheney_stores` and `cheney_shapes` show the
  promise is kept when stored pointers are to the nursery, or no younger than
  the cell.
- **Literals are not counted** (`clight_literals`).  `max_allocs` adds nothing
  for float and string literals, which `compile_float` and `compile_string` allocate
  without a test, beyond `limit` if need be.
- **`mulc` loses a carry** when both factors are at least 2^62.
- **Signs are confused.**  `addc` looks for a wrap at 64 bits;
  `addcarryc` compares a tagged with an untagged word; `subc` and `subcarryc`
  compare signed words, and so do `leb` and `ltb`, because `value` is signed;
  `compares` is registered as the unsigned `prim_int63_compare`.
- **Floats are compared by address** (`prim_floats.c:48`), after their values were read
  for a trace.
- **Strings are a word too long.**  `make`, `sub` and `cat` ask for, assert and take the
  words of the bytes, without the header: the next block is written over the last word,
  in whose last byte the length is.
- **`make` takes tagged arguments as numbers**, so that `make 1 c`, from which
  `pstring_of_string` puts strings together, has three characters.

The last five are refuted by one run, `primitives_documented`.  Its property,
`SomeAsDocumented`, is the disjunction of seven statements (`ProductOfAny`,
`CarriesSeen`, `ComparedUnsigned`, `ComparedSigned`, `ComparedByValue`,
`RoomForStrings`, `OneCharacter`), each of which the repository makes; being weaker than
each, it is violated only by a state in which all seven are false.

The results of the two on integers were also obtained from the C code itself, compiled
as it is, on 63-bit arguments: `mulc` of 2^62 + 1 by itself, `addc` of the largest integer
and 2, `leb` of the largest integer and 0.

## 6. Proofs

`Generations_proofs`, `CheneyGC_proofs`, `CheneyGraph_proofs`, `ClightStack_proofs`,
`Div21_proofs`, `Div21Wasm_proofs`, `Gmp_proofs` and `CompilerCall_proofs`, for
every value of the constants that the named assumptions of the modules allow.

**Generations.**  `NeverOverflow`, that copies and remembered sets never meet, is
not inductive.  `IInv` adds

- `Shape`: generations exist in order and do not shrink with age; one that does not
  exist has no words;
- `RoomForNext`: every generation has room in the next one for all of it and all
  of its remembered set, except where the current collection is using it;
- `Budget`: what that room is used for.  The words not yet copied out of
  generation i and the entries not yet read of its remembered set always fit in
  what is left of generation i+1.  Each step pays out of one of the two;
- `YoungerEmpty`, `RemsetAssertionHolds`, `NurseryLargeEnough`, which are worth
  stating for themselves.

There is one lemma per action.  The hard one is `Create`, where a new
generation's `RATIO * w` words must cover the worst case, for which
`RATIO >= 2` is needed: w words of objects and the remembered set share them.
Proved from `IInv`: `TypeCorrect`, `Safety`, `Room`, `AssertionSafe`, `NurserySafe`,
`YoungerSafe`, and the action properties `Served` and `OldestGrows`.

**Words of the heap.**  `HeapInv` of `CheneyGC_proofs` says what a heap in the
middle of a collection looks like:

- `Objects`: headers and fields fill the words in use without overlap (`Layout`),
  no object is in two places (`Unique`), only the generation being collected has
  copied ones and each knows its copy (`FromOnly`);
- `Fields`, `Roots`: fields and slots hold values, that is integers or the address of
  an object, copied or not.  An address in the middle of an object would be read
  as one with a header;
- `Counted`: the words of the objects already copied are the words that
  generation i+1 has got since the collection began;
- `Entries`: an entry of a remembered set is a field of an object of that
  generation or an older one;
- `Covered`: a field that points to a younger generation is in its remembered
  set; if that is the generation being collected, the field is still to be read,
  as an entry or behind the scan.  Without it `EndGeneration` would leave fields
  that point to `Junk`;
- `RootsDone`, `Cursors`: what the loops have been through is free of pointers into
  from-space, and they stop at headers.

What it takes for a step to keep it is `Bounds`: offsets in order, and room for what is
left to copy.  `Bounds` follows from `IInv` of `Generations` (`BoundsHold`), so that the two
invariants are kept together, and it is weaker, so that `ExportHeap` can use the same lemmas
with offsets that no policy of `Generations` reaches.
`Counted` is what links words and offsets: an object that is not copied yet is among the
words that the policy has as `Uncopied`.  Each copy is an `Appended` object and a
`Marked` one, with a lemma for either.  A write of a field is `WrittenKeeps`.

From this follow `PolicyIsRefined` (`PolicyRefined`), `TypeCorrect`,
`SharingIsPreserved` and `RememberedSetIsComplete`.  For the last two, live pointers
are shown to be to objects that are where the program will find them
(`LiveSettled`), by a least counterexample over the steps of `Closure`.

All have a hypothesis, `StoresYoung`: a store is of a pointer into the nursery or
into a generation no younger than the cell's.  It is what `cheney_stores` and
`cheney_shapes` run with, and without it the property is false of the code
(`cheney_middle`, section 5).

**The graph.**  `GraphIsPreserved` of `CheneyGraph_proofs` is `GraphPreserved`: the refinement of
`HeapGraph`.  Its parts:

- the graph restricts the objects of the heap, by identity, to those that the search of
  `HeapGraph` finds.  The search ends after as many rounds as there are identities, and what it
  has found then is the least set that has the roots and is closed (`ReachIsLeast`): a
  search that grows in each round but the last would otherwise find more identities than there are.
  After that no proof speaks of rounds;
- a memory is `Alike` to one before it if every word that was a value is one still, and means the
  same (an identity, an integer or raw data), and every object that is in it was there
  with the same contents.
  `GraphKept` says that the graph is then the same.  That an identity is of one settled
  object is `Unique` of `HeapInv`; what is not reachable may differ;
- each step of the collector is between memories that are `Alike`: `forward` by cases on what
  it is given, its copy made in two steps (`CopyWords`), and `EndGeneration`, whose
  from-space becomes `Junk`, because nothing that is found is there any more (`CollectorGraph`);
- each operation of the mutator is the operation of `HeapGraph` on the graph before it
  (`LoadGraph`, `DropGraph`, `CallGraph`, `ReturnGraph`, `StoreGraph`, `NewGraph`).  A search
  from less, or through one field that was replaced, finds nothing new, so the set it found before
  is closed for it (`SameReach`).

It is under `StoresYoung` too; `cheney_middle` refutes it without.

**Export.**  `ExportIsACopy`, in the same module, is `ExportIsCopy`.  `ExportInv` is `IInv` and
`HeapInv` until the call, and `Kept` while the export runs:

- `ExportBounds`: the spaces follow each other, a generation that is still to be collected into
  the next has room there for all of it and its remembered set (`Rooms`, which the policy leaves behind,
  `RoomForNext`), and a space made for the copy has exactly the words in use in the one before
  (`TwoSpaces`).  That leaves no room for remembered cells, and none is added: those of the oldest
  generation are its own, which are skipped (`OnlySkips`).  `Bounds` follows, except once
  the result is there, where there is no generation i+1 any more;
- the graph of the root is `before`, by the lemmas on the collector's steps, which ask for `Bounds`
  and not for the policy;
- `AllLive`: from `fake_sp` on, everything but what is being copied is live.  `forward` adds copies
  of what it is given, which is a root or a field of something that is live (`RoundLive`);
- `Headed`, `Filled`: objects follow each other from the first word on.  So what `fake_sp` holds when
  it has been copied was copied object by object: all of it is live, and the live objects are in
  `value_sp`.  Its words are those that `Counted` counts, hence `value_sp` is full (`EndFilled`);
- `Rooted`: the root is the first value forwarded into the empty `value_sp`, so its copy is the
  first object.

`AllLive` is false of the generation that is copied to `fake_sp`: that one is as large as all that the
generation has in use, dead objects too, and may have words to spare.  That is why there are two
spaces.  The theorem is under `StoresYoung`, as the others are.

**Generated code.**  The first part of `ClightStack_proofs` shows, of every well-formed program, that the
recursive functions of the analyses satisfy their equations and that the lists of
variables to push are the sets that they come from (`CompiledCode`).  A recursive
function is a `CHOOSE` in this logic; that one exists, on terms of any size, is
`Recursion`, again by least counterexamples.

`StackInv` says of each activation that it is in the code of its
function with enough slots (`Typed`), and that what the rest of its code reads is in
its variables while it runs and in its slots while it waits (`Holds`).  `Chained`
says which frames are linked: `prev` of each is the last activation below
that has pushed something, and `fp` the last of all.  It is needed because an
activation that pushes nothing links no frame, so that neither `prev` nor `fp` can
be computed from the depth.  A collection then goes through just those frames (`ChainVisits`), and
makes nothing stale that `Holds` is about.  From it follow `StackInvariant`,
`FramesAreLinked`, `RootsAreScannable` and `LiveIsFresh`; `AllocIsPublished` is
inductive with it.

`WordsAreThere`, `ObjectsWithinLimit` and `TypeCorrect` have a hypothesis,
`LiteralsAllocateNothing`: that float and string literals take no words, which is
what `max_allocs` computes with.  `RoomInv` is the strengthening: the words until the next call
are there while code runs, asked for while the collector is called, and there
again when it returns.  `ObjectsWithinLimit` is the property that `clight_literals`
refutes; with the hypothesis it holds, so literals are its only cause.

**Division.**  The comment's invariant mentions `xl * 2^i % 2^63`, which no prover
can carry along a loop.  `LoopInv` says instead that `xl` splits in `hi`, brought
down already, and `lo`, to come: `nl` is `lo` shifted by i and
`q * y + nh = xh * 2^i + hi`.  Then each turn is linear.  Exponent laws are not
proved by induction but kept in the invariant: `2^i * 2^(SIZE-i) = Base` holds
at 0 and is preserved.  `q < 2^i` shows the quotient never overflows.  From
this follow `Division`, `TypeCorrect`, and `Loop`, the comment's own invariant.

`Div21Wasm_proofs` shows `Implements`: every turn of the unmasked loop is a turn of
the masked one.  All that it needs of the unmasked word is that it is a word
(`Ranges`), and a lemma on shifting a word without a mask, by cases on its two
upper bits.  `Division`, `Loop` and `TypeCorrect` of the WebAssembly backend then follow from
those of the C runtime, cited through an instance of `Div21_proofs`.

**Large integers.**  The invariant is the type of the registers: a tagged word
holds a small integer.  `UnaryRight`, `BinaryRight` and `DivideRight` say what each
operation returns, on either path; the hard one is that a quotient of small
integers is small except for `Min_long` by -1, which rests on the quotient being
as large as the dividend only for a divisor of 1 or -1.  `Step` lifts them to
the actions, and `TypeCorrect` and `Implements` follow.  They hold for every
`Max_long >= 1`.

**Calls of the compiler.**  The invariant has two layers.  `Control` is about where
threads are and who holds the lock: a worker that is anywhere has its caller in
`pthread_join`, and a thread inside the runtime holds the lock (`RuntimeHeld`).
No data disturbs it, so each action is one application of `ControlMoves`.  `Data`
is about one call at a time, given `Control`: what its pointers and counters are at each
step of its two threads.  What makes it inductive is that from `Promote` on
nothing of the call is young, so that a minor collection by anyone ages nothing in it
(`CollectedOnlyAges`), and that only a thread with the lock is in the copy.  From the two follow
`TypeCorrect`, `RuntimeIsHeld`, `InputStaysInPlace`, `HeapIsOwn` and
`CompilerRanOnce`, for every set of callers.

**Only model-checked.**  Liveness (`CollectionEnds`, `CallsEnd`, `CallReturns`): temporal proofs
with fairness are out of the prover's reach.  `PrimitiveCalls`: bitwise operators, and recursive definitions of data, cannot be
used from a module with a theorem.

## 7. Not modelled, and why

- The passes from Rocq terms to LambdaANF: pure functions, most of them proved.
- The CPS backend: proved in Rocq, not the default.
- WebAssembly code other than its primitives: proved in Rocq.  What the proof takes as a
  hypothesis, that memory grows enough, is a hazard without a property.
- `reset_heap`: nothing calls it.  `free_heap`, printing of heap statistics, messages, main functions: output.
- Address space limits (`gc_stack.c:412`, pointer subtraction across half the
  address space) and the 251st boxed constructor of a type: they need real widths.
- Arithmetic of floats: C's and IEEE's.
- The room that primitives take in the nursery, and their collections: `ClightStack` has
  that a primitive may collect, `PrimStrings` what it asks for; the two are not composed.
- The plugin's tables across undo and dynamic loading: what is hard in them is Rocq's
  and the system's behaviour, which a model would have to invent.
- The pass manager: a sequential composition of pure functions in a state and error monad.
