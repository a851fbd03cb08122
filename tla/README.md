# TLA+ models of go-xla

go-xla binds Go programs to OpenXLA: package `pjrt` wraps the C API of a PJRT
plugin (a shared library that compiles and runs programs), `stablehlo` writes
the programs, `compute/xla` offers both as a GoMLX backend, and `installer`
downloads plugins. This directory holds TLA+ models of the parts whose
correctness depends on order: who destroys what, and when; which goroutine or
process is where; and of the parts that compute what a program looks like:
shapes, names, devices. TLC checks the models on small instances and TLAPS proves
many of their properties for all instances.

Files: one module per component, `MC*.tla` for instances that need more than a
configuration file can say, `*Proofs.tla` for theorems, one `.cfg` per run, and
`PROJECT.json`, which relates definitions to lines of the source, properties to
hazards, and lists runs, findings and theorems.

    tlc -workers 2 -config MCLifecycleGc.cfg MCLifecycle
    tlapm PjrtLifecycleProofs.tla

## 1. Inventory

### PJRT objects (`src/pjrt`: clients, buffers, loadedexecutables)

*State.* A Go object (`Client`, `Buffer`, `LoadedExecutable`) has a wrapper
with the pointer to the C object; a package-wide counter of live buffers and
one of loaded executables; `Plugin.api`. *Operations.* Creation
(`newClient`, `newBuffer`, `newLoadedExecutable`), `Destroy`, queries that call
into the plugin, `Plugin.Free`, and the cleanup that `runtime.AddCleanup`
registers, which the runtime calls on a goroutine of its own when the collector
finds the object unreachable. *Interaction.* Buffers and executables hold their
client, in order that it not be collected before them; execution consumes and
creates buffers; every call borrows an arena from the plugin's pools, and
`Plugin.Free` drops these pools without waiting for calls. *Hard.*
Cleanups run concurrently with each other, with explicit `Destroy` and with C
calls; only reachability orders them. *Correct when* each C object is destroyed
at most once, not under a call, buffers and executables before their client,
shared storage after its buffer, counters exact, and everything dropped is
reclaimed.

### PJRT execution (`loadedexecutables.go`)

*State.* `ExecutionConfig` (inputs, device, `nonDonatableInputs`, error), the
events and output buffers a launch makes, one per device. *Operations.* the
configuration methods and `Done`. *Interaction.* Takes buffers, hands out
buffers, destroys donated ones; awaits the plugin's events. *Hard.* Devices
finish in any order, one of several may fail after the launch, donation is
numbered over all inputs in Go and per device in C. *Correct when* outputs are
complete and in order, exactly the donated inputs are gone after success,
nothing is leaked on failure, `Done` returns.

### Arenas and their pools (`arena.go`, `src/internal/pool`)

*State.* An arena: a block of C memory and an offset. Pools: per processor of
the Go scheduler (P) a linked list of free arenas, for 14 sizes. *Operations.*
`Get`, `Put`, `Reset`, `Free`, allocation. *Interaction.* A call of package `pjrt` gets an arena before it builds the
arguments of the C function and returns it when it ends; `Plugin.Free` empties
the pools meanwhile; the collector frees what nothing refers to. *Hard.* `Get`
and `Put` use no atomic operations; they rely on `procPin`. Goroutines migrate
between calls. `Done` sizes its arena by an estimate.
*Correct when* no arena is with two calls at a time, none is lost, a reused one
is zeroed, and the size asked for covers what is allocated from it.

### Plugin registry and loading (`plugins.go`, `dynamiclib_*.go`)

*State.* `loadedPlugins` by name, a mutex; the directories of the library path.
*Operations.* `GetPlugin`, `RegisterPreloadedPlugin`, `FreeAll`, the search along
the library path. *Interaction.* `compute/xla.New` installs, lists and loads, while
other processes replace the files it looks at. *Hard.* Each step of `New` looks at
the directory anew; registration writes the map without the mutex. *Correct when*
a plugin that is installed is found and loaded whole, plugins are singletons per
library and search prefers the documented order.

### Compilation options (`compile.go`)

*State.* `CompileConfig`: program, replicas, partitions, SPMD, device
assignment, portability, error. *Correct when* the assignment has a device per
replica and partition and conflicting settings are refused.

### Installers (`src/installer`, `src/cmd/pjrt_installer`)

*State.* All on disk: the plugin, its libraries, a lock file, temporary files,
a download cache. *Operations.* `AutoInstall` per platform (CPU, CUDA, TPU,
ROCm), the command-line installer, `DownloadURLToTemp`. *Interaction.* Processes
meet only on the file system; the four `AutoInstall`s share
`checkInstallOrFileLock`. *Hard.* Any process may fail or die between two steps;
names of temporary files are shared; one installer deletes the directory its
lock is in. *Correct when* installation is exclusive, a plugin that is visible
is whole and usable, success means installed, waiting ends, and a repeated call
changes nothing.

### StableHLO builder (`src/stablehlo`: builder, function, statement, value)

*State.* Functions, closures, values, counters for names, `Returned`.
*Operations.* `NewFunction`, `Closure`, inputs, `Return`, the statements,
`UseParentValue`, `Build`. *Hard.* Sequential, but the program may work on
several functions in turns, and counters are kept at the root of a tree of
closures. *Correct when* counted names are unique within a root function, statements
refer only to values in scope, statements still agree with the functions they
refer to when the text is written, a returned function does not grow.

### StableHLO operations and shape inference (`ops.go`, `collective.go`, `src/internal/shapeinference`, `src/types/shapes`)

Pure functions from operand shapes and attributes to result shapes or an error.
*Hard.* A dimension may be unknown until run time; each of some sixty rules
treats that on its own, and their results feed each other. *Correct when* the
inferred shape is true of the value at run time, no program is refused that is
right at run time, and axes, dilations and paddings are counted as the
operation's definition counts them.

### Shardy (`src/types/shardy`)

*State.* A mesh: names and sizes of axes. *Operations.* `NewDeviceMesh`,
`ComputeReplicaGroups`, validation of sharding specifications. *Correct
when* the groups partition the devices and each fixes the axes not asked for.

### compute/xla (`src/compute/xla`)

*State.* `Backend` (plugin, client, finalized or not), buffers, executables,
registry of auto-installers; a `Builder` with its distribution (strategy, number
of devices, meshes, device assignment) and the reduction functions it keeps; a
`Function` with its parameters. *Operations.* Besides those of the builder, some
hundred operations of a `Function`, each ending in one or several of package
`stablehlo` with operands stretched and arguments completed; fused attention by
cuDNN. *Interaction.* A builder drives a
`stablehlo.Builder`, and `Compile` drives a `pjrt.CompileConfig`; each of the
three keeps its own count of devices and inputs. *Hard.* Finalization while
buffers are in use; setters that may be called again and may fail half-way;
functions made on demand in one function and used from others; calls that stand
for several operations, whose shapes must fit each other. *Correct when*
the accounts agree in every program that compiles, operations have the shapes the
interface promises, and the order of operands does not matter where it should not.

### Left aside

Terminal interaction, version lookups on PyPI, hardware probes, error and named
value conversion, generated protocol buffers, generators and tables of
operations keep no state that their order of use could break.

## 2. Plan

Order: what can corrupt memory first, what leaves a machine without a working
plugin next, sequential code last.

| # | Module | Composes | State |
|---|---|---|---|
| 1 | `PjrtLifecycle` | | done, `PjrtLifecycleProofs` |
| 2 | `ObjectPool` (abstract), `ProcPool` | `ProcPool` implements `ObjectPool` | done, `PoolProofs` |
| 3 | `ArenaPools` | extends `ProcPool`; `Plugin.Free`, the estimate of `Done` | done, `PoolProofs` |
| 4 | `Execution` | | done, `ExecutionProofs` |
| 5 | `FileLock`, `DownloadCache`, `CpuInstall`, `WheelInstall` (TPU, ROCm) | each extends the one before | done, `InstallProofs` |
| 6 | `PluginLoading` | `New`, which lists and loads, over the installations | done, `InstallProofs` |
| 7 | `CudaInstall` | extends the lock | done, `CudaInstallProofs` |
| 8 | `Shapes`, `ShapeInference`, `Operations`, `ShapeProgram` | each extends the one before | done |
| 9 | `XlaOps`, `Attention`, `XlaProgram` | the backend's operations over those of `stablehlo` | done |
| 10 | `StableHLO`, `XlaFunctions` | the backend's reductions over the builder | done, `XlaFunctionsProofs` |
| 11 | `DeviceMesh`, `CompileConfig`, `XlaBuilder` | the backend's builder over meshes and options | done, `XlaBuilderProofs` |
| 12 | `ShapeProofs`, theorems about `ShapeProgram` and the direct programs of `XlaProgram`, with a lemma on each rule of `ShapeInference` | | done |
| 13 | `XlaBackend` over `PjrtLifecycle` | finalization; donation of shared buffers with `Execution` | later |
| 14 | `CudaInstall` over `DownloadCache` | | later |
| 15 | the registry of a program that loads several plugins | implements a singleton per library | later |

Abstract specifications worth stating: the object pool (done), a registry of
singletons, an installation that is atomic. Theorems worth proving next:
those on shapes for programs of the backend. Runs
stay small enough to finish in a few minutes; bounds are listed in section 4.

## 3. Modules and code

Operators called `Name_Variant`, commented "Seeded bug", are not part of a
model: they are `Name` as a plausible mistake would have it. Put in place of
`Name`, each must make TLC find the property violated that `PROJECT.json`
pairs it with, which shows that the property depends on the code.

### `PjrtLifecycle`

One record of a C object per Go object: `life` (what the plugin knows), `c` (the
wrapper's pointer), `cleanup` (`unset`, `armed`, `fired`, `stopped`), and `pc`,
with an entry for the goroutine of the program and one for the cleanup. A C call
is two steps, between which anything may happen: `BufferDestroyCall` is
`bufferWrapper.Destroy` up to the C call, the pointers reset, as in
`buffers.go:80-86`; `BufferDestroyReturn` is its effect, the counter and the
deferred free. `ClientDestroyReturn` resets its pointer after the call instead,
as `clients.go:218-228` does.

`Collect(o)` fires the cleanup of an object that is armed and unreachable.
`BufferReachable`, `ExecReachable` and `ClientReachable` transcribe which Go
pointers and `runtime.KeepAlive` calls hold what: a wrapper is the argument of
its cleanup and so held by the runtime until the cleanup has run; the cleanup of
an executable has `loadedExecutableC`, which does not refer to the client;
`UnsafePointer` (call kind `raw`) has no `KeepAlive`.

The program is assumed to make no call through a nil `api` or client, not to
destroy what one of its own calls is using, and to make its calls on one object
one at a time: the package does not claim otherwise. `Calls` says which
optional calls it makes: `ClientDestroy`, `PluginFree`, `UnsafePointer`.

Left out: cached dimensions and types, devices, events, `Executable` (same
pattern), donation (see `Execution`), and the reuse of a freed address by the
plugin.

### `ObjectPool`, `ProcPool`

`ProcPool` takes `Get` and `Put` store by store: pin and read the head, advance
the head, clear the link; and pin, link, push. `Unpinned(p)` is the exclusion
that `procPin` gives. `Heads` are the Ps below `maxProcs`; on others the code
unpins and panics (`PoolPanic`). The mutex of race builds adds nothing beyond the pin
and is not modelled. `New` runs unpinned. `ObjectPool` is the promise: an object handed out is
with nobody else. `ImplementsObjectPool` maps the objects nobody has in hand to
the abstract `free`.

### `ArenaPools`

`ArenaPools` extends `ProcPool`: the objects of the pool are arenas, and the
actions of a call are those of the pool with what the call does to the arena.
`arenaPools` has one pool for each of 14 sizes, which differ in nothing else;
one is followed, so that `PoolSize` stands both for the smallest and the largest
pooled size, and anything above it is `Large`: allocated directly, freed by
`Return`. `current` is the arena's offset; `dirty` is the end of what may not be
zero; `need` is what the call that has the arena will still allocate, rounded to
8 bytes, which is how the model says that the arena was large enough. `GetArena`,
`Alloc`, `ReturnArena` and `FreeArena` follow `arena.go`; `Execute(e)` is the
arithmetic of `Done`, the size it asks for against each slice it allocates.

`Plugin.Free` drops the pools in two steps (`ap.pools = nil`, then
`p.arenaPools = nil`), and a call in progress meets either: `CallPanics`.
`Collect` is the cleanup of an arena that nothing refers to; an arena in the
pool is held as long as the pool is. What deferred functions do after a panic is
not followed: a goroutine in `down` takes no step.

`CallNeeds`, the calls with an arena of default size, are assumed to fit it
(`ArenaAssumption`). In the code this holds up to ranks of about 240; above,
`BufferFromHostConfig` would panic in a default arena of 2048 bytes. That an
arena runs out is a panic in the code and has no action here: `AllocationsFit`
says it does not happen.

### `Execution`

The shape (devices, inputs, outputs, portable, aliased arguments) is chosen in
`Init`; actions are the configuration methods, then `Done`: refusal, launch,
`Await` per device, `WrapOutputs`, `DestroyDonated` per input. `DeviceCompletes`
is the plugin's: any device, any order, well or not. `intact` is what the launch
left of an input: the plugin takes the memory of arguments it is allowed to
alias (`aliased`, a property of the program) and whose *argument* number is not
in the non-donatable list, the same list for every device. Its arena is in
`ArenaPools`. Not modelled: the same buffer given twice, buffers of other clients, an executable
already destroyed (`Done` returns an error at once).

### `FileLock`, `DownloadCache`, `CpuInstall`, `WheelInstall`, `CudaInstall`

A lock is on an inode; `lockFile` is the inode the name leads to, so that
deleting the name and creating it anew gives a different lock, as `flock` does.
`TryLock`, `LockTimeout`, `TryLockFails`, `Unlock`, `Die` are the outcomes of
`checkInstallOrFileLock` and the ways a lock is let go of.

`DownloadCache` is `DownloadURLToTemp`: look in the cache (`UseCached`), or truncate
`<file>.tmp` (`CreateTmp`), write it (`Download`), compare the hash and remove what has
the name (`Uncache`), rename (`Store`); without the cache, a file of one's own
(`DownloadPrivate`). A file is named after the process that created it and takes its contents
along when renamed, so that two processes that write one file are two writers here as well.
What is received may be an error page, as the code does not look at the status of the
answer. That `Close` fails, which the code only logs, is left out.

`CpuInstall` follows `CPUAutoInstall` and `CPUInstall`: fetch, extract in a private directory, remove
the old plugin, rename, replace the link. Extraction comes to its end with a whole
archive only. `Fail` is an error return at any of these steps (directory removed, lock
released), `Crash` a death: the disk stays as it was. That releasing a lock itself fails
is left out.

`WheelInstall` adds `TPUInstall` and `RocmInstall`, which extract from a Python wheel to
`<plugin>.tmp` and rename it. `kind` is the plugin that the processes of a
behaviour install; only the TPU's wheels come with a hash. Plugins of different kinds
have different locks and files. `Skip` is a machine without the accelerator.

`CudaInstall` follows `cuda.go`: `os.RemoveAll` of the directory, entry by entry
(`RemoveEntry`) and then the directory; libraries extracted in place; the plugin
by way of a shared temporary name. `writing` follows an open file through
renames and deletions by others. `Commands` are runs of `pjrt_installer`, which
takes no lock. `alone` restricts a behaviour to one process at a time: crashes
and restarts without overlap. Versions and platform probes are left out of all
of them, and downloads out of `CudaInstall`.

### `PluginLoading`

`compute/xla.New` over the installations of `WheelInstall`. Each of `Processes` is one
call of `AutoInstall`; the program makes two of them, `InstallCall` in
`NewWithOptions` and `ListCall` in `GetAvailablePlugins`, and the others are calls of
other processes. `at` is how far `New` has come: `AutoInstalled`, `List` (the
directory is read), `CheckPlugin` (a library seen is opened, one at a time),
`Choose`, then `Find`, a second search under the chosen name with the same checks,
`Found`, and `LoadPlugin`. Between any two of these steps the others may remove
the plugin, rename, and relink. `undisturbed` is a history variable: a call of the
program has returned that the plugin is there, and nothing has gone since.

Left out: the hardware checks of `checkPlugin`, further plugins and directories,
plugins given by absolute path, the options of `New`, a second `New` in the same
program (whose list is cached), `RegisterPreloadedPlugin` and `FreeAll`.

### `Shapes`, `ShapeInference`, `Operations`, `ShapeProgram`

`Shapes` has element types and dimensions, with -1 for a dimension that is only
known at run time. `ShapeInference` has one operator for each function of
`internal/shapeinference`, from operand shapes to `Ok(shapes)`, `Error` or, where
the code indexes out of range, `Panic`. `Operations` adds what `ops.go` and
`collective.go` do around it: negative axes, default arguments, operations
without a rule. These three are pure; formulas for windows, paddings and
convolutions are those of the code.

`ShapeProgram` makes them a system: a program under construction whose latest
value is a pair, the `inferred` shape and the `actual` one it has at run time.
Each action applies an operation to both sides. Where the inferred dimension is
computed by a formula (slices, pads, windows, convolutions), the actual one is
*counted* from the definition of the operation, so a wrong formula is seen even
on known shapes; where the code leaves a result unknown, any actual shape that
the operation permits is taken. The program stops at the first failure of either
side. Unknown dimensions thus flow through chains of operations and meet known
ones. Dimensions of zero, tuples and quantized types are left out; element types
are one of each kind the rules tell apart.

### `XlaOps`, `Attention`, `XlaProgram`

`XlaOps` has an operator for each operation of a `Function` of `compute/xla` that
does more than hand its arguments on: operands stretched to a common shape,
scalars spread, default axes, closures for the type of the operand, operations
put together from several (`Conj`, `IsNaN`, `SchedulingBarrier`, dots with an
accumulator type, `AllReduce` of operands of several types). Each ends in operators of
`Operations`, so an error of package `stablehlo` is an error of the call.
`Attention` is `flash.go`: which calls go to cuDNN, and the shapes of forward and
backward passes from the layout and the lengths.

`XlaProgram` extends `ShapeProgram` with these operations. `api` tells who writes
the program: package `stablehlo` directly, or the backend on the CPU or on a GPU,
whose values all have known shapes. What the backend hands on as it is, is in the sets
`Relayed...` and is the action of `ShapeProgram`. For the others, the run-time
shape is stated from the interface and not from the parts the backend builds: the
shape to which all operands stretch, the axes that remain, the windows counted one
by one, for attention the products of queries, keys and values. `OperandOrderIrrelevant`
compares each call of two operands with the call that has them exchanged.

Left out: precisions and algorithms, random state beyond its shape, the text of the cuDNN
configuration except what decides shapes.

### `StableHLO`, `XlaFunctions`

`functions` is `Builder.functions` in order of creation. A function has its
parent, inputs, statements, outputs, whether it has returned, and the counters,
which only those of a root count. Names are pairs of a kind and a number or a
given name; a program that itself names an input `arg3`, and so may meet a counted
name, is not considered. A step is one call; a call
that fails without a trace is none. `Return` is: it closes the function before
it looks at the values. `Nested` is a second initial state, a program that has
already three nested functions, because the interesting cases start there.
`Disciplined` restricts the program to ending a function before passing it on
or calling it; nothing in the code asks for it, and without it `SignaturesAgree`
fails (a function that has returned still takes inputs).

Operands are visible if the text, as `Write` lays it out, defines them before:
`Before`, and `around` for closures, which are written at each statement that
takes them. Attributes, channel ids and shapes are left out.

`XlaFunctions` adds the state that `compute/xla` adds: the combining function of
a reduction, made on the first use and kept by the `Builder` (one pair of data
type and operation is followed). A later reduction in another function finds it
there and is refused, leaving its initial constant behind; that is part of the
action.

### `DeviceMesh`, `CompileConfig`, `XlaBuilder`

`DeviceMesh` is `types/shardy` as operators. `CompileConfig` is the chain of
options as a record that each operator maps to the next, with the sticky error;
`DefaultDeviceAssignment` is the plugin's (external): the first devices, if there
are enough. Debug options and the encoding to protocol buffers are data. `Nil` is the
nil list of devices, and the nil proto, which the code tells from an empty list
(`compile.go:143`, `:149`, `:387`): nil takes an assignment back, while the empty list
that is the default for no partitions (`clients.go:98`) is stored. So
`WithShardy(0)` passes `Done`, which counts one partition and has no device for it;
`OptionsConsistent` names this case (`Deviceless`). The executables of the builder are never
of that kind: its own list is nil or has a device, and nil takes the default back.

`XlaBuilder` is `compute/xla.Builder` from the first call to the executable.
`strategy`, `numDevices`, `meshes`, `deviceAssignment` are its fields; `hlo` is
what it has told the `stablehlo.Builder`; `parameters` and `inputs` are its own
and the stablehlo function's list of inputs. Calls that fail half-way
(`DistributedAutoSharding` with a bad mesh, `Parameter` with a bad sharding,
`DeviceAssignment` with a device out of range, `Return` of foreign values) change
what the code changes before the error, and are noted in `errors`, on which some
properties are conditional: after such a failure the accounts do differ. A mesh
that could not be made is `NilMesh`; dereferencing it, a panic in the code, counts
as an error here. `ModuleFor` is what the module is told of a distribution by meshes: the
backend sets the numbers of replicas and partitions over those of `WithShardy`
(`builder.go:208-209`). `ModuleAgrees` is stated for a distribution chosen once; a
second choice is in the model, and no property is about it. The alternative `direct` is a program that uses `CompileConfig`
without the builder, its options in any order.

## 4. Runs

| Run | Question | Bounds |
|---|---|---|
| `lifecycle_gc` | clients left to the collector: never gone before what uses them, counter exact, what is dropped is destroyed | 1 client, 2 buffers, 1 executable |
| `lifecycle_destroy` | explicit `Client.Destroy`, `Plugin.Free`, `UnsafePointer` at any time: no double destroy, none under a call | 1 client, 3 buffers, 1 executable, symmetric, counter followed to -1 |
| `lifecycle_destroy_race` | fails: a buffer is destroyed after its client | 1 client, 1 buffer |
| `arena_pools` | exclusive hand-out, nothing lost, refinement, arenas whole and zero, no call short of memory, `Plugin.Free` at any time | 2 goroutines, 3 Ps of which 2 have lists, 3 pooled arenas and 1 large, 3 calls of `Get` of the pool, symmetric |
| `execution` | outputs, donation, return of `Done` | up to 2 devices, 3 inputs, 2 outputs each |
| `execution_kept` | fails: donation of inputs not marked | 2 devices, 2 inputs, 1 output |
| `plugin_install` | exclusive, plugin and cached archive whole, success means installed, no waiting in vain, `New` finds what is installed | CPU, TPU or ROCm, 4 calls of `AutoInstall` of which the program makes 2, with and without cache |
| `cuda_install` | whole libraries next to the plugin, everyone returns | 3 processes, one a command |
| `cuda_install_lock` | fails: the lock is deleted under its owner | 2 processes |
| `shape_program` | inferred shapes are true at run time, nothing right is refused, no element is lost, operands may be exchanged | programs of 2 operations over 12 inputs, or 7 inputs of the backend on CPU and GPU; rank 3 (4 in attention), dimensions to 5 (8) |
| `stablehlo` | names, visibility, signatures, with the backend's reductions | 3 functions, 5 calls |
| `xla_builder` | the accounts of devices and parameters agree | 4 devices, 7 lists of meshes, 6 calls |

*Why these bounds.* Two buffers and an executable are what it takes for a copy
or an output to refer to a client through one path while another goes; one
client is enough since no action relates two, and the invariants are proved for
any number. The identities of objects are used once (`none` to
`live` to `freed`), which loses nothing: a new object has a new C pointer.
Two goroutines on two lists, with three arenas, have lists of length over one
and arenas that change lists and are used again dirty; of the two executions,
one fills a pooled arena to the byte and the other a large one. Next to the two calls of
`New`, two other processes let one wait for the lock or hold it while the other has
crashed before; in `cuda_install`, three do the same. Two operations put the result of any rule,
known in part, before any other rule; longer chains have no new pairs. Three
functions are a function, its closure and a closure of that, or two roots and a
closure. Six calls are a distribution, an assignment, a parameter, a return, a
compilation, and one call too many in between.

Deadlock is not checked: programs stop, pools are used up to their bound,
processes end.

*Symmetry* is used in `lifecycle_destroy` (buffers) and `arena_pools` (goroutines,
arenas, Ps with a list), whose configurations tell none of these apart and
check no liveness.

### Fairness

`lifecycle_gc`: the collector keeps finding unreachable objects, cleanups it
has queued get to run, and C calls return. The first two are what the Go runtime
does in a program that goes on allocating (it does not promise a cleanup before
the program exits); the last is the plugin's. The program itself is not fair: it
need not drop or destroy anything, and the properties ask nothing of objects it
holds. `ClientReclaimed` therefore speaks of clients of which nothing is held
from some point on.

`execution`: `Done` is sequential code that runs on, and a launched device
completes, well or with an error. `cuda_install`: a process that has not died
takes its next step, a failing one included; waiting for the lock
ends by the polling (every second) or by the timeout.

## 5. What the runs found

1. `lifecycle_destroy_race`: `bufferWrapper.Destroy` gives up its reference to
   the client (`buffers.go:85`) before it calls `PJRT_Buffer_Destroy`. Between
   the two, a client that the program has no more use for can be collected and
   destroyed. The counterexample enters by an explicit `Buffer.Destroy`; the cleanup
   of the buffer calls the same function. The client is destroyed by its cleanup.
2. `execution_kept`: indices of inputs are passed where indices of arguments of
   one device are expected, so donating the input of one device donates it on
   the others.
3. `cuda_install_lock`: installing CUDA deletes the directory of its own lock.

Further gaps seen while modelling, most of them noted as hazards, without a run
of their own:

*Lifecycle, arenas.* The buffer counter is decremented without resetting the
wrapper once the client is destroyed (`buffers.go:72`), so it can fall below the
true number; `Buffer.Check` does not look at the client it says is invalid; after
`Plugin.Free` shared storage is freed while its buffer is not destroyed;
`Plugin.Free` makes calls in progress panic when they return their arena
(`CallPanics`).

*Execution.* `ExecuteAndWait` returns at the first device that failed; the events
of later devices and all outputs are left. A program with no outputs makes `Done`
dereference a nil list (`WrapPanics`).

*Installers.* A process that waited for the lock does not look again whether the
plugin is there, and installs over it, with a moment without any; the link of the
CPU plugin is not repaired after a crash. `DownloadURLToTemp` does not look at the
status of the answer (`download.go:71`), so without a hash an error page stays in the
cache as the archive. The cache and its `.tmp` names belong to the user but the lock to the
install directory, and the installer command takes none: two writers at once can
leave a part of an archive in the cache. `CacheComplete` says what holds under one lock.

*Registry and loading.* `checkPlugin` goes on with the nil handle of a library it could
not open (`dynamiclib_base.go:243-255`) and panics: at a broken library, or at a link
that another process is just replacing (`CheckPlugin`, place `panicked`). The list of
available plugins is kept once it is not empty, so a plugin installed later is "not
found", and is filled without a lock. `loadedPlugins` is "Protected by muPlugins", but
`RegisterPreloadedPlugin` and the search use it without. A plugin loaded by its path and
again by its name is two plugins. `FreeAll` leaves what it has freed in the map.

*Shapes.* `If` takes the shapes of the true branch, so a dimension unknown in one
branch only may be claimed as known. `DimensionBounds` are copied with an operand
whose axes they no longer fit (`BoundsHold` states what `shape.go:177` says; no run
checks it). `BinaryOp` does not compare element types when a dimension is unknown
(`shapeinference.go:150`).

*Operations of the backend.* `SchedulingBarrier` adds zero times a dependency, which is
not the identity where that has a NaN or an infinity, and refuses boolean operands.
Neither pass of the fused attention compares the lengths of keys and values, nor looks
at the shape of the values. `ReduceLogicalAnd` starts from 1 on integers, whose
identity would be all bits. `ArgMinMax` takes any type for the indices. `DotGeneral`
with a type of accumulator takes operands of two types. Comments in `flash.go` ask for
one layout and equal numbers of heads, and the code takes both layouts and groups of heads.

*StableHLO.* A `Return` that fails leaves the function closed; a function that has
returned still takes inputs and `Iota`, against `function.go:50`
(`ReturnedIsFinal` states it; no run checks it).

*compute/xla.* The reduction function is kept for the `Builder` but is a closure of
one function: reductions in any other function, even in a closure, are refused
(`ops_reduce.go:42`). The functions kept for `ArgMinMax` and `SelectAndScatter` are
of the same kind. When making one fails, a closure without statements stays and
`Build` fails for good. Its inputs are called `lhs` and `rhs` whatever names the
program has given. A distributed program without an assignment is meant to get
the client's default (`compile.go:311`, `:375`); after `WithDeviceAssignment(nil)`,
which the builder calls, it has none and `Done` refuses (`DefaultAssigned` states
it; no run checks it). Setters that fail half-way leave meshes, parameters or an
assignment behind. `BufferFromFlatData` does not ask whether the backend is finalized,
as its neighbours do, and `Execute` not whether its buffers belong to the backend.

## 6. Proofs

`PjrtLifecycleProofs` assumes `LifecycleAssumption`: finite sets of buffers and
executables, disjoint identities, `NoClient` no client. It proves:

* `TypeCorrect`.
* `LifeInv`, inductive: `TypeOK`, `Registered`, `CollectedStaysUnreachable`,
  `OwnCall`. `Registered`: what was never created has no cleanup, and a
  cleanup in progress has been fired. `OwnCall`: an object with a pointer is
  live, and what each agent's place in a call implies of pointer and life;
  without it, an explicit `Destroy` and the cleanup could be in the same call. `CollectedStaysUnreachable` has to be part
  of it because each new buffer could otherwise bring back a client whose
  cleanup has fired. From it follow `CollectedForGood`, `DestroyedOnce` and
  `CallsKeepObjects`, for any program.
* `ClientArmed`, inductive relative to `LifeInv` and only when the program makes
  neither `ClientDestroy` nor `PluginFree` (`CollectorOnly`): an armed client is
  live, and a buffer or executable with a pointer refers to a client whose
  cleanup was registered. With `CollectedStaysUnreachable`, a client they reach
  is armed, and so live. From it, `ClientsOutliveBuffers` and `ClientsOutliveExecutables`.
* `StorageInv`, inductive relative to `LifeInv`, for any program: the client of what was
  created exists or has existed, a live client has its pointer, and a live C buffer that no
  wrapper points to is in a call of `Destroy`. The last makes the no-op of `Destroy`, which
  frees shared storage as well, harmless. From it, `StorageOutlives`.
* `LoadedExecutablesCounted` for any program, `BuffersCounted` under
  `CollectorOnly`: the counters equal cardinalities, by one lemma for adding and
  one for removing an element. Exactness of the buffer counter needs
  `CollectorOnly` since the code decrements it more than once otherwise.

`PoolProofs`, for the pool, assumes `PoolAssumption` and proves `PoolInv`, inductive:
`TypeOK`, `Locals` (what the place in `Get` or `Put` says of the locals),
`PinExclusive`, `NotShared` and `OneReference`: heads and links lead to pooled
objects and no two to the same. Without the last, `GetTake` could leave the
object it takes on another list. `ExclusiveOwnership` is `NotShared`.
`PoolImplements` maps every step to one of `ObjectPool` or to a stutter: `GetTake`
is the abstract `GetPooled`, `New` is `GetNew`, `PutPush` is `Put`.

`NoNodeLost` (the pool is exactly what the lists hold, and no object is on two) is about what
can be reached from a head. `OnList(p)` is therefore the least set that has the head and
is closed under links (`Linked`), which needs no recursion. That a list stays when its
links do, loses no more than its head to `GetTake`, and gains an object by `PutPush`, is
shown by exhibiting closed sets. The lists are apart because of `OneReference`
(`ListsApart`): what two lists share could be left out of one of them and it would be
closed all the same. `AllListed`, inductive relative to `PoolInv`: what is in the pool is on a list.

For the arenas, `PoolProofs` assumes `PoolAssumption` and `ArenaAssumption`. Every step of
`ArenaSpec` is a step of the pool or leaves it alone, so `ArenaSpec` implies
`Spec`, and what is proved of the pool carries over (`ArenasNotShared`, `ArenasNeverLost`). `ArenaInv`
is inductive relative to `PoolInv`. It joins `ArenaTypeOK` and `AllocationsFit` with what these rest on. `Owners`: a large arena is with one goroutine at most, and
one that has panicked is in no operation of the pool. `Arena`: an arena that was never made has no memory, one of the pool
has its whole size or none, offsets are aligned, and `dirty` is at most `current`,
without which `Reset` would leave bytes uncleared. `PooledReady` says of every arena
that no call has, those on their way in or out of the pool included, that it is whole
and zero; it is what makes `FreeArenasReady` inductive. Lemma `EstimateCovers` is the arithmetic of `Done`:
for any numbers of devices, inputs, kept inputs and outputs with at least one
output, the size asked for is at least the sum of the slices, each a multiple of
8. From these, `CallsHaveTheirMemory` and `PooledArenasReady`.

`InstallProofs` assumes `NoFileAssumption` (`NoFile` is no process) and nothing of the
processes. Lemma `StepsOfTheLock`: every step is one of the lock or leaves it alone.
`LockInv`, inductive: a process has a lock just when it is past waiting for it, all
locks are on the file that has the name, and `OneInstaller`. The second part is what
`CudaInstall` breaks; without it a new process would lock another file. `CacheInv`, relative to
`LockInv`: who writes is alone, `<file>.tmp` still names what it has created, and that
was received to its end before it is compared and is as verified when it is renamed; a process
that has not fetched owns no file. `PluginInv`, relative to `LockInv`: what is about to be
renamed is whole, and the plugin is from then until its installer returns. From these,
`LockExcludes`, `CacheStaysComplete`, `PluginNeverPartial`, `SuccessMeansInstalled` and
`NoStaleLock`; `TypeOK`-like facts are part of the three.

For `New`, `InstallProofs` adds `CallsAssumption` (the program's two calls differ). What `New`
does leaves the installations alone, so `LoadSpec` implies `Spec` and their theorems carry
over (`LoadingNeverPartial`, `LoadingMeansInstalled`). `LoadInv`, inductive relative to
`PluginInv`: as long as nothing disturbs the directory, what `New` has seen (`Seen`) is
still listed and leads to a whole plugin, and one of it has the name asked for; `PluginInv`
gives that the call which starts `undisturbed` has left a whole plugin. From it,
`InstalledIsFound`.

`CudaInstallProofs` assumes `CudaAssumption` (commands are processes). `CudaInv`: with
processes one at a time, at most one is active, and where it is (`Stage`) tells what is on
the disk: no plugin from the check to the rename, whole libraries from their extraction on,
a whole temporary file before the rename. Of a process that is not active nothing is said,
which is why deaths and errors need no case of their own. From it, `PluginNeedsLibs` and
`SuccessMeansCuda`.

`ExecutionProofs` assumes `ExecutionAssumption` (bounds are numbers). `ExecInv`,
inductive: before the outputs are wrapped all inputs are valid, and no event from the loop's
index on is destroyed by it; afterwards exactly the donated inputs below the index are gone
(`Launched`, `Wrapped`). `OnlyDonatedDestroyed` follows at once. `SuccessLeavesNoDangling`
needs that argument `i % perDevice` is an input itself, and the same argument
(`ArgumentNumbers`); `OutputsAreComplete` that output `j` of device `d` has the place
`d * outputs + j + 1` and no other (`Quotient`, `Remainder`, `DivMonotone`).

Two modules need recursive functions and begin with what is needed for them. TLA+ defines a
recursive function as *some* function that satisfies its equation, so that nothing can be
said of it before there is shown to be one. `LeastNumber` (a set of numbers has a least one, by the
pigeonhole principle) gives `NumberInduction`, stated of a set of numbers because a theorem
about an operator cannot be instantiated by the provers, and from it comes the solution
of an equation that gives the value at a number from the value at a smaller one
(`AccumulationExists`, `RecursionExists`).

`XlaBuilderProofs` assumes `BuilderAssumption` (meshes, assignments and specifications have
their types: device numbers and the sizes of sub-axes may be any integer) and
`NumDevicesAssumption`. `ProductIsNumber` and `MostIsNumber` are about the accumulations in
`DeviceMesh`. For each option of `CompileConfig` a lemma says that it keeps
`Sound`: as long as there is no error, the protocol buffer has no matrix or that of the
assignment for the replicas and partitions of now. `OptionsConsistent`, which is about what
`Done` has accepted, says nothing of the options on the way there. `NilAssumption`
says that nil is no list. With a list of no devices a configuration that `Done`
accepts can only be `Deviceless`; `OptionsTold` shows that the options of the builder are not.
`BuilderInv`, inductive: types; `Distribution`, how strategy, number of devices and what
the module was told follow each other until the distribution is changed a second time or a
mesh is refused; `Resolved`, specifications of inputs resolve among the meshes of the
module; `Compiled`, what the executable has; and unless a call of `Parameter` has failed,
the builder's parameters are the module's inputs. From it, `InputsFit`, `OptionsAgree`,
`ModuleSaysTheSame` and `ShardingsOfModule`, for any number of devices, meshes of any rank
and programs of any length (`MaxCalls` is any number).

`GroupsOfMeshes` is arithmetic; its invariant says only that the meshes of the builder are those
asked for. `ComputeReplicaGroups` writes two numbers with the indices of a device, one
along the axes not asked for and one along the others. `WrittenBounded` and `WrittenOrder` say that
digits of different ranges write the numbers below the product of these ranges, in the
order of the digits; `WrittenBack`, that division gives the digits back; `PositionSolved`
and `IndicesTaken`, that the loops of the code do this. Hence each device has its
own coordinates, with as many before them as its number says (`CoordinateIs`), each pair
of a group and a place has one device (`PairTaken`, `PairOnce`), and there are as many
groups as the quotient that the code computes (`DevicesArePairs`). The hypothesis, `AxesHaveDevices`,
is that no axis has size zero: `NewDeviceMesh` takes it, and
`ComputeReplicaGroups` then divides by zero.

`XlaFunctionsProofs` assumes nothing of the constants. A step of the backend is several
calls of `stablehlo`, each with its own effect on `functions`; the lemmas are therefore about a program
`fs` and another, and are put together for each operation (`Reductions`: up to three).
`FunctionsInv`, inductive, says that there is a function `A`, the ancestors
of each function, for which the following hold, and that a kept combining function is complete:

* `Tree`: a function is made after the one it is a closure of. It gives the recursive functions of the
  model (`root`, `ancestors`, `around`, `written`) their one solution.
* `NamesInv`: every counted name is below the counter of the root of its tree, and two
  definitions in one tree with one name are the same, or are inputs with a given name in
  two functions. This needs no discipline of the program. From it, `NamesAreUnique`, for any program.
* `FitsInv`: what a statement takes or calls has returned, and has the signature that the
  statement was made for. Counts of inputs and outputs are frozen by `Return` only in a
  disciplined program; the code lets a function that has returned take inputs, and
  `SignaturesAgree` is false then. Hence the hypothesis of `StatementsAgree`.
* `SeenInv`: an operand is defined before its statement, or around the function before each
  statement that takes the closure. It is claimed of functions whose enclosing closures
  have been taken or can still be (`MayBeWritten`): one whose parent has returned
  without taking it is never written, and what its operands see no longer matters. Without
  `Disciplined` a closure is taken by one statement and may then use values defined after it, hence the hypothesis of
  `OperandsAreVisible`.

`ShapeProofs` assumes `ProgramAssumption`: the shapes a program starts from say nothing wrong
of their values, these have dimensions from 1 to `MaxDim`, and arguments are lists of
integers, which may be anything. `Describes` relates an inferred shape to one at
run time, `Agree` the results of a rule on both: it is not refused unless the operation is wrong (`Sure`),
and where both are accepted each output describes the value that it will have (`True`). Every rule
has a lemma `...Agree`: if the operands are described, the results agree. For
rules with a formula this is the equality of the formula with a count, by `PlacesCount`
(windows, with strides and dilations), `SpreadCount`, `PlacedCount` and `CountTo`; what
a convolution, a gather or a dot product does to each axis is in `ConvFacts`, `GatherPlaces` and `DotGeneralCases`,
for any rank. A rule that compares dimensions by value (`NeedKnown`) may refuse, and has only `True`.
`ProgramInv`, inductive: the input and the latest value are described by what is inferred, and
`NoSpuriousReject`. From it, `InferredShapesCover` and `NothingRefusedForWantOfKnowledge`. Their
hypothesis `AnyBranches = FALSE` says that the branches of `If` and the body of `While` return
values with the same inferred shape; the code compares them with unknown dimensions left
open, takes the shape of one, and the theorem is false without it.

`MovingKeepsElements` rests on what a product of dimensions is. `Size` is a fold, which
chooses the next element itself. `SubsetInduction`, for a set of finite sets, gives that there is a
function that solves the equation of the fold (`MultipliesExists`) and that the order does not matter
(`MultipliesInAnyOrder`); `ProductMoved` carries a product along an injection, and `SizePermuted`,
`SizeAppended` and `SizeExchanged` are what a transposition, a change of type and an exchange do to
it. `OrderOfOperands` is `BinaryEitherWay` and `ComplexEitherWay` for two values of
the program, whatever is known of them.

All four are about `Spec` of `ShapeProgram`, programs written with package `stablehlo`. The run checks
`XlaSpec`, whose programs may be written with the backend; `StableHLOPrograms` says that the
four hold in all of those that are not. For those of the backend the four properties are
model-checked, and of `OperandOrderIrrelevant` the part about the backend is proved as
`StretchedEitherWay`, for any two known shapes without a dimension of zero.

*Model-checked only.* Liveness under fairness (`DoneReturns`, `EveryProcessReturns`,
`BufferReclaimed`, `ClientReclaimed`), which is out of the prover's reach. The
properties of `ShapeProgram` and `XlaProgram` for programs of the backend, where the shape at
run time is stated apart from the operations that the backend puts together.

## 7. Not modelled

See `components` in `PROJECT.json`. Planned: several plugins in one program, the
backend's finalization and transfer of buffers. Not planned: terminal interaction and
the spinner (no state others see), PyPI metadata (lookups), conversions of events,
errors and named values, the options of `New`, custom calls and attributes (data), tables
of operations.

About half of the repository's lines of Go, 24 of 50 thousand, are generated protocol
buffers without behaviour of their own. The rest, some 25 thousand, contains the C header of
PJRT and the generated code that calls it, tables of operations, generators, texts of errors
and comments. The definitions of these modules stand for about 10700 lines of source, 21%
of all and 42% of those written by hand.
