# Formal models of Code-Tests

The repository is a collection of small, independent programs ("Miscellaneous code
test in various languages"): C and Objective-C programs for Mac OS X, PHP 5
classes, a little C++, JavaScript and Python. They do not call each other. What
they do have is the behaviour that is hard to test: forked processes that compete
for connections, a pipe that two processes wait on, signals that jump back into the
function they interrupt, files and ports that others change, memory that is laid out by
hand, tables of references that outlive what they refer to, callbacks that come
back into the object that called them. This directory has TLA+ models of twenty-five
of these programs, checked with TLC, and proofs about all of them, checked with
TLAPS.

`PROJECT.json` lists the components, the runs, for every property a plausible bug
in the code that the run catches ("mutants"), for every definition the lines it
models, the hazards, the findings and the theorems.

## Contents

1. [Inventory](#inventory)
2. [Modules](#modules)
3. [What each run checks](#what-each-run-checks)
4. [Fairness](#fairness)
5. [What is proved](#what-is-proved)
6. [What the code does otherwise than it says](#findings)
7. [What is not modelled, and the plan](#plan)

## Inventory

### Modelled

**Class swizzling**, `Objective-C/isa-swizzle.m`. A category on NSObject that
changes the class of an object and undoes it. *State*: the isa of an object, and in
a table keyed by the object's address, a dictionary with the original class and a
stack of classes. *Operations*: `setClass:` (pushes), `restoreClass` (pops),
`restoreOriginalClass`, `originalClass`, `hasCustomClass`, and the `dealloc` that is
exchanged with NSObject's and removes the dictionary. *Hard*: long sequences of
changes and restores; the address of an object is used again by another. *Correct*
if it is an unlimited undo, and nothing of a dead object is found by the next.

**TCP echo server**, `C/tcp-server.c`. *State*: per process a place in the code, a
descriptor table and the length of the last read; in the kernel a listen queue and,
per connection, what was received and what became of the client. *Operations*: `main`'s
loop of accept, fork and close; `tcp_connection_process` with its greeting, its
select with a timeout, and its loop of reads and replies. Processes interact through
the shared listen queue and through descriptors inherited by fork; clients connect,
send, stop and reset at any moment. *Hard*: interleavings of acceptors, since the
child returns into the accept loop and becomes an acceptor itself; failing calls;
SIGPIPE; who is served in the end. *Correct* if no process has a descriptor of
another's connection, one process serves a connection, replies stay in the buffer,
and clients that wait are served.

**Dynamic multiple inheritance**, `PHP/Extender`. *State*: `_instances` (an object
per inherited class), `_classes` (what each was asked to give), `_methods` and
`_properties` (per member, an ordered array of the classes that answer for it).
*Operations*: `_extends`, `_releaseExtends`, and the dispatch in `__call`, `__get`,
`__set`. *Hard*: keys of the tables refer to instances that are released; which class
answers depends on the order of insertion in arrays. *Correct* if the class inherited
last answers, and never an instance that is gone.

**Process lookup**, `Objective-C/process.m`. *State*: the task `ps` and its pipe, the
output read, the line found. *Operations*: `processInfosByPath:` launches ps, waits
for it, reads, scans. *Hard*: both processes may wait for each other; an exception in
the middle of the scan. *Correct* if an answer is complete, and there is one.

**Reference-counted memory**, `C/egmmgr.c`. *State*: the header and first word of each
object, the stack of auto-release pools, each pool's array. *Operations*: `EGAlloc`,
`EGRealloc`, `EGRetain`, `EGRelease`, `EGAutoAlloc`, `EGAutorelease`, `EGCopy`,
`EGAutoreleasePoolCreate`, `...Drain`, `...Destroy`. *Hard*: counts, headers found at
the wrong place, pools destroyed in any order, arrays that grow. *Correct* if counts
follow references and the current pool is there.

**Allocator over sbrk**, `C/mem-alloc.c`. *State*: memory itself, and the end of what
sbrk gave out. *Operations*: `mem_init`, `mem_alloc` (a walk over memory by headers),
`mem_free`. *Hard*: headers lie among the client's data; the walk goes by the size of
the request. *Correct* if no memory is given out twice, and it grows only when full.

**Observable properties**, `PHP/Watcher`. *State*: the public and protected tables,
the watchers of each name, the assignments that run. *Operations*: `__get`, `__set`,
`registerPublicProperty`, `registerProtectedProperty`, `watchProperty`; watchers are
called back from within `__set`. *Hard*: re-entrancy. *Correct* if watchers know the
value.

**Runtime function table**, `C/generic.c`. *State*: the table, its size, the entries
with the types of their arguments. *Operations*: `__RegisterFunction`, `GetFunction`,
`Call`, `CallInt` with its assembly. *Hard*: off-by-one in the arrays of types, the
growth of the table, a copy that may be longer than where it is made, the order of pushes
and pops. *Correct* if what was registered
answers, signatures are as documented, and arguments meet their registers.

**Progress bar**, `C/progressbar.c`. *State*: the percentage of the main thread; in
the other thread a copy of it, the gear and the line that is printed and not flushed;
the terminal. *Operations*: the loop of `main`, `__libprogressbar_update_status`.
*Hard*: two threads without a lock; the process ends under the thread that draws.
*Correct* if a line shows one moment.

**Module manager**, `JavaScript/ModuleManager.js`. *State*: the one instance, the table
of modules, the constructors that run. *Operations*: the constructor, `getInstance`,
`registerModuleClass`, `getModule`. *Hard*: constructors that use the registry, and errors
in them. *Correct* if a name stays with its module.

**Process table**, `Objective-C/proc.m`. *State*: the memory and its length between two
calls of sysctl. *Operations*: `allProcesses`. *Hard*: the table changes between the
calls. *Correct* if what is answered was the table.

**Zombie objects**, `Objective-C/zombie.m`. *State*: the class of each object, and the
one it had, as an associated object. *Operations*: the exchanged `dealloc`, the methods
of `Zombie`. *Hard*: anything may be sent to an object that is dead. *Correct* if a
reference never finds another object.

**Pointer validation**, `C/ptr-valid.c` and `Objective-C/ptr-valid.m`. *State*: the
handlers of SIGSEGV and SIGBUS, those that are kept in locals, the list of classes.
*Operations*: `is_valid_ptr`, `is_valid_objc_instance`, and the handler, which jumps back
into them. *Hard*: signals come at any moment, from the memory that is read or from
elsewhere; locals after a jump; classes that are loaded by other threads between two
calls. *Correct* if handlers come back and answers are right.

**File monitor**, `Objective-C/fsmonitor.m`. *State*: the filter in the kernel's queue and
what it has noted, the event received last. *Operations*: `main`'s loop, `__printKEvent`;
others change the file. *Hard*: changes between two calls, events that are errors, data
of a former event. *Correct* if every change is printed.

**Directory access**, `Objective-C/dir-read-access.m`. *State*: the entries that are left to
enumerate, the result of the last `lstat`. *Operations*: `checkDirectoryReadAccess`; others
remove entries and change their modes, and those of the directories they are in. *Hard*: a
result that is not tested, so that what is tested is stale or never was.
*Correct* if the answer is true of each file at some moment.

**Message port**, `C/CFMessagePort`. *State*: who has the name, the queue of each port, the
request of each client. *Operations*: both `main`s and `MessageCallback`; servers are killed,
stopped and started again. *Hard*: a server that is replaced between look-up and request, a
queue that is full, a timeout. *Correct* if a request is shown at most once and ends.

**Logging client**, `C/clog.c`. *State*: the client that all threads share. *Operations*:
`CLog` and its seven likes, by any thread. *Hard*: the client is replaced under other
threads. *Correct* if every message is sent, once.

**Dispatch groups**, `Objective-C/gcd.m`. *State*: who keeps the object and the strings, the
threads. *Operations*: `main`, `log:` in each thread. *Hard*: main releases what it gave to
threads, and returns. *Correct* if a thread has what it uses.

**Algorithms**: `C/quicksort.c`, `C/strrstr.c`, `C/factorial.c`, `C/fibonascii.c`,
`C/float.c`, `C/huffman-write.c`, `C/call-graph.c`. *State*: the array or the pointers of a
loop, the numbers of two rows, a word and the bits in it, the depth of the calls.
*Operations*: the turns of their loops, and the two hooks of the call graph. *Hard*: bounds,
loops that read before they test, the width of integers, memory that is not initialised.
*Correct* if they answer as a definition that is independent of them says.

### Not modelled

Every other part is in `PROJECT.json` with the reason:

- `idle-time.m`, `acl.m`, `arch-infos.c`, `asl.c` print what the system answers: what
  changes is the system's.
- `objc-abstract.m` is one test in an initialiser, `static-alloc.m` one fixed sequence of
  calls, `class.c` and `create_objc_class.cpp` a fixed sequence of calls of the
  Objective-C runtime, each of which ends the program if it fails. There are no two
  orders of anything, and the state is the runtime's.
- `factorial.s` is generated from `factorial.c`.
- The PostScript forms and the CSS menu draw; `mdir2mbox.py` is a loop over the mailbox
  library.

Left out of parts that are modelled: that there is no memory left, but where a model has a step
for it; a module whose name is the index of
an array, which would change the `length` of the array that `ModuleManager.js` uses for a table; in
`clog.c`, what comes between the answer of `asl_open` and its assignment, which are one step; the
superuser, who may read everything (`dir-read-access.m`); the registers the inline assembly of `generic.c` and
`factorial.c` does not declare; how long doubles are rounded and what is formatted of
them in `fibonascii.c`, and its total, which sums elements that were never assigned; the ring
of four words in `huffman-write.c`; the text of every log and table.

### External

The Objective-C runtime and Foundation, the C library, the kernel's sockets, pipes
and sbrk, `ps`, and the PHP engine are not in the repository. They are modelled from
how the code uses them, and marked external in the map: an association table keyed
by address; a listen queue of bounded length; a kernel queue that adds up the notes of a
file and clears them when it delivers them; Mach ports with queues of bounded length, and
one owner of a name; the rule of the kernel for who may read a file, and come to it; signals and their
handlers; threads that keep their target and argument; a pipe of bounded capacity; memory from
sbrk that is zero; PHP arrays ordered by insertion, `isset` that is false for null,
E_USER_ERROR that ends the script, and PHP 5's guard that keeps `__set` from running
for a property whose `__set` runs.

## Modules

| Module | Models | Role |
|---|---|---|
| `ClassUndo` | what swizzling promises: an infinite undo of class changes | abstract specification |
| `IsaSwizzle` | `isa-swizzle.m` | implements `ClassUndo` through `UndoMapping` |
| `ConnectionLifecycle` | what becomes of a connection: waits, is served by one process, is closed, broken or abandoned | abstract specification |
| `TcpServer` | `tcp-server.c` | implements `ConnectionLifecycle` |
| `ClassExtender` | `PHP/Extender` | |
| `ProcessLookup` | `process.m` | |
| `EGMemory` | `egmmgr.c` | |
| `MemAlloc` | `mem-alloc.c` | |
| `Watcher` | `PHP/Watcher` | |
| `FunctionRegistry` | `generic.c` | |
| `ProgressBar` | `progressbar.c` | |
| `ModuleManager` | `ModuleManager.js` | |
| `ProcTable` | `proc.m` | |
| `Zombie` | `zombie.m` | |
| `PtrValid` | `ptr-valid.c`, `ptr-valid.m` | |
| `FsMonitor` | `fsmonitor.m` | |
| `DirAccess` | `dir-read-access.m` | |
| `MessagePort` | `CFMessagePort/Client`, `CFMessagePort/Server` | |
| `Clog` | `clog.c` | |
| `Gcd` | `gcd.m` | |
| `Quicksort` | `quicksort.c` | |
| `Strrstr` | `strrstr.c` | |
| `Factorial` | `factorial.c` | |
| `Fibonascii` | `fibonascii.c` | |
| `FloatDecode` | `float.c` | |
| `HuffmanWrite` | `huffman-write.c` | |
| `CallGraph` | `call-graph.c` | |
| `MCPrograms` | | `Zombie`, `ModuleManager`, `MemAlloc` and `ProcessLookup`, and an instance of `Gcd`, of which one steps: programs on their own that share a run |
| `MCAlgorithms` | | `FunctionRegistry` and the seven algorithms, likewise: what is computed from given data |
| `MCSystem` | | `PtrValid`, `DirAccess`, `FsMonitor`, `MessagePort` and `ProcTable`, and instances of `ProgressBar` and `Clog`, likewise: programs that share something with others |
| `MC...` | | instances for TLC; some add a history variable |
| `...Proofs` | | inductive invariants and theorems |

The programs are independent, so no module composes two of them; what is composed
within one is the processes of the server with the kernel and the clients, the parent
with ps, the object with its watchers, clients with servers that share a name.

*Correspondence.* Variables have the names of the code where it has names (`sock`,
`length`, `_instances`, `argumentTypes`, ...). An action is a method or function, or,
where others can come in between, the part of one up to the next system call or
callback:

- `IsaSwizzle`: one address. `Alloc` is external; every method is one action, `Dealloc`
  is the exchanged one. `Reported` is what `-class` answers, which is not the isa for
  classes made by key-value observing.
- `TcpServer`: `Accept`, `Fork`, `Close` are the loop of `main`; `Greet`, `Select...`,
  `Farewell`, `Read...`, `Echo...`, `End` are `tcp_connection_process` between its
  system calls. Each has its failing variants where the code looks at the result, or
  fails to: `FdopenFails` is the write to a stream that is NULL, and after a select that
  failed the sets are as they were given, so that the process goes on to the read. Bytes are counted, not compared. `Connect`, `Send`, `Finish`, `Reset` are
  the clients, `SigPipe` the kernel.
- `ClassExtender`: place in an array is the time of insertion, so that "the last key"
  is the greatest place.
- `ProcessLookup`: the steps of the parent (`Launch`, `Wait`, `Read`, `Scan`)
  interleave with those of ps (`PsWrites`, `PsExits`, `PsIsKilled`). The output is counted
  in lines; a line is one that matches, one that does not, or one too short to be cut.
- `EGMemory`: `count`, `length` and `first` are the words the functions really take for
  the retain count, the size and the data (see [findings](#findings)). Steps into
  undefined behaviour set `process` to "undefined", and the model goes no further.
- `MemAlloc`: memory word by word. `Take`, `Grow` and `WalkOff` are the ends `mem_alloc`
  can come to; which one it is follows from what the words contain. `Headers` and `Flags` are the
  words that are written together, in a header and a footer.
- `Watcher`: `CallSet` is the beginning of `__set`; `Tell` calls one watcher,
  `WatcherReturns` is its return, `SetReturns` the end of `__set`. While a watcher is
  called, any operation may begin. `sets` is the stack of the calls of `__set`.
- `FunctionRegistry`: a list of arguments is the sequence of its types, a signature has
  a member per letter, and of strings there is how long they are: `CopyFits` is whether the copy
  of a list fits where it is made. `RegisterFunction` is the call up to the loop over the arguments, and
  `Argument` a turn of it; `Call` is one with `GetFunction` and `CallInt`.
- `ProgressBar`: the thread reads, prints the three parts of a line, flushes, sleeps;
  between any two of these main may go on or return. `line` is what the terminal will
  show once the buffer is flushed, which returning from main does as well.
- `ModuleManager`: `getInstance` is the test of the instance and the constructor. `running`
  is the stack of constructors; `registerModuleClass` pushes
  one, `Constructed` is the assignment after it. `Throw` ends constructors up to one
  that catches. Names that arrays have properties of are registered from the beginning.
- `ProcTable`: `AskLength`, `Allocate`, `ReadTable`, `Answer` are the steps of
  `allProcesses`; `Begins` and `Ends` are other processes, and come in between.
- `Zombie`: `heap` has the object at each address, and `zombie_dealloc` what becomes of
  it. A message is a member of a small set: one that Zombie overrides, one it answers
  silently, one of the object's own class, one that is unknown, or dealloc.
- `PtrValid`: `next` is the place in the test. `Begin` is the call up to `setjmp`, `Catch` one
  call of `signal` before the pointer is read and `Restore` one after it; `Touch` reads
  memory, or a signal comes instead; `Jump` is the handler and what the locals have after
  it; `KillSends` is a signal from elsewhere, at any moment. `Load` are other threads that
  load classes.
- `FsMonitor`: `Open`, `Add` (the beginning of `kevent`), `Wait` (its end) and `Look` (the rest of
  the loop) are the steps of `main`; `Change` comes between any two of them.
- `DirAccess`: an entry is its owner, its group and the bits that are tested, relative to the
  process, and `searchable` are the files that can be come to. `Start`, `Enumerate`, `Stat` are the
  steps of the method, `Unlink`, `ChangeMode` and `ChangeSearch` (of the mode of a directory) those of
  others. `lstat` fails of what is removed and of what cannot be come to (`LstatFails`).
- `MessagePort`: `Request` are the steps of a client between `CFMessagePortCreateRemote` and
  its end, `Serve` those of a server, `Kill` may come at any moment. A server that is stopped is one
  that takes no step. A server or client that is started again is another one of the set.
- `Clog`: `CLog` makes the client, `TestClient` and `Vlog` read the variable again: between
  them other threads may have changed it.
- `Gcd`: numbers of those that keep the object and each string; `Log` are the two calls of
  `log:` and the release of what the thread kept.
- The algorithms go one test of a loop (`Quicksort`, `Strrstr`), one multiplication
  (`Factorial`), one row (`Fibonascii`), one bit (`FloatDecode`), one symbol (`HuffmanWrite`) or one
  call of a hook (`CallGraph`) at a time, from any input. `Quicksort!calls` is the stack of calls
  that sort a part. What their histories keep (`given`, `stream`, `dirty`, `cut`, `stack`,
  `callers`) is what the answer is compared with.

## What each run checks

| Run | Configuration | States | Question |
|---|---|---|---|
| `isa_plain` | 3 classes, history of 4 | 923 | `ImplementsUndo`: the category is an undo history. `OriginalClassIsStable`; `CustomClassIsAnnounced` as long as `setClass:` is given no original class; `TypeOK` has that no dictionary outlives its object |
| `tcp_safety` | 3 processes, 2 clients, backlog 1, buffer of 4, 5 bytes a client, every call may fail | 826 000 | `NoForeignDescriptor`, `OneServer`, `EchoWithinBuffer`, `ImplementsLifecycle` |
| `tcp_live` | the same with 2 bytes a client and no symmetry, fdopen and select succeed | 237 000 | `NobodyWaitsForEver`, `EveryClientIsGreeted`, `SilentClientIsLetGo` |
| `extender` | the two classes of the test and one that does not exist, 2 methods, a property, 5 insertions | 7 900 | `OthersUndisturbed`; `DisciplinedAnswers` as long as no class is extended twice |
| `extender_twice` | the same | | finding |
| `eg` | 2 objects of up to 2 bytes, 3 pools of which 2 at once, chunk of 1 | 1 570 000 | `CountFollowsReferences`, `ArenaIsRight`; `NestedPoolsWork` as long as pools are destroyed in the reverse order |
| `eg_freed` | 2 pools, 1 reference | | finding |
| `watcher` | 2 names, 2 observers, 2 values, 2 watchers a name | 533 000 | `PoliteWatchersKnow` |
| `programs` | 2 modules, 4 objects, 3 constructors at once; 2 addresses, 3 objects; 4 threads; memory of 27 words asked for in 1 and 7; all outputs of up to 3 of 4 lines, a pipe of 2 | 166 000 | `RegisteredModulesStay`, `ObjectsOutliveTheirUses`, `OneSizeIsSafe`, `GrowsOnlyWhenFull`; `AnswerIsComplete`, `AnswersIfItFits` |
| `algorithms` | functions: a name that leaves room for short lists and one for all, 3 return types, lists of up to 2 types and some around the limit of 6, a table of 2; arrays of up to 6 of 3 values; strings of up to 5 and 3 letters; words of 8 bits for factorials and of 6 for Fibonacci numbers, 25 rows; floats of 3 and 2 bits; up to 24 bits of symbols into words of 5 bits; up to 8 functions entered, 4 cells of space | 250 000 | `FunctionsAreCalledRight`, `AlgorithmsAnswerRight`; `AlgorithmsTyped` has that indices stay in their arrays and no word is left full |
| `algorithms_documented` | the same | | finding |
| `system` | progress to 12, length 9; 3 processes, a slop of 1; 2 files, 9 kinds of entries; 3 classes; 2 notes; 2 servers, 3 clients, a queue of 1; 2 threads, 3 log clients, 3 messages each | 98 000 | `AnswersAreTrue`, `HandlersComeBack`, `NothingGetsLost`; `ChangesAreReported`, `ClientsEnd` |

In the three runs that programs share, a property may be about all programs of one kind.
`AnswersAreTrue` is the screen of the progress bar (`ScreenIsOneMoment`), the process table
(`AnswerIsOneMoment`) and the directory (`AccessIsTrue`); `NothingGetsLost` the monitor
(`NoneIsForgotten`), the message port (`NoneTwice`) and the log (`MessagesAreSent`);
`ObjectsOutliveTheirUses` the zombies and the threads; `FunctionsAreCalledRight` the entries of the
table (`PlainListsAreKept`) and the registers (`ArgumentsInPlace`); `AlgorithmsAnswerRight` the seven
algorithms (`QuicksortIsRight`, `StrrstrIsRight`, ...). Each part is a definition of its own, with its comment.

What they show, beyond that the properties hold:

- *Swizzling* is right for any order of its methods, the reuse of an address included.
  `hasCustomClass` can be relied on in a loop of restores unless `setClass:` was given the original
  class: after `setClass:` to another class and twice to the original one it answers NO, and two
  restores later the object has the other class (`CustomClassIsAnnounced` is under that premise).
- *The server* is safe although children become acceptors: a connection has one server,
  and nobody inherits a connection he should not have, because every acceptor closes
  before it accepts again. A client that ends its input without the two bytes the code waits
  for holds a process for ever: `break` leaves the inner loop only, select reports the end of
  input at once, and the process spins until the client resets. Nothing in the repository says
  what should become of it, so no property speaks of it; `SilentClientIsLetGo` is of clients that
  have not ended their input. That others are served nevertheless (`NobodyWaitsForEver`) rests on
  the first process never serving anybody, and on accept and fork not failing for it.
- *The extender* answers with the class inherited last, for any releases in between, as
  long as no class is extended twice.
- *The lookup* answers, and completely, when the output of ps fits the pipe (`AnswersIfItFits`,
  `AnswerIsComplete`). When it does not, the parent waits for ps to end before it reads, and ps
  for the parent: the premise of `AnswersIfItFits` is that hazard.
- *The memory manager* counts right but from the wrong start: the number that is tested
  for zero is off by the size of the object, so that objects of two bytes and more are
  never freed and those of zero or one byte too early.
- *The allocator* is right for requests of one size, which is how `main` uses it. It crashes then
  if there is no memory left: with all of it in use, or, as the result of sbrk is not looked at,
  because the block at the end was begun where there is memory and goes on where there is none. For two
  sizes TLC finds memory that is given out twice; the properties say so by their premise.
- *The watched object* may be used from its watchers, which know the value of what they watch as
  long as none assigns the property it is told of.
- *The function table* keeps lists of up to five plain types that fit their copy (see
  [findings](#findings) for the others), and a `void` is counted. `CallInt` counts what it pushes in a
  variable that is not initialised; when a call comes back, the arguments of the function that was
  called are in their registers.
- *The progress bar* never mixes two moments while the process runs, because the thread
  keeps a copy of the percentage for a line; at the end it may.
- *Modules* stay under their names unless a constructor registers its own name; *the
  process table* answers a table that was, or nil; *a dead object* is never mistaken.
- *The pointer tests* restore the handlers after a pointer that could be read. After one that
  could not, a handler of the program may be gone: the locals that keep it are not volatile, and
  what they have after the jump is indeterminate, so that the default may be installed
  (`HandlersComeBack` allows for it). The loop over the classes begins one after the last
  class, of which there may be more by then: an object is surely found only if the list had
  room for all classes.
- *The file monitor* forgets no change, since the kernel adds them up. It may end at once for
  what was in memory before the first event, and it crashes for a path that leaves no room in
  512 characters, and for an event that is an error, whose number is taken for the address
  of a text.
- *The directory test* says YES of a directory that cannot be opened. The tests of an entry are
  not those of the kernel: an entry of neither user nor group needs the group's bit too, so that
  NO is only claimed to be true of entries of the user or of the first group. Of an entry that was
  removed, or that is in a directory that can be listed and not searched, the entry before is tested:
  YES is claimed to be true but for those (`missed`).
- *The message port*: a message is in one place, and is shown by the server that had the name
  when it was asked for, or lost with it; a client ends whether or not servers go on. A client
  without a server goes on with no port and crashes.
- *The log* makes a client per message, until there cannot be more; then the process ends, and
  messages of other threads go through no client. *The threads* keep what they were given
  until they are done, or the process has ended without them.
- *The algorithms* are right with these exceptions, which the definitions name: the
  assembler version of 1! is 0; an empty string is found first, not last; floats whose
  exponent is negative, infinities and what is not a number are not decoded; a Huffman
  code that a word ends in loses its bits before the end, the first word has what was in
  memory, and the last is not written; a Fibonacci number that came around to less than
  `SIZE_MAX_BYTE` is shown in bytes; the call graph has room for 127 calls within each other.

*Bounds.* Every bound is a constant whose comment says "bound". They are as small as
they can be with the interesting case in: three processes are two acceptors and one
that is forked by a forked one; two clients compete for a queue of one; a buffer of
four has reads of 1, 2 (which end the connection) and 3; two pools at once and a third
address that was destroyed; memory for three blocks of the smaller size, or for one of the
larger and a beginning of another, which goes beyond the limit, with the larger long enough for the small
walk to land on the client's data;
a table of two with a third registration; a list of classes to which one is added after it
was made, and again; a server that is killed and one that takes its name, with a client for
each and one that finds the queue full; a file that is removed before or after another was
looked at; fewer log clients than messages; a pipe that is shorter than the longest output;
a percentage with a second digit and a bar that is shorter than it, by less than half (75
of 100 in the code); words of eight and of six bits, which factorials and Fibonacci numbers go
beyond after a few rows; codes that end with a word, and go on in the next.
Nothing in the models treats a further process, client, object or pool otherwise than
these, and for the models with proofs the theorems hold for every value of the
constants. `CHECK_DEADLOCK FALSE` is in the configurations of programs that may stop
(exit, crash, E_USER_ERROR) or whose client may have nothing left to do within the
bounds; swizzling always has a next step, and is checked for deadlock.

*History variables* in modules (`unseen`, `could`, `shown`, `sent`, ...) say in their comments that they
are history: no guard reads them. Those of MC modules (`disciplined`, `nested`, `polite`) become false when
the client leaves the way the repository uses the component, so that one run checks what
holds of every use and what holds of that use.

## Fairness

`TcpServer!FairSpec`: weak fairness of the steps of each process, a signal that is
pending for it included: the scheduler of the system runs every process that can run.
Nothing is assumed of clients: they need not send, read or close, and a step in which
the process waits for the client to read is not a fair one. That select comes back
after its timeout is part of the process's steps: the code gives it one.
`MCPrograms!MCFairSpec`: weak fairness of the parent's steps and of the steps of ps
(`ProcessLookup!Parent`, `Ps`). Nobody has to kill ps, and no other program of the run has to step.
`FsMonitor!FsFair`: weak fairness of the steps of the monitor; nothing has to happen to the
file. `kevent` comes back after its timeout of a second, which is part of those steps.
`MessagePort!PortFair`: weak fairness of a client that has been started, the timer of its
request included. Nobody has to start a client, and nothing is assumed of servers: a server may be
stopped for ever, which is what the timeout is for.
`MCSystem!MCFair` is these two for the program that runs. No other property needs fairness.

## What is proved

Every theorem holds for all values of the constants under the named assumptions of the
modules. Most of these say only that a bound is a number or a model value not a member of a
set. Those that say more are of the code: a buffer of at least two bytes, a chunk and a counter
width that are not zero, a queue of at least one message, at least one class; a fence that is
neither of the two bools (`MemAlloc`); a bar shorter than its full, by half at most, as 75 of 100
is (`BarAssumption` of `MCSystem`: the two loops that draw it round alike only then); signatures
of less than 256 characters (`RegistryAssumption`);
limits of units that grow (`FibonasciiAssumption`); codes that are not longer than a word; a float with
fewer bits than its exponents reach; `-class` that answers the isa, for `CategoryImplementsUndo`. Two
state only how a number is defined that the prover has no theory of: powers of two, each the
double of the one before (`FloatAssumption`), and factorials, each the one before times its number
(`ProductAssumption`). TLC evaluates all of them.
Each proof module states an inductive invariant, proves that the initial states have it and
that every action preserves it (a step per action), and derives the theorems. TLC checked the
invariants on the runs' instances before they were proved. Where a property speaks of a history variable or
of several programs, the proofs extend the MC module and are of its `MCSpec`: the theorem then
states what the run checks.

- `IsaSwizzleProofs`. `IInv` adds to the types that a dictionary belongs to a live object
  and that the original class is not at the bottom of the stack. The latter is what the
  refinement rests on: were it there, one restore more would be needed than the history
  has. `CategoryImplementsUndo` shows that every method maps to an undo step or a stutter.
  `AnnouncedToTheEnd` rests on every class in the history being another than the original one as
  long as the premise holds (`OnlyForeign`).
- `TcpServerProofs`. `IInv` relates the place of each process to its descriptors: which
  processes have exactly the descriptor of `sock`, and which none; that a queued
  connection is nobody's; that two processes share a descriptor only between fork and
  close; and that the length of the last read leaves room for the byte more that is
  written. From these: `DescriptorsBalance`, `OneProcessPerConnection`,
  `EchoStaysInBuffer`. `ServerImplementsLifecycle` shows
  that the server implements `ConnectionLifecycle`: an action either leaves the stage of every
  connection, or moves one of them as the lifecycle does. It rests on the cases of `Stage`
  excluding each other (`StagesAre`), which `IInv` gives.
- `ClassExtenderProofs`. Two invariants: of any subclass (`ListedRegistered`), and of a
  disciplined one, for which the table and `_classes` have the same entries and
  places in the table agree with places in `_instances`. `AnswersWhileDisciplined` is of every subclass
  up to its first repetition (`HInv` has the history variable as a premise); `OthersKeepTheirPlaces`
  is an action property of the tables of members under extending and releasing, and needs no discipline.
- `EGMemoryProofs`. `IInv` is about the words of memory, the arena of pools
  (as many entries as live pools; arrays with room) and what the process may have come
  to. `CountIInv` adds `CountFollowsReferences` itself and that pools hold only what is allocated
  (`HeldAreAllocated`). How often pools hold an object is the number of places in their arrays
  (`InPools`), so that an action which adds or removes one place changes the number by one; the
  counter is of W values, and stays right through the modulus (`CountsUp`, `CountsDown`).
  `CountCorrect` is without any premise on the client, as destroyed pools lose what they hold.
  `NestedPools` is proved of the specification whose client destroys the last pool, and
  `NestedPoolsDo` of every client until it does otherwise.
- `WatcherProofs`. `IInv` is types, that the calls of `__set` that run are of properties that exist
  (`SetsExist`), and that no two of them are of one property (`SetsEnd`), which the PHP engine's
  guard sees to. For the polite use `PInv` adds that nothing is assigned past `__set` and nothing
  watched that does not exist, and `WatchersAreTold`: while a property is assigned, each of its
  watchers knows the new value or is still to be told. From it: `PoliteWatchersAlwaysKnow`.
- `ProgramsProofs`. An invariant per program, and `ProgramsIInv` of them together; a step is one of
  every program, or leaves it alone (`EachSteps`).
  `ZombieIInv` adds to the types, and to `ReferencesFindTheirObject` itself, that a
  reference is to a life that has begun, and finds the object of that life (`LivesAgree`).
  `ManagerIInv` adds that nothing is registered before there is a manager. `ThreadsIInv` counts:
  what keeps the object is main and each thread that uses it, a string is kept by the one thread
  and by main until it is released (`ThreadsCount`). `MemIInv` says how memory is laid out while
  it is asked for in one size (`Tiled`): headers are at the multiples of the block, each tells whether
  the client has its block, no block is anywhere else, and behind the last one memory is zero.
  So the walk, which goes by those multiples, meets headers only (`WalkMeetsHeaders`), comes to the end
  only past blocks in use (`WalkPassesHeld`), and finds the footer of a new block right behind its
  header; what the client writes is between headers. The proof is of each size by itself, and
  uses that multiples of a number are that number apart. It also showed what
  `CrashesOnlyWhenFull` must allow for: the last block may go beyond the limit, and then
  a crash comes with other blocks free. `LookupIInv` is types, that the parent reads only after ps
  ended (`Ended`), and that what was read is what was in the pipe (`Carried`).
- `SystemProofs`. An invariant per program again, and `SysIInv` of them together. `FsIInv`
  has that an event that looks like an error has no notes, and that kevent fails when it
  answers less than 0 (`ErrorsAreEmpty`); `DirIInv` that the histories have the moments that there
  were, that files that were passed could be read or lstat failed for them, and that what lstat filled in
  last has passed the tests, so that NO never comes of an old entry (`LastHasPassed`);
  `PtrIInv` which handlers are the jump at each place of the test and what the locals then have
  (`HandlersAreKept`), and what has been read of which pointers (`ReadsAreTrue`); `BarIInv` what has
  been drawn of a line at each place of the thread, and that the bar is never wider than its length
  (`CellsAreLength`); `ProcIInv` that what was read is the table of that moment, in the memory there
  is; `ClogIInv` that a client is missing only when all have been made, and which numbers have been
  sent; `PortIInv` that a message is in one place, once, and with the server that was found
  (`OnceInEach`, `InOnePlace`, `ToTheOneFound`).

- `AlgorithmProofs`. An invariant per program, which is the loop invariant one would write beside
  the code, and `AlgIInv` of them together. `StrrstrIInv`: what the pointers have passed does not
  match, or does so far (`Searched`). `QuicksortIInv`: the values are those that were given, in
  another order; the parts still to be sorted are apart, and every place is in order with those
  outside of its part; while a part is divided, what is left of i is at most x and what is right of j
  at least, and one of either is there as long as it has to stop a loop. `CallGraphIInv`: the depth is
  the number of functions not left, and between a line and its caller's there are only deeper ones
  (`Nested`). `HuffmanIInv`: the word has the bits of the stream after those that are stored, unless it
  was cut (`Written`). `FibonasciiIInv`: the tables hold the numbers shown, the one of integers
  modulo its width (`Tables`). `FactorialIInv`: product times the factorial that is left is the
  factorial asked for, modulo the width, the assembler version's way around through zero included
  (`Multiplied`). `FloatIInv`: the number is that of the bits above the next one (`Decoded`).
  `RegistryIInv`: while a list is gone through, what is stored of it is right as far as the loop is
  (`KeptSoFar`). From these follow `AlgorithmsStayTyped`,
  `AlgorithmsAlwaysAnswerRight`, and the action property `FunctionsAreAlwaysCalledRight`, which rests on
  counting: as many are popped as were pushed only if every argument was (`AllPushed`).

Every invariant and every action property that a passing run checks is a theorem. Only model-checked is
liveness (`tcp_live`, `AnswersIfItFits`, `ChangesAreReported`, `ClientsEnd`), since fairness and
ENABLED are out of the prover's reach, and with it that the algorithms come to their end. The
findings are counterexamples, found by TLC. Induction over data is not available to the prover in
general, which is why no module defines anything by recursion: what the code computes in a loop is
a state machine, and the induction is over its steps. Where a fact about numbers needs one
nevertheless (`PowersGrow`, `LeastPosition`), it is proved of the least counterexample, by the
well-foundedness of the natural numbers.

## Findings

Three runs show the code do otherwise than its comments say:

- `extender_twice`: "Checks if the requested parent class has already been inherited
  from" tests a local variable nobody assigned. A class extended twice gets another
  instance, and later members stay registered after its release.
- `eg_freed`: the header is looked for by two pointers where it has three words. What
  EGRelease takes for the count is the size: "Freeing object:" is not reached.
- `algorithms_documented`: the list of arguments is copied to a buffer of the length of the name and
  the return type, so that the example of the comment of `generic.c`, "i:foo:pi", cannot be
  registered without writing beyond it (`SignatureIsAsDocumented`). That is where TLC stops; it finds
  each of the other parts of `AlgorithmsAreAsDocumented` violated as well when it is the invariant:
  a full table of functions is reallocated to `functionCount + 100` bytes instead of entries, and
  `functionSize`, "The functions table allocated size", stays, so that the 101st registration writes
  outside of the table (`TableIsAsLargeAsSaid`); the type of the sixth argument is stored after
  `argumentTypes`, in `argumentCount`, "The number of arguments" (`ArgumentsAreCounted`); a float
  beside other arguments has no type, and none of the letter "f" that the comment has for it
  (`FloatsAreCoded`); numbers below one are not converted "as specified by the IEEE Standard for
  Floating-Point Arithmetic", as their exponent is negative, and comes around in an unsigned char
  (`SmallNumbersAreDecoded`); and from the second level on a name of the call graph is a cell further to
  the right than in the drawing of the comment, which has a line for each exit, too, that the code
  does not print (`DrawnAsShown`).

The models have more of the kind that no run is spent on, most of it as nothing in the repository
says what should be: a PHP property that is null can be registered again, as `isset` is false for it
(`Watcher!Exists`); `void` counts as an argument (`FunctionRegistry!Parsed`); what is allocated when
the pool is full or missing (`EGMemory!CannotGrow`, `NoPool`); a shift by a negative number loses
bits (`HuffmanWrite!ShiftedIn`); a client that ends its input keeps a process busy
(`TcpServer!ReadEnd`); ps and its parent wait for each other (`ProcessLookup`); the log makes a
client per message (`Clog!Opened`); a monitor ends for what was in memory before the first event
(`FsMonitor!FsInit`); a handler of the program is lost after a pointer that could not be read
(`PtrValid!Jump`); the result of `lstat` is not tested, so that a directory is said to be readable with
a file in it that could at no moment be read (`DirAccess!LstatFails`), its last test is made of others
than the group too (`DirAccess!Denied`), and a directory that cannot be listed is readable
(`DirAccess!Start`). The hazards in `PROJECT.json` whose properties say what holds beside such a case
have a note that says so.

## Plan

Everything with state of its own is modelled, and every invariant and action property of the
runs is proved. What is left is safety that liveness rests on, as theorems: what the lifecycle of a
connection never does twice, that a process of the server that is not the first is somewhere in its
loop, and that each algorithm takes fewer steps than a number its input gives.

Not planned: liveness proofs; the formatting of output; what a compiler or a kernel does
that the code does not depend on.
