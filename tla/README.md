# A formal model of the CMU 15-513 labs

The repository holds five small programs of one author: a Unix shell with job
control (`tshlab`), a cache simulator and a matrix transpose (`cachelab`), a
caching web proxy (`proxylab`), three heap allocators (`malloclab`) and a set
of bit puzzles (`datalab`). They share no code and no state; what they have in
common is that each is short and hard to get right. This directory models all
five, checks the models on small instances with TLC, and proves with TLAPS what
matters most about the shell and its command line, the cache simulator, the proxy's acceptor, its
object cache, its requests and their buffered readers, and the allocators with
the implicit and the explicit list.

## 1. Inventory

| Part | State | Operations | What is hard | What makes it correct |
|---|---|---|---|---|
| Job list, `tsh.c:603-717` | `job_list[MAXJOBS]`, `nextjid` | `addjob`, `deletejob`, `maxjid`, `fgpid`, `getjobpid`, `getjobjid` | `nextjid` wraps at `MAXJOBS`, then is set back to the maximum plus one; a full table | an entry stands for one child, a job ID for one entry, numbering restarts when the list empties |
| Shell, `tsh.c:130-402, 529-600` | the list, the signal mask, pending signals, `eval`'s and `perform_job`'s locals, the stack of running handlers, the children | `eval`, `perform_job` (`fg`, `bg`), `wait_foregroundjob`, the handlers of SIGCHLD, SIGINT, SIGTSTP and SIGQUIT | handlers run between any two accesses of the main program to the list, and interrupt each other; signals do not queue; a child is not yet in its process group and still has the shell's handlers and a copy of the list; error returns that leave signals blocked | a dead child is never listed, a child is never lost, ctrl-c reaches the foreground and nothing else, at most one foreground job, the prompt comes back |
| Command line of the shell, `tsh.c:403-527` | none between lines | `parseline` | quotes, redirections and white-space in any order; what carries over from token to token | a command is read as it is meant however it is written; an unfinished one is an error |
| Redirection, `tsh.c:234-243, 350-367` | the table of descriptors | `change_IO`, and `eval` around it | `dup` and `open` failing one by one | a builtin leaves the shell's streams as they were; a child finds its files |
| Cache simulator, `csim.c` | the lines of each set, one priority counter per set, three counters | one per line of the trace | the mask of the tag is built with an overlong shift; the victim is found by priorities | it is an LRU cache, and its counters add up |
| Transpose, `trans.c` | the target, its local variables | `transpose_submit`, `trans` | blocks cut at the border; elements kept in local variables while the block around them is written | `B` is the transpose of `A`, for fewer misses |
| Object cache of the proxy, `cache.c` | a doubly linked list, a reader/writer lock, `free_cache_size`, heap memory | `get_cache_item`, `put_cache_item`, `insert`, `delete` | threads; shared variables tested without the lock; a node freed and linked in again; the lock initialised again while in use | the list is a list, the size is accounted for, requests end, replacement is LRU |
| Request of the proxy, `proxy.c:62-151` | the buffers of `process_request` and `send_request` | the two, `rio_readlineb`, `rio_readnb`, `rio_writen` | pieces of any size; a buffer used again for the next piece; a string where there are bytes | the client gets every byte, now or from the cache |
| Acceptor of the proxy, `proxy.c:22-60` | `*connfd`, the semaphore `mutex`, the descriptors of the process | `main`, `execute_job` | the one cell through which connections are handed over; descriptors are used again; one is never closed | one hand-over at a time; a thread serves the connection it was made for; `main` comes back |
| Allocators, `mm-implicit.c`, `mm-explicit.c`, `mm-seglist.c` | the words of the heap, the break | `mm_init`, `malloc`, `free`, `realloc`, `calloc` | boundary tags overwritten in place; lists kept inside free blocks; splitting; memory running out | blocks tile the heap, lists hold the free blocks, no call changes another block |
| `mm.c` | | empty bodies | | |
| Bit puzzles, `bits.c` | none | 12 functions | overflow, shifts that repeat the sign, rounding | each does what the comment above it says |
| `csapp.c`, `csapp.h` | `rio_buf` and its pointers | buffered reads, robust writes; wrappers that exit when a call fails | short counts; what was read ahead | a line, then a block, whatever the pieces |

How they interact: the shell's main program, its handlers and its children
share the job list and the signal mask, and talk by signals and `waitpid`. The
proxy's `main` and its threads share the cell `*connfd`, the semaphore and the
descriptors; the threads share the object cache, and each has streams of its own
to a client and a server. The other programs have one caller and are sequential.

`PROJECT.json` lists the parts (`components`), every hazard at the line where it
bites (`hazards`) and, for every definition of a module, the lines it stands for
(`map`).

## 2. Modules

| Module | Stands for |
|---|---|
| `JobList` | the job list and its helpers; also a specification of the table alone |
| `TinyShell` (extends `JobList`) | the shell, its handlers, its children, the kernel's part in signals |
| `MCTinyShell` | `TinyShell` with the symmetry of process IDs |
| `CommandLine` | `parseline`, on sequences of classes of characters, and a user who types a command item by item out of `Words` |
| `Streams` | `change_IO` and its callers on the shell's table of descriptors, over any sequence of commands |
| `MCShellInput` | the three side by side: a behaviour is one of one of them |
| `TinyShellProofs` (extends `TinyShell`, `Streams`, `CommandLine`) | proofs, those of the job list, of the redirections and of `parseline` included |
| `LRUCache` | abstract: a cache with LRU replacement |
| `CacheAddress` | how an address is taken apart into set index, tag and block bits |
| `CacheSim` (extends `CacheAddress`) | the simulator, and the claim that it implements `LRUCache` |
| `CachePair` (extends `CacheSim`) | two simulators of different size on one trace |
| `CacheSimProofs`, `CachePairProofs` | proofs |
| `Transpose` | the transposes, and the cache they are rated on |
| `Bits` | the bit puzzles, as operators on words |
| `CacheLab` (extends `CachePair`, `Transpose`) | the programs of `cachelab` and the puzzles side by side: a behaviour is one of the simulator's, one of a transpose's, or one word for the puzzles |
| `ObjectCache` | abstract: an LRU store that several clients ask for objects by URI |
| `ProxyCache` | `cache.c` and its callers, and the claim that it implements `ObjectCache` |
| `ProxyThreads` (extends `ProxyCache`) | several threads that share the cache, and what they and `malloc` must keep to for its claims to hold |
| `Rio` | the buffered reader and the writer of `csapp.c`, as sets of outcomes |
| `RioStream` (extends `Rio`) | one reader, asked for lines and blocks in any order |
| `ProxyRequest` (extends `ProxyCache`, `Rio`) | a request from its first byte to its last |
| `ProxyLab` (extends `ProxyRequest`, `RioStream`) | requests, one reader, and the URI of one request side by side |
| `ProxyServer` | `main` and the threads of `proxy.c` |
| `ProxyShared` (extends `ProxyServer`, `ProxyThreads`) | the acceptor and the shared cache side by side |
| `ProxyLabProofs` (extends `ProxyLab`, `ProxyThreads`) | proofs about the object cache, the readers and the requests |
| `ProxyServerProofs` | proofs about the acceptor |
| `NatFacts` | facts about naturals and sequences that the proofs share |
| `HeapSpec` | abstract: what `malloc`, `calloc`, `realloc`, `free` promise |
| `HeapBlocks` | words, boundary tags and blocks; common to the allocators |
| `FreeList` | the doubly linked free lists of two of them |
| `ImplicitHeap`, `ExplicitHeap`, `SegListHeap` | one allocator each, as operators on a heap |
| `HeapCalls` | a client and its calls; takes the operators of an allocator as parameters |
| `Heaps` | the three under one client, and the claim that each implements `HeapSpec` |
| `AllocatorProofs` (extends `ImplicitHeap`, with an instance of `ExplicitHeap`) | proofs about the implicit and the explicit list and a client of either |
| `HeapsProofs` (extends `Heaps`) | the same for the program of `Heaps` |

A definition keeps the name it has in the source wherever the source names it.
A definition called `Name_Variant` is a wrong form of `Name`, of the kind a slip
in the code would produce. No action uses it; `PROJECT.json` (`mutants`) names
the property that fails when it replaces `Name`.

### 2.1 The shell

*Grain.* The main program makes one step per access to what the handlers share
with it. `eval` is `RunCommand` (block the signals), `Fork` or `ForkFails`,
`AddJob` or `AddJobFails`, then `Unblock`, with `WaitTest` and `Suspend` before
it when the job runs in the foreground. `perform_job` is `JobById`, `ReadPid` or
`JobByPid`, then `SetState`, `Continue` and the same wait. A handler is a frame
on the stack `frames`; `Signal` of `csapp.c` installs it with an empty mask, so
`Deliver` may push another frame at any time, but not a second one of the same
signal. SIGINT and SIGTSTP are two steps, `ReadForeground` and `Forward`. One
round of the loop of `sigchld_handler`, `waitpid` with what it does to the list,
is one step (`ReapDead`, `ReportStop`), and the end of the loop is another.

*Kernel.* A child is `forked`, then in its own group (`ownpg`), `running` after
`execve`, and `stopnew`, `stopped`, `waking` or `zombie` later. A set of pending
signals loses repetitions, as the kernel does. A signal sent to group *p* before
the child has called `setpgid` finds no such group; until then a key at the terminal
reaches the child with the shell (`UserSignal`), while the driver's `kill` goes to the shell alone.
Up to `execve` the child has the handlers of the shell and a copy of its table, of
which only `fgpid` is ever read: the field `fg`, set at the fork. `InheritedHandler` is the child's
`sigint_handler` or `sigtstp_handler`, which sends the signal to the group of that job, and
`InheritedQuit` its `sigquit_handler`. Without `fg` the copy never shows a foreground job;
with it, it can (section 6). `sigsuspend` unblocks the three handled signals and holds back all others,
SIGQUIT among them.

*Input.* `parseline` turns the characters of a line into the words of a command
and `RunCommand` starts from there, with `Pids` and states in place of words:
`TinyShell` takes every command as given. `CommandLine` keeps of a character
whether it is white-space, a quote, a redirection, `&` or none of these. `Turn`
is one turn of the loop, a step from a position `buf` and the tokens found so far,
which stand for `tok` and `parsing_state`, to the next; `Loop` makes as many as
the line has characters, and a turn at its end changes nothing. `Streams` has a table from descriptors to what they stand for.
`Builtin` is what `eval` does around a builtin command, `change_IO` what the
child of any other does before `execve`; a file that is not named and one that
cannot be opened are the same (`Shut`), because `dup2` and `close` of -1 do
nothing.

*Left out.* The `jobs` builtin, which only reads and prints; `printf` inside
handlers, whose buffers are not modelled. The scan of `fgpid` is one step.
`MaxJid` bounds nothing in the code: no new command is given once `nextjid`
exceeds it.

### 2.2 The cache simulator

`Access` is one data line of the trace: `Hit`, `Insert` or `Replace`. A set is
the sequence of its lines in the order of the linked list. `Mask` is computed
the way the machine does it: the code shifts an `int` by `64 - (s + b)`, and the
hardware takes that modulo the word size `W`. `s + b = 0`, `s > 5` (beyond
`initSet[32]`) and `E = 0` are excluded by the assumption on the constants.
`getopt`, reading the file and `printLine` are left out.

`Transpose` runs `transpose_submit` on its three sizes and `trans` on the square
one, in their real sizes. A step is one row of a block (`BlockRow`), one of the
groups of loads and stores of the 64 x 64 case (`Rows64`) or one element
(`Element`). `A[i][j]` is the pair of its indices, so that a result tells where
every element came from. The driver is not in the repository; `LineOf` assumes that
the rows of a matrix lie next to one another and that both matrices begin at the same
offset of the 1KB cache, which is what the comment on the conflicts says. Loop
counters are taken to be in registers.

`Bits` takes the width of a word and of the parts of a float as parameters. A
word is the set of the positions of its ones; the machine's operators on it
(`Shl`, `Shr`, `Add`, ...) are external, each puzzle is the code's expression. `rotateRight`
by 0 shifts by the width of the word, which C leaves undefined: both results a machine may give
are in the set it yields.

### 2.3 The proxy

`ProxyCache` has one process per thread. A thread makes one step per lock
operation, per node of a scan and per test of a shared variable it makes without
the lock; a critical section and the unlock that ends it are one step. Nodes are
addresses; `free` overwrites the first two words of a node (`next`, `prev`) with
junk, and `malloc` returns the next unused address or, when `Reuse` is TRUE, one
that was freed. `initialize_cache` is not called by `main`, so the list, the lock
and the size start as the zeros of static storage: `Init` says so, and the first
`delete` initialises them. An object is its URI and its length. One of length 0 may be
stored before that first `delete`, which then evicts it although there is room: so
`Evict` of `ObjectCache` lets empty objects go as long as the cache holds no others.

`ProxyThreads` is about several threads. The code gives up the lock between finding a
node, freeing it and linking it in, and reads the free size and the tail without it;
`free` in `get_cache_item` gives a node away that is about to be listed. `OrderlySpec`
has the steps of `Spec` for which this does no harm. `Orderly`: while a thread is
`Changing` the list (from its hit or from `put_cache_item` to the end of its use of the node) no
other is in a scan or in such a change, and of the threads that are `Beyond` their scan
no two have asked for the same URI. `Spares`: `malloc` returns no node that is
in the list. Threads still scan at the same time, wait for the lock, and talk to
their servers while another changes the list.

`ProxyRequest` adds the bytes. `Receive` is `process_request`: any division of
the client's line into reads. `Parsed` takes what `host[]` and `path[]` held before as well as the
URI, because either may be left unwritten; in `ProxyLab` the constant `Stack` is what they may have held. `Dial` opens the connection to the server, which
answers one of `Responses`; `Relay` is one round of the loop, in which
`rio_readnb` fills `response[]` and the bytes go to the client and to the end of
`cache_content`; `Finish` is the last round with the call of `put_cache_item`.
`Text` is what `strcat` takes for the string in `response[]`, the
bytes of an earlier piece and the memory behind the buffer included. A step of
`InCache` is one of `ProxyCache`. In `Rio` an operator yields the set of all
outcomes, one for each way in which `read` and `write` may transfer fewer bytes
than they are asked for. `MAXBUF`, `MAXLINE` and `RIO_BUFSIZE`, which are equal in the code, and the size of an object are
scaled down; they differ so that a block may end inside the reader's buffer
and some lines are cut. A read that fails, a client that goes away and a signal that
interrupts a read are left to `ProxyServer` (`RioFails`) or, the last, repeat the
call without effect.

`ProxyServer` keeps of a request only the descriptors it opens and closes.
`Accept` stores the connection in `*connfd`, `Wait` is `P`, `Create` makes the
thread, `Release` is the thread's `V`, and `ReadArg` the read of `*connfd` that
comes after it. A descriptor is always the lowest that is free. `Serve` and
`Forward` are the two ends of a request; the second leaves `server_fd` open, as
the code does. `RioFails` and `AcceptFails` are the wrappers of `csapp.c` that
end the process. `Misread` is a thread that reads a request from a descriptor
which by then is another thread's connection to a server.

### 2.4 The allocators

A heap is an array of 4-byte words and the break. Each allocator module defines
`malloc`, `free`, `realloc` and `mm_init` as operators that write the same words
the C functions write. `HeapCalls` is instantiated with them (as `Calls`): its
actions are the client's calls, and `calloc`, which is the same in the three
files. `Heaps` picks one allocator at the start.

The client holds what it gets under handles, fills it, and passes `free` and
`realloc` only what it holds. Pointers are stored as 32-bit halves in the code
and completed by `fixAddress`; all of the heap shares the upper half, so the
address survives. `realloc` copies past the old payload, as the code does;
what lies past the end of the memory is taken to be 0. A failing `mm_init` is
left out, and so is wrapping around: the size of a call is a number, `calloc` is given the product,
no sum or product is taken modulo 2^64 and no tag modulo 2^32 (a request near 2^64 would get a small
block). `CHUNKSIZE` and the sizes are scaled down. `mm_checkheap` only prints.

## 3. Runs

Every run finishes well within five minutes.

| Run | Instance | What it shows |
|---|---|---|
| `shell_launch` | commands, ctrl-c, SIGQUIT, `fork` failing; no `fg`, `bg`; children that stop by themselves; 2 entries, 2 children; lines of up to 3 words and `&`, which fill `argv`, tables of 5 descriptors | the foreground is the job `eval` waits for, with the signals blocked (`ForegroundAwaited`, `AtMostOneFG`); numbering restarts; stops are recorded; no handler, of the shell or of a child before `execve`, sends a key's signal to a background job (`KeysSpareBackground`); the shell does not dereference a null pointer; a command is read as it is meant and an unfinished one is refused (`ReadsCommands`); redirections reach the child and leave the shell alone (`ChildRedirected`, `StreamsRestored`) |
| `shell_jobs` | all builtins, ctrl-z, `fork` failing; 2 entries, 3 children | the list is sound and complete although `fg` and `bg` run with the signals unblocked and a child may find no entry; the shell's handlers spare the background (`SparesBackground`) |
| `shell_live` | no builtins, ctrl-c; 2 entries, 2 children; fairness | `eval` returns, zombies are reaped, ctrl-c ends the foreground job |
| `csim` | 4-bit addresses, 2 sets of 2 lines beside 2 sets of 3, 5 accesses; matrices of 32 x 32, 61 x 67, 64 x 64; words of 8 bits, floats with 4 and 3 | `ImplementsLRU`, `Inclusion` (more lines never lose a hit), `BlockIdentity`, `SetsSound`; the transposes are ones and cost few misses (`Transposed`, `FewMisses`); the puzzles do what they say (`PuzzlesRight`) |
| `proxy_cache` | 1 thread, 3 URIs, responses of 1, 2, 3 and 5 bytes in pieces of 2, capacity 4, memory not reused | requests end, the cache implements `ObjectCache`; lines and blocks are read whole (`StreamsIntact`), a URI falls into its parts, whatever the stack held (`UriParts`), the client gets every byte (`RelaysAll`) and the cache the same bytes if they are a string (`TextIsCached`) |
| `proxy_shared` | `main`, 3 threads, 3 descriptors, 4 connections; beside them 3 threads as in `OrderlySpec`, 3 URIs, objects of 0 and 3 bytes, capacity 6, 3 nodes that are reused | one hand-over at a time, a thread never serves a connection older than its own, `main` always gets past `P`, however long the threads wait for their clients; and the list of a shared cache is sound, its size accounted for, a hit gets the object asked for (`RightObject`), the whole implements `ObjectCache` |
| `heaps` | each allocator; 3 handles; sizes 0, 8, 28; chunks of 32 bytes; room for one or two extensions | `BlocksSound`, `ListsSound`, `Coalesced`, `KeepsPromise` |
| `finding_two_fg` | `fg`; 2 entries, 3 children | two jobs in state FG, against `tsh.c:38` |
| `finding_fg_hangs` | `fg`; 1 entry, 1 child; fairness | the shell sleeps after the job has ended, against `tsh.c:369` |
| `finding_unreaped` | 1 entry, 2 children; fairness | a zombie that is never reaped, against `tsh.c:537-539` |
| `finding_proxy_list` | 1 thread, memory reused | the list is no longer one, against `cache.c:5` |
| `finding_corrupt_cache` | 1 thread, 1 URI, responses with a zero byte among them | the cache holds what no server has answered, against `proxy.c:96-98` |

### The bounds

*Shell.* Two children suffice for one foreground and one background job, or for
one stopped and one running, with the handlers of both interleaved; process IDs
are freed and come back, so that a table entry and a `pid` are used again. The
full table needs more children than entries: `shell_jobs` has three and two. With
two entries `nextjid` wraps after the second job. `shell_launch` has ctrl-c and `shell_jobs`
ctrl-z, which take the same steps in the model (`UserSignal`, `KeyStep`, `InheritedHandler`) and differ in what a
child does with them; with both in one run the states are too many. So the handlers of SIGINT
and SIGTSTP are checked interleaved with that of SIGCHLD, not with each other: for that there are only the theorems,
which hold for every `UserSignals`.
`SYMMETRY` is used where no liveness is checked, and in `proxy_shared` for the threads and URIs of the cache, which stand
still in every behaviour that `MainAdvances` is about.

*Cache simulator.* Five accesses fill a set of two lines, evict, hit and evict
again, in both caches; a reordering of a three-line set takes four. Every
sequence over all sixteen addresses is a trace.

*Command line.* Every command of up to three items (arguments or file names),
each one of six words that a separator, a quote, a redirection or `&` makes hard,
quoted in every way in which it can be. `MAXARGS` is 5, the least that takes three words and
`&`, so that the loop also leaves because `argv` is full. All tables of
five descriptors to start with, so that `dup` and `open` find three, two, one or
none free, and then any sequence of commands.

*Transposes, puzzles.* The real sizes; 61 x 67 cuts blocks at both borders. In words of 8
bits every pair of integers, hence every overflow, is tried; the four exponent
bits give floats below 1, inside and beyond the range of an integer, and denormal ones.
Nothing in the puzzles depends on the width but their constants.

*Readers.* A stream of up to four bytes with newlines anywhere, a buffer of three: a
line may end in, at and behind the end of what the kernel has handed over. URIs have
up to six characters; two strings that are not URIs stand for all the stack may hold, since none of them is looked into.

*Object cache and requests.* Three URIs and a capacity of four bytes make the list hold up
to three nodes, so that head, middle, tail and only node are all deleted, and an
object of three bytes evicts up to two. Three nodes of memory allow three insertions
of fetched objects. A response of one byte is a short piece, one of two fills `response[]`, one of three is a
whole piece and a short one, which leaves an old byte in `response[]`, and one of
five is too large to be cached. `TextIsCached` speaks of the first two.
One thread, because with two unrestrained ones the claims are false: see section 6.

*Threads of the cache.* Two of three threads fetch while the third changes the list,
or wait for it at the lock; all three may scan together. Three nodes are all in use with two objects and one that is being put
in; then `malloc` returns what an eviction has freed, or what a hit has freed and linked in
again, unless `Spares` forbids it. Two objects of three bytes fill the capacity; empty
ones may be stored before the first eviction and be among what is evicted. With smaller objects
beside them the run would not end in time; `proxy_cache` has them.

*Acceptor.* Three threads let two of them be late in reading `*connfd`
while a third is created; three descriptors are used up by as many connections, or sooner by
the server connections that are never closed, and the closed ones are reused.

*Heaps.* The first chunk holds two of the smallest blocks. A request for 28 bytes needs a block
of 40, more than `CHUNKSIZE`, so that `malloc` extends the heap by the size asked for and not by a
chunk. There is room for one such extension or for two chunks, and then memory runs out. Three
handles free blocks with zero, one and two free neighbours. A block for 28 bytes
is in the second of the nine size classes and one for 8 in the first, so that
a split changes class. The nine list heads of `SegListHeap` take nine words more
than the implicit prologue and eight more than the explicit one, so `Heaps`
gives it these more. `VIEW` identifies states that
differ only in words left by earlier blocks: `realloc` may copy such words, but
only to where the client writes next, and no call decides anything by them.

### Deadlock

`CHECK_DEADLOCK FALSE` is said where the program stops: the shell exits
(or crashes), a trace ends, memory or the numbered nodes and connections are
used up, the proxy exits, or `calloc` writes through NULL.

### Fairness

*Shell.* Strong fairness of the main program, of each handler and of delivery:
signals may keep interrupting the shell, but it runs between two of them, and a
signal that is deliverable again and again is delivered. Weak fairness of a
child's way to `execve`, inherited handlers included, and of its reaction to a signal. None of the user (no
command or key need come) and none of the programs (none need end or stop).

*Requests.* Weak fairness of each thread, in the cache as outside: the code has no
timeout, so that a thread waits for the end of a response, and a server that never ends
one holds it for ever. The model takes the servers to end their responses. A
client need not come back.

*Acceptor.* (`Fairness` of `ProxyServer`.) Weak fairness of `main` between two accepts and of the first step of each thread,
which is its `V`. None of what a thread does after that: there is no timeout, so that it may wait for
its client or a server for ever. No client need connect.

## 4. Proofs

`tlapm` checks every theorem for all values of the constants that satisfy the
named assumptions: any table size, any set of process IDs, any `s`, `E`, `b`,
any number of threads, descriptors, files and connections, any capacity, URIs and
lengths of objects, any words on a command line, any buffer, stream and response, cut into pieces of any size, any
chunk, memory, handles and sizes. The sizes are numbers, where the code computes with a `size_t`
of 64 bits, in which `size + 15` of `getMallocSize` or the product of `calloc` may wrap around, and
keeps the size of a block in a tag of 32 bits. The theorems about the heaps are about calls whose
block, computed without wrapping, fits into a tag.

| Module | Theorem | Says |
|---|---|---|
| `TinyShellProofs` | `TableTyped` | the table and `nextjid` keep their types; `nextjid` is never 0 |
| `TinyShellProofs` | `EmptyListRestarts` | `nextjid` is 1 whenever the table is empty |
| `TinyShellProofs` | `Typed` | the type invariant of the shell |
| `TinyShellProofs` | `ListIsSound` | a listed pid is a child not reaped, listed once |
| `TinyShellProofs` | `ListIsComplete` | a child not reaped is listed unless `addjob` refused it |
| `TinyShellProofs` | `BackgroundIsSpared` | the shell's handlers never send ctrl-c or ctrl-z to a job listed in the background |
| `TinyShellProofs` | `ForegroundIsAwaited` | without `fg`, the foreground job is the one `eval` waits for |
| `TinyShellProofs` | `OneForeground` | without `fg`, at most one foreground job |
| `TinyShellProofs` | `KeysAreForTheForeground` | without `fg`, nor do those that a child runs before `execve` (`KeysSpareBackground`) |
| `TinyShellProofs` | `StoppedJobsAreListed` | without `fg` and `bg`, the list says ST exactly of the stopped children, but for a SIGCHLD not handled yet |
| `TinyShellProofs` | `HandlerFindsEntry` | without `fg` and `bg` and with no more children than entries, the handler finds an entry for every child that stops |
| `TinyShellProofs` | `StreamsAreRestored` | over any sequence of commands every descriptor that is open goes on standing for what it did, whichever of `dup` and `open` failed |
| `TinyShellProofs` | `ChildIsRedirected` | with one descriptor free a command gets the files it names, and no other |
| `TinyShellProofs` | `CommandsAreRead` | `parseline` reads a command that fits into `argv` as it is meant and refuses an unfinished one (`ReadsCommands`) |
| `CacheSimProofs` | `SetsStaySound` | at most `E` lines in a set, no block twice, distinct priorities up to the counter |
| `CacheSimProofs` | `VictimIsOldest` | no line of the set has a lower priority than the one overwritten |
| `CacheSimProofs` | `SimulatorIsLRU` | the simulator implements `LRUCache`, counters included |
| `CacheSimProofs` | `MissesAreExplained` | every miss brought in a line that is still there or has been evicted |
| `CacheSimProofs` | `BlocksAreIdentified` | set index and tag name the block of an address, whatever the geometry and the width of an address (`BlockIdentity`) |
| `CachePairProofs` | `LargerCacheIncludes` | with one line more per set a cache holds all the smaller one holds and never has fewer hits |
| `ProxyLabProofs` | `OrderlyTyped` | the type invariant of the object cache (this and the next four: any number of threads and any reuse of memory, as in `OrderlySpec`) |
| `ProxyLabProofs` | `OrderlyList` | the list is doubly linked, ends in NULL both ways, and has no URI twice |
| `ProxyLabProofs` | `OrderlySpace` | `free_cache_size` is what the listed objects leave of the capacity |
| `ProxyLabProofs` | `OrderlyAnswers` | a hit answers with the object asked for (`RightObject`) |
| `ProxyLabProofs` | `OrderlyIsLRU` | `cache.c` implements `ObjectCache` |
| `ProxyLabProofs` | `ReadersLoseNothing` | lines and blocks asked for in any order are what comes next on the stream; nothing is lost or given twice (`StreamsIntact`) |
| `ProxyLabProofs` | `ResponsesAreRelayed` | what a client has been sent at the end is the whole response, from the server or from the cache (`RelaysAll`) |
| `ProxyLabProofs` | `TextReachesCache` | what is put into the cache is the response, if that is text and fits the buffer (`TextIsCached`) |
| `ProxyLabProofs` | `UriIsTakenApart` | host and port are those of the URI, and the path if it has one, whatever the stack held (`UriParts`) |
| `ProxyLabProofs` | `RequestsUseCache` | whole requests use `cache.c` as `ProxyCache` says: each step is one of its steps or a stutter |
| `ProxyLabProofs` | `OrderlyRequests` | the five claims about the object cache hold of it under whole requests, as long as they are `Orderly` and `malloc` `Spares` the list |
| `CacheSimProofs`, `ProxyServerProofs` | `Typed` | the type invariants, which, like `OrderlyTyped` and `MissesAreExplained`, no run repeats |
| `ProxyServerProofs` | `HandOversExclude` | one hand-over at a time: the semaphore, `main` after `P` and the threads before `V` share one token |
| `ProxyServerProofs` | `ThreadsServeForward` | a thread never holds a connection older than its own |
| `AllocatorProofs` | `HeapIsSound` | implicit list: the blocks tile the heap, their tags agree, the allocated ones are those the client holds, large enough |
| `AllocatorProofs` | `HeapIsCoalesced` | implicit list: no two free blocks side by side |
| `AllocatorProofs` | `HeapKeepsPromise` | the implicit list implements `HeapSpec`: no call changes the words of another region, `realloc` carries them over, those of `calloc` are 0 (requests of whole words) |
| `AllocatorProofs` | `ExplicitHeapIsSound` | explicit list: the blocks tile the heap up to the break, their tags agree, the allocated ones are those the client holds, large enough |
| `AllocatorProofs` | `ExplicitHeapIsListed` | the list inside the free blocks leads from prologue to epilogue, points back at each node, and holds the free blocks and no others |
| `AllocatorProofs` | `ExplicitHeapKeepsPromise` | the explicit list implements `HeapSpec` (requests of whole words) |
| `HeapsProofs` | `ListIsCoalesced` | `Coalesced` of `Heaps`, whichever allocators there are to choose from |
| `HeapsProofs` | `ListIsSound`, `FreesAreListed`, `ListKeepsPromise` | `BlocksSound`, `ListsSound` and `KeepsPromise` of `Heaps` for the program linked with the implicit or the explicit list |

*The shell's invariant.* None of the properties is inductive. The first group
follows from `Inv`, which adds three facts to `TypeOK`, `ListingSound` and
`ListingComplete`. `NewChildIsShielded`: from the block before `fork` to the end
of `addjob` no handler runs and the new child is not listed. Without it a
handler could reap the child before it is listed. `ForwardedIsForeground`: what
a key handler has read is, as long as the child is not reaped, a job in state FG
or ST. This is what makes the late `kill` safe: other handlers may change the
list in between, but no step turns a foreground job into a background one while
a handler is running. `SlotKnown`: `perform_job` holds an index when it reads
the pid through it. `StepCases` splits a step into the few that change the list,
each described by an effect lemma, and the many that are quiet.

The second group assumes that `fg` is not among the user's commands and adds
`EvalWaits` (what `eval` knows while it waits), `FgHasPid` (an entry in state FG
has a pid) and `ForegroundAwaited` itself. A child is forked when nothing is in the
foreground, so no copy of the list ever shows a foreground job (`CopiesIdle`), and the handlers of a child do
nothing. With `fg` the conclusions are false:
those are `finding_two_fg` and, for the handlers of a child, section 6.

The last two assume that neither `fg` nor `bg` is used (`JobCommands = {}`),
because both set the state of a job before they send SIGCONT, and a stop that is
reported in between stays in the list (section 6). `StopInv` adds to
`Inv` that `perform_job` does not run, that a child which `addjob` is about to
list has not been seen to stop (it would be listed as running for ever), and that
only a child without an entry crashes the handler. `HandlerFindsEntry` needs
`Cardinality(Pids) <= MAXJOBS`: then the table, which lists a child once, is full
only when every child is listed, so that `addjob` never fails and no child is
without an entry.

*The descriptors.* The invariant says that the shell's two streams are open and
that the last command found its own. `LowestIsFree` gives what `open` and `dup` return,
`OpenedKeeps` and `RedirectChanges` what a call leaves alone. The case that makes it
work when `dup` fails: then no descriptor is free, every `open` fails too, and
`change_IO` changes nothing that would have to be restored.

*The command line.* The hypotheses are `CommandAssumption`: the words are any sequences of
characters, but none begins with `&` (section 6), and a command has so few that `argv` takes
them and `&`. The invariant, `LineTyped`, says only that the line is a sequence of at most
`MaxItems` items; `ReadsCommands` follows from it by what the loop does, without
a step of the specification. `Part` says that a text stands on the line from a position on; a text
that is joined of two stands there as two parts (`PartsApart`). `Came` says that the loop comes to
a position with some tokens, after fewer turns than the number of the position. Each turn
moves `buf` on, so that this is kept by every turn (`TurnTaken`) and a loop that is behind the line has
turns enough (`LoopEnds`). There is a lemma for each kind of turn: a blank, a
redirection, a bare word, a quoted word, a quote left open (`BlankTurn` to `UnclosedTurn`).
`ItemRead` puts them together for one item, in every way in which it may be written, and
`ItemsRead`, by `UpTo` on the number of items, for all of a command: the tokens are then the arguments
and the files that are meant, or there is a second file for a stream. What may
stand behind the items, an `&` or the beginning of something, is one turn or two
more (`AmpersandLast`, `FileMissing`, `QuoteLeftOpen`, `FileLeftOpen`).

*The simulator's invariant* is `TypeOK` with `SetsSound`: a new priority is
larger than all in the set, hence the minimum is taken once, hence the victim is
unique.

*The simulator is an LRU cache.* The abstract stack of a set is a function of the
concrete state: `Recency` sorts the lines by falling priority, the place of a
line being the number of lines with a higher one (`Rank`). `RefInv` adds to the
invariant that each set has such an order, which `RecencyIsOrder` then shows to
be the one `Recency` computes. `AccessIsLRU` takes the three cases of an access: a
hit moves a line to the front of the order (`OrderMoved`), a miss with room
puts one in front (`OrderGrown`), and a miss in a full set replaces the last,
which is the one `Victim` finds.

*The blocks.* `BlockIdentity` holds in every state or in none, so its theorem rests on no
invariant but on shifts: `1 << n` is the recursive function `Shifted`, which is
shown to exist and to double (`DoublingExists`, `ShiftedIs`), so that a shift by two numbers is two
shifts (`ShiftedTwice`); then the mask of the tag is seen to cut off nothing
(`TagIsHigh`), and tag and set index are quotient and remainder of one number.

*Inclusion* needs more than the sets of blocks: the two caches replace different
lines, so the invariant must say which. `Nested` says that a line of the smaller cache is
in the larger one with the same priority, that what only the larger one holds is
older than all of it, and that there is no such line before the smaller set
has been full. The two priority counters are equal, since each counts the accesses
to the set.

*The object cache.* `ListSound` and `SpaceAccounted` say nothing of the steps
between two locks, and `RightObject` only of the end of a request.
`CacheInv` says that there is a sequence `c` of nodes and a function `s` (the
sums of the lengths of its first nodes) with which everything agrees: `Links`, the pointers
of the nodes are the neighbours in `c`, `head` and `tail` its ends; `Sums` and `Space`,
the free size is what `c` leaves; and for every thread `AtStep`, one conjunct for each phase
of it. In the scan, the node looked at is in `c` and no node before it has the URI
(`Scanning`), so that a scan that ends has seen them all (`Missing`); between
`get_cache_item` and `insert` the node of a hit is in `c` until `delete` has taken it
out, and in no list from then on (`Holding`, `Missing`); what an eviction has compared
is still true when it deletes (`Evicting`). `c` and `s` are
quantified, not computed: the walk along the `next` pointers, `Chain`, is what the
proof shows to be `c` (a recursive function on a finite list, of which
only the values met are used). Each step has a lemma that names the new `c`:
the same, one node less (`Deletes`), or one more in front.

A step of one thread must keep `AtStep` of all others. If it leaves the list alone, they do not
notice (`OthersUnmoved`); if it takes a node out, puts one in or fills a new one, `Orderly` says
where the others are, and there the list matters only to a thread that fetches: its object is still missing,
because the one put in is another (`TakenFromOthers`, `LinkedForOthers`, `PutBesideOthers`).
The lock is counted apart, in `LockCounts`: its readers are the threads that scan,
its writer is the one that links or unlinks. That the initialization in `delete`
forgets no holder follows from there being none.

For the refinement, `Shows` relates the abstract store to `c`, with the node of a hit in
front while it is in neither place; a step then is one of `ObjectCache` or a
stutter. Only one thread can hold such a node, so that it does not matter which one
`Objects` chooses.

The conditions of `OrderlySpec` are what the code relies on without seeing to it, and the theorems
say that nothing else is missing. They are about the behaviour, not about the
size of an instance: any number of threads, URIs, nodes and lengths. With one thread `Orderly`
says nothing. When `malloc` returns no memory that was freed, `Spares` follows
from the rest (`OrderlyBehaviour`). Where one of them fails, so do the claims: `finding_proxy_list`
breaks `Spares` alone, and section 6 has what two threads do that break `Orderly`.

*Readers.* `rio_readnb`, `rio_readlineb` and `rio_writen` are loops whose passes
take pieces of any size. `Turns` is the set of states such a loop may have come to after
so many passes; a loop that has ended makes turns that change nothing, so that one number of turns is enough for all. Induction on that
number is the theorem `UpTo` of `NatFacts`, about a set of naturals, which needs no operator as a
parameter. `BlockIsNext`, `LineIsNext` and `WholeIsWritten` give what each loop
has done after any number of turns: what it has collected, what the buffer holds and
what is left of the stream, joined, are what there was at the start (`RefillKeeps`,
`ReadKeeps`, `MoreKeeps`). That the loops have outcomes at all is `TurnsExist`:
without it the claims about them would say nothing.

*Requests.* `RelayInv` is about every relay in progress: what has been sent and what is left
are the response, and the total is the length of what was sent. A response without a zero
byte that fits into `response[]` comes in one piece, because `rio_readnb` does not
return before the buffer is full or the stream at its end; so either nothing has been sent
of it, or all, and then what `put_cache_item` copies is the response. `RelayInv` was checked with TLC before it was proved. These theorems ask
nothing of the threads, since a relay shares nothing with another. The last two say how
requests and the object cache fit together: under `LengthsFit` a request that has read its
response stores an object of a length that `ProxyCache` has among its own, and the other
steps of a request do not touch the cache, so that the theorems on `OrderlySpec` are theorems on
the behaviours of `LabSpec` that keep to its conditions.

*The acceptor's invariant* adds three facts. `TokenKept`: the threads that have
not called `V` are finitely many, and with the semaphore and `main` they hold
one token. `CellFilled`: there is a descriptor in `*connfd` for whoever is about
to use it. `CellIsNewest`: if that descriptor still stands for a connection, it is
the one accepted last, because `accept` returns the lowest free number and
stores it in the cell at once; so what a late thread reads is never older than
what it was created for, and a number that is used again later stands for
something newer.

*The implicit list.* `Sound` and `NoFragments` speak of the blocks that a walk
from the first one finds, which says nothing of what a call does to them.
`Inv("implicit")` says instead that there is a set `B` with `Laid`, that is: `B` tiles the
heap up to the epilogue (`Tiles`: every block ends where another or the
epilogue begins, every block but the first begins where another ends, header
and footer agree), the words of the prologue and of the epilogue stand
(`Fences`), and no free block follows another (`Apart`); and with `Owned`:
handles and allocated blocks belong to each other one to one, each block as large
as was asked for and two tags more. That the walk finds `B` is `BlocksAre`, which
also shows that the recursive function in `BlocksBetween` exists
(`OnwardExists`: there is no shortest walk without one).

A call is shown to keep `Inv` by cutting the heap in three parts (`TilesCut`), tiling the
middle one anew, and joining them again (`TilesJoin`); `TilesReplaced` is the three
together, with the words of all other blocks left alone (`Kept`). What is put in
the middle is one block for `coalesce` (`Merged`, four cases in
`CoalesceKeeps`) and for `block_mark` (`MarkKeeps`), two for a `place` that cuts
(`CutKeeps`), one at the end for `extend_heap` (`GrowKeeps`, which takes the
old epilogue for the header). Between
the steps of a call `Apart` fails at one block, and `ApartBut` says which.
`MallocSize` is the arithmetic of `getMallocSize`: a multiple of 8, at least 16 and at least the
request plus two tags. `realloc` copies more than the old payload; that it never writes
behind the new one is `CopyKeeps`, and needs the new block to be no smaller than
the request. For the refinement the blocks that are kept keep their regions
(`RegionKept`), and the regions of different handles are apart because their blocks
are (`RegionsApart`).

*The explicit list.* `Inv("explicit")` has the same two parts. `Laid` differs in
what the code does: no epilogue follows the last block, so `B` tiles the heap up to the break;
and the free blocks are on the list (`ListOf`). `Apart` is not part of it, and is not
true: a block that is freed at the break is not merged (`FreeCoalesces`, section 6).
A list in memory invites an induction along its links, which the prover does not
have. `Linked` needs none: every node points to a node or to the epilogue, what it
points to points back, and some numbering `r` of the nodes grows along the links,
so that there is no cycle. A call changes few links, and for each change there
is a new numbering: `placeFreeBlock` gives the new first node the number of the
prologue and the prologue one less, `removeBlock` keeps the numbers there are, `Relink` gives those
of the old node to the new one. The words the list writes are in free blocks or in the
prologue, so the tiling and the allocated blocks do not change, which is what
`ExplicitHeapKeepsPromise` needs. That the walk `Nodes` of the model, and of
`find_first_fit`, ends at the epilogue and finds each free block is `ListIsSound`
and `ListIsTrue` of `AllocatorProofs`; they rest on `Linked`, on the free blocks being finitely many, and
on no walk being longer than there are words.

`TilesReplaced`, `Merged`, `MarkKeeps`, `CutKeeps` and `CopyKeeps` serve both. A call
of either allocator is an instance of `Steps(kind)`, and the invariant and the
refinement are proved of `Steps`, once (`InvPreserved`, `StepIsPromised`).

*What is assumed of the constants.* The sizes are natural numbers of any kind, for which see the limit above. For
`HeapKeepsPromise`, `ExplicitHeapKeepsPromise` and `ListKeepsPromise` they are
multiples of 4, because the client of the model fills and compares whole words. The
theorems on the explicit list assume that the memory holds the prologue and the
first chunk; `mm_init` fails otherwise and the program never gets to a call.
`HeapsProofs` only carries the theorems over: `Heaps` gives each allocator as much
less memory as its prologue is shorter than the longest, so that its instances of
`ImplicitHeap` and `ExplicitHeap` and the two of `AllocatorProofs` are shown to be
the same, definition by definition.

`NatFacts` proves that a set of naturals that is not empty has a least element,
which every invariant needs for `Min`, that a set with 0 and with the successor of
each of its numbers up to `n` reaches `n` (`UpTo`), when two sequences are the same
(`SameSeq`), and what `\o` and `RemoveAt` make of the elements of a sequence.

*Only model-checked*: every liveness property; the segregated lists and their
refinement of `HeapSpec`; the transposes; the bit puzzles. Liveness and `ENABLED` are beyond the
prover. The segregated lists need `Linked` for each of nine lists and the
`realloc` that shrinks a block where it is (section 8). The transposes are for sizes fixed in the code, which a
run checks in full; the puzzles are about the bits of a word, of which the provers know too little.

## 5. Findings

`PROJECT.json` quotes each. In short: `fg` runs with the signals unblocked, so
it can mark a cleared entry FG and can miss the wakeup it waits for; a child between
`fork` and `execve` handles a key by the list as it was at the fork; the error
returns of `eval` leave the signals blocked; `get_cache_item` frees the node it
is about to link in again; `send_request` treats a response as a string where it
collects it for the cache, and as bytes where it counts it.

## 6. Claims that fail and have no run

The modules state some claims that the code does not keep and that no run
checks. TLC refutes each on a small instance:

- `CtrlCReachesForeground`: a ctrl-c that arrives before the child has left the
  shell's group or reached `execve` is lost.
- `QuitEndsShell`: SIGQUIT is held back while a foreground job runs.
- `KeysSpareBackground` with `fg`: a job that `fg` has left in state FG at the prompt is in the
  copy of the list that the next child gets. A ctrl-c that reaches this child before
  `execve` kills the job, also when `bg` has put it in the background since.
- `StoppedIsNotRunning`: `fg` and `bg` set the state before they send SIGCONT,
  and a stop reported in between stays in the list.
- `JidsDistinct`: while the first job runs on, launches and ends of others lead
  the numbers up to `MAXJOBS`; then `addjob` starts again at 1, which is in use.
  Four jobs in a table of five entries show it.
- `EveryConnectionServed`: `*connfd` is overwritten when `main` accepts again
  between a thread's `V` and its read; one connection is served twice and another
  never.
- `ListSound`, `SpaceAccounted` and `RequestsEnd` with two threads that do not keep
  to `Orderly`, and `RightObject` with such threads and memory that is reused: a node may be
  deleted twice, and the lock is initialised again while another thread holds it. Two
  threads that fetch the same object both store it.
- That the cache makes room only when there is none: an empty response that is the first to be
  stored meets the free size of static storage, 0, which suffices, and the first
  `delete`, which comes later, evicts it.
- `UriAlone`: the path of a URI without a `/` is what an earlier call left on the stack, and
  `send_request` asks the server for it.
- `FreeCoalesces`: `coalesce` of `mm-seglist.c` and of `mm-explicit.c` does not
  merge a block at the break with a free one before it, although the comment
  says that coalescing is done "if possible" at every `free`.

Some things the definitions show that no claim denies:

- A last word that begins with `&` asks for the background and is dropped, quoted
  or not, whatever follows the `&`. `<` may be repeated before its file. From the
  word on that fills `argv` a line is ignored without an error.
- A redirection to a file that cannot be opened is made nowhere, and the command
  runs with the shell's streams. A builtin command uses up two descriptors for good.
- A URI that does not begin with `http://`, or has nothing behind it, leaves `host` as the stack was,
  and an empty request `buf`. A `:` in the
  path is taken for the port. `size < 0` is never true of a `size_t`.
- `rio_readlineb` returns one more than it has read when the line is cut or ends
  without a newline; the proxy does not use the count.
- A connection that breaks off looks like the end of the response, and what came
  is cached as the whole, an empty response too.
- `trans` runs over the rows and columns the wrong way round and is right for
  square matrices only; `transpose_submit` does nothing for other sizes.
- The `mm_checkheap` of each allocator returns 0 whatever it finds.

## 7. Not modelled

`mm.c`, whose functions are empty. Of `csapp.c`, `rio_readn`, which nothing calls, and the
wrappers, each one call and an exit, but for the outcome of a failing one;
the set-up of sockets is `Opened` of `ProxyServer`. The text of the headers
`send_request` composes. `mm_checkheap`, `printLine`, `listjobs`, `usage`, `getopt`, `registerFunctions` and all printing.

## 8. Plan

Order of work, most important first; the first twelve are done.

1. The shell: `JobList`, `TinyShell`, its runs, its invariant proved.
2. The cache simulator against `LRUCache`; the soundness of a set proved.
3. The proxy: `ProxyCache` against `ObjectCache`, `ProxyServer`.
4. The allocators against `HeapSpec`.
5. Requests byte by byte: `Rio`, `ProxyRequest`.
6. What keeps no state: `CommandLine`, `Streams`, `Transpose`, `Bits`; the
   descriptors proved.
7. Theorems about the shell without the builtins, `NeverCrashes` and
   `StoppedIsListed`; the simulator is an LRU cache, larger ones include smaller
   ones, misses are explained.
8. `ProxyThreads`, and theorems about the object cache under its threads: the list, the
   space, the answers, and that it is an LRU store.
9. Theorems about the implicit list: the tiling, with the blocks quantified as the
   list of the object cache is, coalescing, the refinement of `HeapSpec`.
10. Theorems about requests and readers: nothing is lost between a stream, a
   buffer and the client, and requests use the cache as `ProxyCache` says.
11. A theorem about `parseline`: the loop as turns from one position to the
   next, the items of a command by induction.
12. Theorems about the explicit list: the same tiling up to the break, and the
    free list as a numbering of the free blocks that grows along the links.
13. The segregated lists: `Linked` for each class and its blocks, a `place` that
    moves a rest to another class, the `realloc` that shrinks a block in place.
