# TLA+ verification of the PXA server core

This directory holds TLA+ models of the concurrent core of the PXA inference
server, the TLC runs that check them on small instances, and TLAPS proofs of
their main results for every size. The code is C++ (`examples/server`, `src`,
`ggml`) and some Python and C in `tools`. Paths below are relative to the
repository root.

    tlc -workers 2 -config router_safety.cfg MCHotSwapRouter
    tlapm HotSwapRouterProofs.tla

## 1. The system

One server process answers HTTP requests for one model, or for several that
take turns on the cards ("hot swap"). Per model there is one *task loop*
thread, which alone touches the model's slots and contexts. HTTP threads talk
to it through a task queue and a result queue. The *router* decides which model
is on the cards; an HTTP thread that has to swap runs the swap itself, by
posting park and unpark functions to the loops of the two models.

| Component | State | Operations | Interacts with | What is hard |
|---|---|---|---|---|
| Hot-swap router, `pxa-hotswap.h` | active and slept model, lease count, swapping flag, deque of tickets | acquire, acquire_any, acquire_active, release, try_sleep, swap | HTTP threads (leases), task loops (park, unpark), idle watcher | the mutex is dropped during a swap; three calls of a swap can fail; clients leave while they wait; FIFO against batches |
| Task and result queues, `server-queue.{h,cpp}` | tasks, deferred tasks, control functions, paused/running/ended, waiting ids, results | post, defer, notify, pump, post_control, run_control, start_loop, terminate, send, recv | HTTP threads, loop thread, signal handler | lost wake-ups, lost or doubled tasks, shutdown with work left |
| Response reader and slots, `server.cpp`, `server-context.cpp` | received count, cancelled flag; state, command, task and id_task of each slot, process-wide stop flag | post_tasks, next, stop, cancel_active_decode; launch, release, update_slots | the queues | a client leaves while its task is queued, deferred, in the loop's hand, or decoding with others |
| Hot swap in the server, `server.cpp` (pick, swap_ops), `server-context.cpp` (park, unpark) | parked flag, residency group | pick, run, pxa_hs_park, pxa_hs_unpark | router, loops | a swap waits for a loop that may be ending |
| Residency groups, `ggml/src/pxa-residency.h` | chunks mapped or not, mirrors, pools, budgets per device | alloc, free, prime, park, park_for, unpark, reclaim | allocator of the model on the cards, task loops | roll-back after a failure on one device; reclaim across groups; mirrors of a chunk that is parked, freed and grown again |
| KV caches of a context, `src/llama.cpp`, and the sequence index, `src/llama-kv-index.h` | cells (position, sequences), head, used count, index and epoch, for a main and a sliding cache | clear, seq_rm, seq_cp, share_prefix, seq_keep, seq_add, seq_div, defrag, evict, place | slots | two caches placed one after the other; bookkeeping mirrored by hand at each site |
| Slots over the caches, `server-context.cpp` | cache_tokens and draft of each slot, the batch | admit, fork, shift, draft, verify, decode with retries | KV caches | forks share cells; a refused decode in the middle of a call |
| Checkpoints in host memory, `pxa-ckpt-evict.h` | a list under a budget | save, evict | slots | boundary cases of the choice |
| Decode watchdog, `pxa-wedge-policy.h`, `server.cpp` | strikes, recovery tried | one look every 5 s | decode time stamps, process exit | a decode that returns between two looks |
| Expert cache worker, `src/llama-pxa-xcache*` | request and done words per layer, layer count, stop flag | slot, serve, run, stop | the device, through host memory | publication order, adding a layer while serving, stop |
| Speculative decoding, `common/speculative.cpp` | drafts per sequence | draft, verify, accept | slots | mostly numerics |
| Updater, `tools/pxa-update.c` | version directories, links | install, switch, roll back | file system | a crash between renames |
| PXA Control and encoder, `tools/pxa_control`, `tools/pxa_encode.py` | child process, jobs | start, stop, pump | the server process | exit of the child against stop |

`PROJECT.json` lists these and the parts left aside (kernels, quantisers,
parsers, web UIs, vendored code), and under "hazards" the places in the code
where a test would hardly reach what can go wrong.

Correctness, component by component:

- *Router*: a request runs only on a model that is on the cards and that it
  asked for; nobody is overtaken; a burst costs one swap; whatever fails, the
  router knows what is on the cards; whoever waits is answered.
- *Queues, reader, slots*: a task is in one place until it is answered, and
  answered once; the loop does not sleep on work and does not end with work
  left; a dead client's tasks go away; a parked model is left alone; nobody
  waits for a control function that will not run.
- *Residency*: a model's weights and state are what it last wrote, however it
  was parked, reclaimed from or brought back; an unpark that fails leaves
  nothing behind, and fails only when the card is full of its own group.
- *KV caches*: the used count and the index say what the cells say.
- *Slots*: the book of a slot is what it holds; no slot's edit touches what
  another one holds; the two caches agree; a query finds its window.
- *Expert cache*: the device reads the answer to its own request, and gets one.
- *Watchdog*: exit only on a decode that hung; one recovery per hang.
- *Updater*: after a crash at any point an install starts.

## 2. Modules

| Module | Role |
|---|---|
| `CardLease` | what hot swap promises, without a router: at most one model loaded, users run on what they asked for, cards change hands only unused |
| `HotSwapRouter` | `pxa-hotswap.h` in full; properties; refinement of `CardLease`; the inductive invariant `IInv` |
| `MCHotSwapRouter` | instances for TLC, symmetry of the request threads |
| `HotSwapRouterProofs` | all safety properties of the router, and the refinement, for every constant |
| `RequestLife` | what the task queue promises a request: each task posted once, run at most once, never revived; each last result read once |
| `ServerQueue` | one model's loop, slots, queues and HTTP threads; refinement of `RequestLife` |
| `MCServerQueue` | instances: batch and single requests, pins to a slot |
| `ServerQueueProofs` | control functions, the parked model, delivery, shutdown, what a request leaves behind, and the refinement, for every constant |
| `SubSequence` | what an erase-remove leaves of a queue, by the rank of an index |
| `SequenceLemmas` | how often an element occurs in a sequence, and what extending, cutting and filtering do to that count |
| `ModelMemory` | what a residency group promises a model: contents that change only by its own writes, used only while it is on the cards |
| `Residency` | `pxa-residency.h` in full: groups, devices, chunks, mirrors, device threads; refinement of `ModelMemory` |
| `MCResidency` | two models on two devices that cannot hold both |
| `ResidencyProofs` | all safety properties of the groups, and the refinement, for every constant |
| `KvCells` | one KV cache as a value, and every edit of it, as operators |
| `KvContext` | the library's entry points on the pair (main, sliding) of a context |
| `KvCache`, `MCKvCache` | a context under any sequence of library calls |
| `KvLemmas` | what each edit of `KvCells` and `KvContext` keeps of a cache, and does to the positions a sequence holds |
| `KvCacheProofs` | the bookkeeping and the index of `KvCache` for every number of sequences, positions and cells |
| `PromptCache` | what the caches promise the slots: each slot has positions of its own |
| `SlotCache`, `MCSlotCache` | the server's slots over `KvContext`; refinement of `PromptCache` |
| `SlotCacheProofs` | its types, its invariants and the refinement, for every number of slots, positions and cells |
| `XCacheAsync`, `MCXCacheAsync` | rendezvous of a card and the expert-cache worker |
| `XCacheAsyncProofs` | its type and safety invariants for every constant |

`KvCells` and `KvContext` are used twice: `KvCache` asks whether the library's
bookkeeping survives any caller, `SlotCache` whether the server's calls give
each slot what it believes it has.

### HotSwapRouter and the code

An action is one critical section of `router::mu_`, or one park or unpark call
made while `swap_locked` or `try_sleep` has dropped it. So a swap is
`BeginSwap` (up to `lk.unlock()`), then `Park`, `Unpark` and, if the unpark
failed, `PutBack`, then `EndSwapIn` or `EndSwapFailed` (after `lk.lock()`);
`TrySleep`, `Park`, `EndSleep` is the same for the idle watcher. `swap.phase`
says which call is due or what the last one returned. `pc[c]` is where thread
`c` is in `acquire` or `acquire_any`; its wait loop is `Wait(c)`, one disjunct
per branch, in the order the code tests them. The deque is kept as `ahead[c]`,
the tickets before `c`'s own: appending, erasing from the middle and asking for
the front are all that the code does to it. `parked[m]` is the flag the server
context keeps; the router never reads it, which is what makes
`RouterKnowsTheCards` worth checking. `Flaky` models may fail any of the
three calls. `closed[c]` is `is_connection_closed` of the caller's request.
A thread that is done may come again with another request.

Left out: log lines and statistics, the parser of `--hot-model`, and
`timeout_ms`, which no caller passes (the leave through `cancelled` takes the
same branch).

### ServerQueue and the code

`loop` is where the loop thread is: "control" (`run_control`), "paused",
"drain" (taking tasks), "process" (`process_single_task` of `hand`),
"release", "update", "decode", "sample" and "fail" (`update_slots` and
`process_batch_tokens`), "wait", "asleep" (the untimed wait), "heartbeat" (the
500 ms wait with deferred tasks), "ended". A slot is "free" (`available()`),
"busy" (`is_processing()`) or "released" (command RELEASE, until
`release_slots`); its `id` is `id_task`, which outlives the task, because the
error after a failed batch goes to it. `reader[r]` is where an HTTP thread is in
`server_response_reader`: adding to the waiting ids and posting the tasks are
two critical sections, and so are the two halves of `stop()`;
"aborting" lies between the look at the slots and `llama_decode_stop()`.
`control` holds "park" or "unpark", and `swapper` what the router waits for in
`fut.get()`.

Data is abstracted to what the properties see. A task works for at most
`MaxSteps` decode steps and may finish earlier; a decode is done, aborted (if
the stop flag is set) or fails (`MayFail`); a batch may take several chunks. With a
shared KV ring (`KvUnified`) any task but an embedding (`Embeds`) may be put off
for want of room (`RingWaits`), even when every slot is idle: `kv_unified_admit`
counts the whole book of an idle slot as reclaimed, but cells shared with a fork
stay in use, and the cells of the system prompt cannot be reclaimed at all
(`server-context.cpp:5264-5268`, 5336-5348). What the ring holds is not
modelled, so the pump, too, may find it full. `Pin` is the request's `id_slot`,
also one that no slot has. With `HotSwap` the model may start parked, and requests start only
while it is on the cards and no swap runs, which is what a lease of the router
guarantees (`LeaseOnCards`, proved); `PostControl` comes only when no request is
under way, the router's `inflight_ == 0`.

`Stage` is what a reader could say of its task: "unposted", "queued" while it is
in a queue or the loop's hand, "working" on a slot, then "over". With it, the
last results read (`filled`) and the readers that are done, the model is shown to
implement `RequestLife`: deferring, pumping, popping and putting back, decoding
and swapping all stutter there.

Left out: the legacy result queue (metrics, slot save, restore, erase),
`recv_with_timeout`'s `running` flag (nothing clears it), and the multitask
functions, which no live caller reaches.

### Residency and the code

A chunk `<<r, i>>` is the `i`-th piece of record `r` in `recs_` and one unit of
device memory; `size`, `mapped`, `mirror`, `top` are `size`, `chunks`,
`mirror_cap` and `mirror_top` of a record. The registry lock and a group's
mutex make each operation one action, except an unpark and an allocation: they
hold only their own group's mutex while their device threads run, so their
steps (map a chunk, reclaim from the next group, retry, fill) interleave
across devices; `op` is that operation. `card` and `host` are the contents of the mapped
chunks and of the mirrors. `Faulty` lets any driver call fail. The budget
of pinned memory is `PinLimit`; the code checks and adds without a lock between
two groups, which here is one step.

`Write` stands for every write of a model to its memory, a copy from the host
and a kernel alike.

Left out: the bump pointer inside a chunk (a slab grows by one chunk),
`PXA_SWAP_VERIFY`, a pool in use (the task loop parks between graph
evaluations), the failure of a pool to grow, which stops the process, and a
budget of 0, which means no budget.

### KvCells, KvContext, SlotCache and the code

A cell has a position and a set of sequences. The index is the set of entries
`<<seq, pos, row>>`; the tag epoch is one counter for the process and only
"is this index current" is ever asked of it, so each cache has one bit
(`synced`) that an edit of the other one's tags clears. Where the search of a
refused placement leaves the head is left open in `KvCache`; a second search
after the guard band was given up starts from the same head as the first.
Recurrent state, the K shift of the data and files are left out, and so are
the removal from every sequence at once (a negative `seq_id`, which the server
never passes) and `PXA_KV_ALIGN_BAND`, off by default, which starts a new
sequence's placement on a multiple of a band.

`SlotCache` is `update_slots`: building the batch, then `process_batch_tokens`
call by call, `llama_decode_internal` ubatch by ubatch, then the verification
of drafts. `book` is the length of `cache_tokens`; tokens have no identity, so
any prefix may match. `torn` collects the slots for which the server leaves the
book wrong, by an error path or by a shift without `cache_prompt` (see below):
the properties except them until their cache is reset.

`discard_n_kv_and_cache_tokens` has two callers. `Shift` is `context_shift`, for
a slot that generates; `Openings` is `context_shift_prompt`, for a prompt that is
longer than the context and before it is compared with what the slot has cached,
so it is part of `Admit` and of `Fork`. Both erase and move the cells (`Slid`) of
every request, but edit the book only of one with `cache_prompt`. `nocache` holds
the slots whose request has none; after such a shift `n_past` is behind the book
(`lag`) until `add_sampled_tokens` reads it back from the book. The numbers of
tokens a shift keeps and drops are any, up to `MaxKeep` and `MaxDrop`; one that
reaches beyond the book is one that reaches its end, and a negative `n_discard`,
which turns the shift off, does not occur. A generating slot keeps at least one
token, as the code sees to. The book of a request without `cache_prompt` is no
longer bounded by the slot, in the model only by the bound on positions.

### XCacheAsync and the code

Each action is one write, or one read on which something depends, of the submit
kernel, the wait kernel, the worker or the thread that builds graphs. Inputs
and rows are represented by the number of the request they belong to. The
fences and the release stores put the steps in this order, which the model
takes as given; it checks that the order suffices. The 32-bit request number is
bounded (`MaxReq`), not wrapped. A wrap alone does no harm, for a layer has a
single cold request outstanding (`OneOutstanding`, proved); but the worker
compares with the last cold number it saw, so a cold request exactly 2^32
requests after that one, with no cold one between, would go unnoticed. `Stop`
comes only when no card is in a launch: the model takes it that contexts are
freed first, and that freeing them waits for their streams, which `stop()` does
not check.

## 3. Runs

| Run | Instance | States | Checks |
|---|---|---|---|
| `router_safety` | 3 models, 3 clients, 1 monitor, all flaky, sleep | 59 480 | type, lease count, leases on cards, router knows the cards, one swapper; head first, burst takes one swap, refinement of CardLease |
| `router_answers` | 2 models, 3 clients, all flaky, sleep, fairness | 78 961 | every waiter is answered, unless a wake-up keeps failing; a named swap that fails is answered |
| `router_sleep_retry` | 2 models, 2 clients, flaky, sleep | *violated* | a failed swap is answered |
| `queue_safety` | an embedding batch of 2 tasks pinned to one slot and a gated request of 1, 2 slots, shared ring, all failures, stop | 1 264 534 | type, nothing lost, one final, no sleep on work, ends drained, refinement of RequestLife |
| `queue_swap` | 2 requests, 2 slots, both clients may leave, launch failures, park/unpark, stop | 1 576 578 | control not forgotten, a dead client's task leaves, parked is left alone |
| `queue_answers` | 3 requests (one the ring gates, one an embedding, one with a wrong id_slot), 1 slot, shared ring, failures, stop, fairness | 67 852 | a reader is answered; a running loop ends |
| `queue_ghost` | 2 requests, 1 slot | *violated* | no ghost on a slot |
| `residency` | 2 groups, 2 devices, 5 records (growing weights slab, 2 states, pool, scratch), budget, driver failures, fairness | 188 554 | type, on cards is whole, scratch is clean, fails only when full, room is returned, refinement of ModelMemory, an operation ends |
| `kv_cache` | 2 sequences, 3 positions, 2 main cells, 0 or 2 sliding, ubatches of 1 or 2 | 9 424 | used is the count, index is exact, removals agree |
| `kv_slots` | 2 slots, 4 positions; forks, or a sliding cache and shifts, or shifts with and without `cache_prompt`; drafts of 1, halved batches | KVSTATES | book is held, caches agree, window is held, refinement of PromptCache |
| `kv_fork_shift` | 2 slots, forks and shift | *violated* | book is held |
| `xcache` | 2 layers on 2 devices, 2 widths, 3 requests each, aborts, stop, fairness | 704 393 | type, rows are own, card is answered |

**Bounds.** Three clients are the fewest that show a batch (two tickets for one
model) with another ticket between them; three models the fewest in which a
third one must not be touched by a swap of two. Two readers and one slot make a
task wait; a request of two tasks makes an error or a leave of one task meet the
other; two slots make one slot's failure meet another's work. `MaxSteps = 1` gives each task a decode that does not
finish it, so that a cancel or an abort can come in the middle. The router's
clients come back, so its state space is closed; a request of `ServerQueue` runs
once, so its runs say `CHECK_DEADLOCK FALSE`: when all is answered the loop
rests or has ended. `queue_swap` has a slot for every task and no failing
decodes: both would defer a task, and the finding below is kept out of the way
of the rest of the cancellation protocol. `queue_safety` does the opposite: a
pin to one of two slots, a shared ring that may refuse a task with both slots
idle, and failing decodes defer, pump, fail and cancel
tasks at every stage, ghosts included; the refinement of `RequestLife` holds
with them, because a ghost is a task that is run for nobody, not one that is
run twice. `queue_answers` has one reader the ring holds back, one it does not, and
one nothing can help, so that the second is seen not to wait for the others.
The router's answers runs have no monitors: their pins take no ticket, and a
steady stream of overlapping ones may hold up a swap for ever.

In `residency` neither device has memory for both models, one device's copy can
fail while the other's succeeds, and the slab grows after its first chunk was
mirrored, so that a top of mirrors lies inside a record. `kv_cache` calls with
every range and every shift; two rows are enough to have one that is shared,
one that is freed below the head and one mirrored edit after a bulk edit, and
the other cache's edits make an index stale. `kv_slots` has a window of two and
a guard of one over four positions, so evictions with and without the guard
band, refused removals and coverage failures all occur; a batch of three over
ubatches of two lets a call fail in its middle. Its boots keep apart what would
multiply: a sliding cache without requests that lack `cache_prompt`, which the
proofs cover together, and forks without shifts, which is the violation below. `xcache` gives each layer three
requests: one cold, one the card answers itself and one more is the shortest
history in which a worker that reads the request flag too late would be seen.
Its runs stop when the requests are used up.

**Fairness.** Weakly fair are: each waiting request (its loop polls every
50 ms), the calls of a swap, the release of a lease (a response ends), the loop
thread as a whole, each reader's next step, the device threads of an unpark
(they are joined, and driver calls return), the worker thread and each device's
stream. Nobody has to arrive, to leave, to pin, to sleep, to terminate, to launch
a graph or to free a model. No strong fairness is used: FIFO order alone gets
every waiter to the front.

## 4. What the violations show

- *A failed wake-up is retried for ever* (`router_sleep_retry`).
  `pxa-hotswap.h:19`: "A failed swap fails the requests that wanted the target".
  A request that names no model wakes the slept one; its ticket's index is -1,
  so `fail_all_locked` (394-405) does not find it. It stays at the head and
  swaps again at once.
- *A ghost task* (`queue_ghost`). `server-queue.cpp:26-31` says the cleanup in
  `post` prevents a ghost task. A cancel posted between `pop_front` (156) and
  the `defer` that follows finds the task nowhere. `OnlyDeferralMakesGhosts`
  (section 5) proves that there is no other way to one: if the loop never
  defers a task whose reader is gone, ghosts cannot occur.
- *A shift moves what a fork shares* (`kv_fork_shift`).
  `server-context.cpp:5368-5370`: the donor can be "context-shifted ... and the
  fork still holds what it took". A shift of the donor, while it generates or
  for its next prompt, calls `llama_kv_cache_seq_add`, which moves the position of every cell tagged with the donor, shared or not:
  the fork loses a position or gains one twice. With either lever alone the
  property holds (`kv_slots`).

Met while modelling, and not among the runs:

- `server-queue.h:89` says `terminate()` ends the loop; a signal before
  `start_loop` is overwritten by `running = true` (`server-queue.cpp:129`).
  `RunningLoopEnds` is the part that holds.
- A request whose `id_slot` no slot has is deferred and pumped for ever
  (`server-context.cpp:4241-4251`). `SleepsOnlyWhenIdle` and `EndsDrained`
  except exactly these tasks, and those the ring has no room for.
- A task can be deferred for the ring with every slot idle, and stay so for as
  long as idle slots hold cells in common: no release is to come, and what the
  500 ms pump re-dispatches is deferred again. `server-queue.h:45-51` calls
  starvation "structurally impossible"; that needs the ring not to stall for
  ever, the condition of `ReaderAnswered`. A loop told to terminate then ends
  with such a task unanswered, which is why `EndsDrained` names it.
- A request without `cache_prompt` that is shifted leaves the book as it was
  (`server-context.cpp:4984`), though "the token book has to say the same thing"
  (4985-4987). `n_past` is read back from the book (6209), so the slot is as
  full as before and shifts again at each tick; and a later request with
  `cache_prompt` may match a prefix of that book which the cells do not hold.
  Such a slot is `torn` until its cache is reset.
- A removal that the sliding cache refuses wipes the sequence, and the context
  shift (`server-context.cpp:4979`) and the roll-back of drafts (7525) do not
  look at the answer: the book goes on listing tokens that are gone.
- After a decode that failed for good (8060-8083) `cache_tokens` still lists the
  tokens that were never placed, while the cancelled branch (8052-8054) trims
  it. These two, too, make a slot `torn`.
- The reclaim of idle slots for a crowded ring counts the tokens of a book;
  cells shared with a fork free nothing.
- Claim 7 of `test-pxa-residency.cpp`, a park that fails "changes nothing", is
  true of what is mapped; the mirrors of records handled before the failure
  stay allocated, and count against the budget.

## 5. Proofs

For every set of models, clients, monitors and flaky models (`RouterConstants`:
the sets of threads are finite and disjoint, the sentinels are not models), the
router's safety properties hold and it implements `CardLease`.

The properties are not inductive by themselves. `IInv` adds: a client has a
lease exactly while its ticket is granted, all leases are on `active`, and
there is none during a swap (`LeaseState`); what is on the cards in each phase
of a swap (`SwapState`), without which nothing says that an unpark finds the
cards empty; that a thread's request is on record while it lasts (`WantState`);
and that `ahead` is made of queued tickets (`QueueState`), with which the head
of the queue is unique. `Invariance` proves `IInv` action by action; the
invariants follow from it, and the action properties (`HeadFirst`,
`BurstTakesOneSwap`) and the refinement from it and one step. Counting leases
rests on lemmas on the cardinality of `Holders` after a grant and a release.
That a request is served by the model it named (claim 9, `ServedAsAsked`) is no
property of a run: `CardLeaseServesAsAsked` proves that every system that
implements `CardLease` does so, and the run checks that the router implements it.

For `ServerQueue`, `ControlInv` says that the function the router waits for is
the only one, in the queue or running; that a loop stops only after
`terminate`; that a parked model's loop stays in the part of `start_loop` that
runs control functions; and that no request is under way from the moment a
swap is asked for until the model is back. From it follow `NoWaiterIsForgotten`
and `ParkedModelStandsStill`, for any requests, slots and options.

The rest of `ServerQueueProofs` is about delivery, for any readers and tasks, any
number of slots, and every combination of pins, shared ring, failures,
leaving clients, swaps and shutdown. `QueueConstants` asks only that a request
is a non-empty sequence of tasks of its own, that the tasks of one request have
one pin, and that the slots are finitely many. The inductive invariant has
three parts:

- `TypeInv`: `TypeOK`, and `WorkShape`: the loop holds a message exactly while it
  processes one, samples only slots at work, and a reader that waits has not
  received everything.
- `TurnInv`: while the loop decodes there is a NEXT_RESPONSE in the queue; when
  it turns to wait, there is one or all slots are free; and when all slots are
  free no deferred task could be launched but those the ring gates. The last is the point of
  `release_slots`: it notifies once per slot it frees, so a task that waits only
  for a slot never stays deferred beside an idle machine. For one that waits for
  the ring no notify may come: `LoopSleepsIdle` says that the loop then sleeps
  with the timeout of the pump. It gives `LoopSleepsIdle` and,
  with a case on the loop's last step, `EndLeavesNothing`.
- `DeliveryInv`: for every task, one formula (`Delivery`) that ties together in
  how many places the task is, whether a slot still bears its id after it, how
  many last results and errors of it are queued, whether it is in the waiting
  ids, and where its reader is. `NothingLost` alone is not inductive: that a
  task is never in two places needs that it is nowhere before it is posted,
  that a cancel is queued only for a reader that has finished, and that an
  answer is kept needs that the task is still in the waiting ids.
  It gives `NoTaskIsLost` and `OneLastResult`.

`CountInv` adds that `received` counts the last results a reader holds, and gives
`ServedLeavesNothing`. For readers that leave early, `GoneInv` says that none of
their tasks is in a queue, and that one that is anywhere else has its CANCEL in the
queue or the hand. It is kept by every step except one: `Defer` of a task whose reader is
gone. So `DeadTaskLeaves` and `NoGhostOnSlot`, which are false in general
(`queue_ghost`), are proved under the condition `DefersTheLiving` that this step
is not taken (`OnlyDeferralMakesGhosts`); and where nothing is ever deferred,
without a condition on the run (`EnoughSlotsNoGhosts`). `EnoughSlots` asks for a
slot for each task, no pins, no task the ring gates and no failing decodes, as `queue_swap`
has it. The argument is that two slots never bear the same task (`OwnSlots`), so a
task in the hand leaves fewer tasks than slots, and one slot is free
(`NothingToDefer`).

`QueueKeepsRequestLife` needs `TypeInv`, `DeliveryInv` and `CountInv`. The stage
of a task is read off the places it is in: launching it is `Begin`; a last result,
a failure, a refused launch or a processed CANCEL is `End`; posting is `Post`,
receiving a last result `Get`, leaving with all of them `Serve`, and stopping
early `Abandon` of what the cleanup takes out of the queues. That `End` is final
comes from `Delivery`: a task that is nowhere after it was posted stays nowhere.
Each action has a lemma that says which tasks it moves to which stage (`StageMoves`).

A place is counted: `Places` is a sum of occurrences in the two queues, the hand
and the slots, so the proofs rest on the lemmas of `SequenceLemmas` about
`Count` under append, concatenation, tail, removal at an index and filtering.
The erase-remove of `cleanup_pending_task` is stated in the model by the rank of
the indices that stay (`SubSequence`), and not by `SelectSeq`, which is recursive
and which the provers cannot unfold. Each action has a lemma with its effect on
the fields, and each invariant one lemma per group of actions that touch it;
`DeliveryFrame` says what a step may change about other tasks without
disturbing one.

For `Residency`, for any groups, devices, records, room, budget and set of
driver calls that fail, all its safety properties hold and it implements
`ModelMemory`. The inductive invariant has three layers, each proved with the
ones below it:

- `ShapeInv`: types, what the running operation has planned and done
  (`OpShape`), at most one group on the cards (`Residents`), and
  `OnCardsIsWhole`. From it follow `StoreIsWellFormed`, `CardsGroupIsMapped`
  and the action property `FailureGivesBack`.
- `RoomInv`: what a device thread knows at each stage of reclaim and retry:
  every group it has asked has nothing left on its device. That set of groups
  (`seen`) is why giving up proves the device full of the operation's own
  group: `GivesUpOnlyWhenFull`. It rests on the cardinality of what is mapped
  on a device.
- `ContentInv`: a compute buffer is fresh only until its thread has cleared it
  (`Clean`); a weights chunk is on the card beyond `mirror_top` or equal to its
  mirror below it, whatever is on no card is in a mirror, and what an unpark
  has filled equals its mirror (`Mirrors`). It gives `ComputeBuffersAreCleared`
  and the step correspondence of `KeepsModelMemory`: the end of
  an unpark is `Enter`, of a park `Leave`, of an allocation `Grow`, a free is `Drop`
  and a write `Write`; copies, reclaims and roll-backs stutter.

For `XCacheAsync`, for any layers, devices and widths, the invariant
`Rendezvous` is inductive. Its parts: a card is only in a layer of its own device and of a
registered width (`CardHome`); the inputs in a layer's slot are those of its
last request, or of the one about to be raised (`InputCurrent`); request and
done flags never run ahead of the number drawn (`FlagsBehind`); a layer has at
most one unanswered cold request, namely the one its card waits for
(`OneOutstanding`); what the worker has in hand is that request or one that is
answered (`ServesCurrent`); and a card at the merge of a cold request has the
rows of it (`MergesOwn`). The third and fourth are why reading the done flag is enough: a
flag that shows the number was written for this request. From it follow
`TypeCorrect` and `RowsOwned`.

For `KvCache`, for any sequences, positions, cache sizes, window and divisors,
`IInv` says that each of the two caches is `Good`: of its type, `Counted` (the
used count is the number of cells in use, and a cell is in use exactly while it
is tagged) and `Indexed` (a valid index is the exact list of the cells). The
three parts are inductive only together: an edit keeps the count because an
untagged cell is unused, a placement keeps the index because the rows it takes
had no tags, and the indexed removal finds the rows the scan finds because the
index is exact. The proof goes by layers. There is a lemma per edit of
`KvCells` that it leaves a good cache good (the cardinality arguments are in
`EmptiedSound`, `UntaggedSound`, `PlacedGood` and, for the rows that a
defragmentation exchanges, `DefragGood`); then one per entry point of
`KvContext`; then one per action. `MinIn` gives the search of a free run and the
head hint their range. From `IInv` follow `TypeCorrect`, `UsedStaysTheCount`,
`IndexStaysExact` and `IndexedRemovalIsTheScan`. The bound on positions is the
only assumption that the code does not share: a shift that would lift a cell
above `MaxPos` is not taken.

For `SlotCache`, for any slots, positions, window, guard and sizes of caches,
batches and drafts, with and without `cache_prompt`, `SlotCacheTypes` says that
every book, draft, count and cell stays in its range, and a book that is not
`torn` below the slot's context, and the other theorems hold of every run that starts
with `Apart`: a context shift is not combined with forks on a model without a
sliding cache. The hypothesis is about the levers a run starts with, is kept by
every step, and cannot be dropped: `kv_fork_shift` is the counterexample. The
boots of `kv_slots` satisfy it. The invariant `IInv` has, beside it, three
parts:

- `Work`: books, drafts, phases, the batch and the call under way. What matters
  to the rest is that the tokens of the next ubatch continue, slot by slot, what
  the slot has decoded (`BatchFacts`); it rests on counting how often a slot
  occurs in the batch (`SequenceLemmas`).
- `Kept`: both caches are `Good`, as in `KvCache`; with it `InCtx`: `n_past` is
  behind the book only of a torn slot, and only a torn book may be as long as
  the slot's context.
- `Hold`: for each slot (`SlotOk`), nothing is held beyond the book, the sliding
  cache holds nothing the main one does not, and unless the book is `torn`, all
  of it is held and the sliding cache holds an unbroken end of it that reaches
  down to the window of the next query (`Windowed`). No slot has two cells for a
  position (`Tidy`). And where nothing forks, or a window slides, no cell has two
  tags (`Lone`): eviction and shifting read or move a cell for all its tags, and
  without this they would reach another slot's positions.

`BookIsHeld`, `CachesAgree` and `WindowIsHeld` are not inductive one by one: that
a slot keeps its window through an eviction needs its tokens in the batch to
follow its book; that the book is exact after a placement needs the positions
to be new; and that a refused ubatch leaves both caches alike needs the sliding
cache's rows of that ubatch to be found at its head when they are given back.

The proof treats a cache as the positions each sequence holds. `KvLemmas` says,
for each edit of `KvCells`, what it does to them: a removal takes a range from
one sequence (`Removes`), an eviction takes what neither window nor guard
reaches (`EvictedHolds`), a placement adds the batch (`PlacedHolds`), giving back
undoes the placement (`ReleasedHolds`), a defragmentation changes nothing
(`DefragHolds`), a shift closes a gap (`AddSlides`), a shared prefix gives one
slot another's positions (`ShareHolds`). Then for the entry points on the pair:
a removal is granted and the window covered, or refused and everything gone
(`CtxRmIs`); a ubatch that is refused only retires what no next query reads
(`Retires`), one that is placed adds the batch to both caches (`Grows`). Lemmas
on sets of integers (`CutOk`, `CloseOk`, `ExtendOk`) say that `SlotOk` survives
each of these. Each action then has one lemma, which also says what it did to the
positions of the main cache (`HeldStep`): that is the step correspondence of
`KeepsPromptCache`. A commit is `Extend`, a fork `Take`, and the rest one `Slide`:
a shift, a removal, an erase, and an admission that shifts and then trims. Refused
calls, compactions and additions to the batch stutter. The lemmas about an
admission compose a shift and a trim (`ShiftEdited` and
`TrimEdited`): what the slot has in between, `Edited`, satisfies `SlotOk` for a
book of its own. A shift without `cache_prompt` moves the cells and not the
book, so what is held still lies below the book and the slot becomes torn, which
is all that `SlotOk` asks of it.

Only model-checked:

- all liveness (`WaiterAnswered`, `ReaderAnswered`, `RunningLoopEnds`, `OpEnds`,
  `CardAnswered` and their kin), which is out of TLAPS's reach.

Every invariant and every action property of a passing run is stated by a theorem
above, `DeadTaskLeaves` under the two hypotheses said there, and those of
`SlotCache` under `Apart`.

## 6. Not modelled, and what could come next

- The composition of the router with several loops (`HotSwapServer`): the two
  are checked against each other's assumptions instead. The router assumes that
  park and unpark return (`ControlNotForgotten`, `OpEnds`); the loop assumes
  that no request is under way when a swap is asked for (`LeaseOnCards`); a
  residency group that one model at a time is on the cards (`RouterKnowsTheCards`).
- `Watchdog` (`pxa-wedge-policy.h`) and the choice of a checkpoint to evict
  (`pxa-ckpt-evict.h`): small sequential policies with unit tests.
- The updater (`tools/pxa-update.c`) with a crash between its renames.
- The legacy result queue.
- Of the slots: checkpoints, the companion context of a draft model, media
  chunks, the system prompt, self-extend.
- Kernels, quantisers, graph building, parsers, converters and user
  interfaces: numerics and data transformation, without steps to interleave.
