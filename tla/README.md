# Formal models of the qdma driver

This directory holds TLA+ models of the Xilinx QDMA Linux driver and its command-line client, under `src/`. Each model is checked with TLC on small instances. The main invariants of the queue registry, the device list and the buffer mapper, and the refinements of their abstract specifications, are also proved with TLAPS for every value of the constants.

## The system

| Part | Code | What it does |
|---|---|---|
| Queue Registry | `src/drv/qdma_mod.c` `xpdev_queue_get/add/delete` | Per device, a table of `2 * qmax` slots (H2C block, then C2H block). Each slot holds an engine queue handle and a pointer to a character-device endpoint. |
| Device Endpoint | `src/drv/cdev.c` `qdma_cdev_create/destroy`, file ops | One `/dev` node per queue. Its minor number is the queue handle, and `priv_data` is the handle its I/O goes to. |
| Buffer Mapper | `src/drv/cdev.c` `cdev_gen_read_write`, `map_user_buf_to_sgl`, `unmap_user_buf`, `iocb_release` | Pins a user buffer, checks adjacent pages for duplicates, builds the scatter-gather list, blocks in the engine submit (`fp_rw`), then unpins (dirtying pages on reads) and frees. |
| Device list / lifecycle | `src/drv/qdma_mod.c` `probe_one`, `remove_one`, `xpdev_alloc/free`, `xpdev_find_by_idx` | A global list of per-device objects guarded by `xpdev_mutex`. Probe opens the engine device, allocates and lists the object, and initialises it. Remove tears down the slots, closes the engine device, and unlists and frees the object. |
| Module init/exit | `qdma_mod_init/exit`, `qdma_cdev_init/cleanup` | Orders libqdma, netlink, the device class and the PCI driver. |
| Command dispatcher | kernel `nl.c` (not in this repository) | Looks the device up by index and calls the registry. Modelled from the spec. |
| Control codec / client | `src/user/cli/nl_user.c`, `src/include/nl.h` | Encodes attributes into a generic-netlink message and decodes the reply attributes. |
| CLI parser | `src/user/cli/cmd_parse.c` | Turns argv into an `xcmd_info` (`parse_cmd`), or ends the program: usage, EINVAL, or a crash. |
| Register tool | `src/user/cli/regs.c` | mmap of a BAR, then 32-bit reads and writes. |
| Engine (libqdma) | not in this repository | The environment: queue add/remove, submit, device open/close. |

How the parts interact:
- An administrative command travels client → codec → dispatcher → `xpdev_find_by_idx` → registry → engine plus endpoint.
- I/O travels endpoint `read`/`write` → buffer mapper → engine submit → unpin.
- The PCI core calls probe and remove on its own threads, concurrently with commands and with I/O.

## Modules

### `QueueRegistry` (with `MCQueueRegistry`, proofs in `QueueRegistryProofs`)

The state is the slot table of one device:
- `qhndl` and `xcdev` per slot;
- the engine's allocated queues, `engineQ`;
- the live endpoints, `live`, with their `priv` handle;
- whether the device is `attached`;
- the last return code;
- a ghost `fault`, set when `qdma_cdev_destroy` is given a pointer that is not a live endpoint, or the same endpoint twice.

Each netlink command is one atomic step. The spec (section 5) serialises registry mutations per device.

The actions follow the code paths:
- `QueueAddEngineFails`: the engine's `qdma_queue_add` fails.
- `QueueAddCdevOk`: the queue and its endpoint are both created.
- `QueueAddCdevFails`: the queue is allocated, but `qdma_cdev_create` fails with ENOMEM, with ENOSPC for a handle at or above the minor count, or in cdev_add / device_create. The slot then gets the uninitialized local `xcdev`. This undefined behaviour is modelled as a choice over any pointer: NULL, an arbitrary live endpoint, or a wild value.
- `QueueDeleteNotFound` and `QueueDelete`: the engine remove may succeed or fail. `QueueDelete` keeps the code's test against `QDMA_QUEUE_IDX_INVALID`, but no slot ever holds INVALID (a configured slot holds a handle the engine gave, and `HandlesAssumption` keeps INVALID out of them), so that branch is never taken.
- `DeviceRemove`: `remove_one`.

Two bounds keep the state space small:
- Endpoint addresses come from a pool, and a freed one can be handed out again.
- `EngineAccepts` states the assumption that the engine rejects a queue index at or above `qmax`. This is the engine's contract and is not in this repository.

### `QueueSlots`: the abstract slot table

`QueueSlots` states what the registry promises, without endpoints or return codes. Each slot is `Empty` or holds a queue from `held`, the engine's queues, while the device is `up`. It has three actions:
- `Add(i, h)` takes a queue the engine did not hold. It then leaves slot `i` bound to it or empty, and forgets (does not release) what the slot held before. The double add is therefore allowed at this level: it leaks a queue but never releases the wrong one.
- `Delete(i)` empties a bound slot, and releases that slot's queue or nothing.
- `Remove` empties every slot and releases every queue.

`QueueRegistry` maps onto it through `AbsSlot`. A slot that `xpdev_queue_get` counts as configured maps to its `qhndl`, and any other slot maps to `Empty`. `engineQ` maps to `held` and `attached` to `up`. The failed commands (`QueueAddEngineFails`, `QueueDeleteNotFound`) are stutters. A failed `qdma_cdev_create` is an `Add` whose slot is bound or empty, depending on the garbage pointer.

### `BufferMapper` (with `MCBufferMapper`, proofs in `BufferMapperProofs` and `BufferMapperSgProofs`)

The state covers:
- the caller's address space (`vmap` and `writable`, chosen arbitrarily in Init);
- per thread, a `pc` (idle, blocked in `fp_rw`, or in the `unmap_user_buf` loop at its dirty test or at its `put_page`), the loop index `ui`, its iocb and its return code;
- page reference counts `pinned` and the `dirty` set;
- the number of page arrays and sg tables allocated;
- a ghost `devWritten`: pages holding data the device wrote through a read that writeback has not saved yet.

A call is one step up to the engine submit, then the engine's return, then two steps per iteration of the release loop. The first step splits on the code's outcome:
- `RwZeroPages`: `pages_nr == 0`.
- `RwAllocFails`: allocation fails.
- `RwPinError`: get_user_pages_fast fails, stops short, or the adjacent-duplicate scan fires. `unmap_user_buf` releases up to the first NULL entry (`Unpin`, one step: the device never saw these pages).
- `RwSubmit`: the sg list is built and the request submitted.

After a submit:
- `RwComplete`: `fp_rw` returns success or an engine error (a timeout included, in the same step), and `unmap_user_buf` frees the sg table and enters its loop at the first entry.
- `UnmapDirty`: `if (!write) set_page_dirty_lock(pages[i])`.
- `UnmapPut`: `put_page(pages[i])`, then `i++`.
- `UnmapDone`: past the last entry, `iocb_release` frees the pages array and the call returns.

Other threads' steps and two environment actions interleave with these:
- `DeviceWrite(p, j)`: while a read is blocked in `fp_rw`, the device writes page j of its buffer (modelled from the spec: the engine is not in this repository);
- `Writeback(g)`: the kernel saves a dirty page and cleans it, pinned or not.

Some of the code is modelled as operators:
- The page count `PagesNr` is the code's formula, checked against the spec's `RefPagesNr`.
- The sg list `SgList` is written in closed form: entry j starts at `off` for j = 1 and at 0 otherwise, and is `PAGE_SIZE - offset` long or the bytes left (`SgLeft`), whichever is less. `SgCoversBuffer` checks it against the spec's description of the buffer's pages, and the proofs use it.
- get_user_pages_fast is called with `write = 1` whatever the direction, so a page is `Pinnable` only if it is mapped and writable.

### `DeviceLifecycle` (with `MCDeviceLifecycle`, proofs in `DeviceLifecycleProofs`)

`probe_one` and `remove_one` of several PCI functions are cut at the points where another thread can see them:
- `ProbeOpen`: `qdma_device_open`.
- `ProbeAlloc`: `xpdev_alloc`, which lists the object with idx 0xFF.
- `ProbeInit`: sets dev_hndl and idx, then `qdma_cdev_device_init` and drvdata. Its failure path closes and frees.
- `RemoveCleanup`, `RemoveClose`, `RemoveFree`.

The PCI core runs probe and remove of one device one at a time, so each device has a single program counter.

Netlink handlers run concurrently in two steps:
- `NlLookup`: `xpdev_find_by_idx`, the first match in list order under the mutex. It returns the pointer after unlocking.
- `NlQueueOp`: `xpdev_queue_add` or `xpdev_queue_delete` on that pointer. The slot table is abstracted to an endpoint count (QueueRegistry models it in full).

Object addresses are never reused here, so that the ghost `freed` identifies a use after free exactly. `xpdev_list_remove` (`ListRemove`) is `list_del` of the object's own node, `RemoveFirst` of the list sequence. The ghost `nidx` records the index each handler asked for, which the refinement below needs.

### `XpdevSet`: the abstract device list

`XpdevSet` states what `xpdev_list` and `xpdev_find_by_idx` promise:
- `listed` is a set of objects, each with a `key` (its index).
- `Add` puts in an object not in the set.
- `Del` takes out one object; the others keep their keys.
- `Name` gives a listed object its index.
- `Find(n, k)` hands handler `n` an object of the set whose key is `k`.
- `Drop` ends the handler's hold.

The object may leave the set while a handler holds it. That is the use after free `lifecycle_use_after_free` shows, and it is not part of this promise.

`DeviceLifecycle` maps onto it through `Abs`:
- `listed` is `ToSet(xlist)`;
- `key` is `idx` on the listed objects;
- `found[n]` is `{<<nref[n], nidx[n]>>}` while handler `n` holds a pointer, and `{}` otherwise.

Each concrete step maps as follows:
- `ProbeAlloc` is an `Add`.
- A successful `ProbeInit` is a `Name`.
- A failed `ProbeInit` and `RemoveFree` are a `Del`.
- `NlLookup` is a `Find`.
- `NlQueueOp` is a `Drop`.
- The remaining steps are stutters.

### `CmdParse`

`parse_cmd` and its helpers as pure operators, with no variables. `ClientSession` uses them to start `main`.
- An argv word is a record of its letters and its digits: `qdma256` is `[s |-> "qdma", d |-> <<2,5,6>>]`. `IsKw` is `strcmp` against a keyword.
- `ArgReadInt` is `arg_read_int`: `strtoul(s, &p, 0)` followed by the `*p` test. A leading 0 selects octal, so `010` is 8 and `08` is refused.
- `ParseIfname` is `parse_ifname`. The value is stored in the `unsigned char` `if_idx`, hence `% 256`.
- `read_qparm` is split into three operators:
  - `QparmStep`: one iteration of its loop, a `CASE` over the keywords.
  - `QparmLoop`: the loop, as a recursive function over the words left.
  - `ReadQparm`: the required-parameter check and the mode/dir checks and defaults.
- `ReadRange` is `read_range`. Its `v2 < v1` compares pointers, so no range is refused.
- `ParseRegCmd`, `ParseQCmd` and `ParseCmd` (which contains `parse_dev_cmd`) return a set of results `[end, i, x]`. `end` is one of:
  - `ok`, `einval`, `usage_err`, `usage_out`, `version`;
  - `segv`: `strcmp` on the NULL `argv[argc]`, reached by `dma-ctl dev` and `dma-ctl qdma0 q`;
  - `garbage`: the uninitialized `rv` of an unknown `q` verb.

  That unknown verb gives three results, one for each way the undefined value can steer the code. `ParseQCmd` also keeps the precedence slip of line 431: every `st` queue, h2c included, gets `entry_size` 3.
- Integers in the instance stay far below 2^31, so the `uint32_t` reduction of `strtoul` is not written out. TLC's integers are 32-bit.
- The text that `usage()` and `warnx` print is left out.

### `ClientSession` (with `MCClientSession`)

The module models one `dma-ctl` invocation. `Init` picks a command line from `Argvs` and one result of `ParseCmd` for it:
- If the result is not `ok`, the process is already at `exit`. Its status is given by `ParseExit`:
  - 234 for `-EINVAL`;
  - 1 and 0 for `usage`;
  - 0 for the version banner;
  - 139 for the crash;
  - any status for a garbage `rv`.
- Otherwise `xcmd` is the parsed command, and `main` of `nl_user.c` follows, label by label:
- `MainStart`: `xnl_connect` to the PF server for `dev list`, or to the server that `xcmd.vf` names.
- `PfSend`, `PfClose` (with the `memset` of `cb`), `VfConnect`, `VfSend`, `VfClose`: the two halves of `dev list`.
- `Info`, `AfterInfo`, `OpSend`: the DEV_INFO query, then `reg_proc_cmd` (reg dump, read and write) or the command itself. `reg_proc_cmd` is abstracted to success or failure.
- `MainClose`: `xnl_close` and the return, reduced mod 256 by the C runtime.

`XnlConnect` and `XnlSendCmd` are single steps with a disjunct per outcome of `xnl_msg_alloc`, `socket`, `bind`, `xnl_send` and `xnl_recv`.
- Requests are their length and attribute list: `XnlMsgSetHdr`, `XnlMsgAddIntAttr`, and `EncodeCmd` for the switch of `xnl_send_cmd`. They also carry the `xcmd` whose fields are the attribute values (`if_idx`, `qparm.idx`, `flags`, `range_start`...). The ghost `sent` collects each request the kernel received.
- Replies are attribute streams with byte lengths. `HeadersAt` gives what the client reads at an offset: the attribute that starts there, the zeroes `xnl_recv`'s `memset` left, or arbitrary bytes in the middle of a payload.
- `RecvAttrsStep` is one iteration of the `recv_attrs` loop, with its `NLA_ALIGN` arithmetic. `RecvAttrsUnknown` is its `-EINVAL` exit. `RecvNlMsg` is the switch that follows.

The kernel is the environment, modelled from the spec, since `nl.c` is not in this repository:
- a family may be registered or not;
- any exchange may end in NLMSG_ERROR;
- a request missing a `Mandatory` attribute is refused;
- replies are the DEV_INFO integers or a GENMSG string;
- when `NewerAttrs` is TRUE, a reply may end with an attribute type at or above `XNL_ATTR_MAX`.

Replies longer than the receive buffer are not generated. The spec's buffer tiers exclude them.

## Runs

| Run | Config | Expect | What it shows |
|---|---|---|---|
| registry | `MCQueueRegistry.cfg` | pass | `SlotQueuesLive`: every configured slot names a distinct queue the engine holds. `EndpointQueueLive`: while attached, every live endpoint submits to a held queue. Both hold through engine failures, cdev failures and removal. `RefinesQueueSlots`: every step is a step of the abstract `QueueSlots` (a mutant `remove_one` without `qdma_device_close` breaks it). |
| registry_endpoint_fault | `..._NoEndpointFault.cfg` | violation | A failed `qdma_cdev_create` leaves a garbage `xcdev` that delete or remove frees. |
| registry_double_add | `..._NoEndpointAfterRemove.cfg` | violation | A double add overwrites a slot, and the first endpoint survives `remove_one`. |
| buffer | `MCBufferMapper.cfg` | pass | `PinBalance`: a page's reference count equals the entries naming it that calls in `fp_rw` or in the release loop still hold (the pin error path without `unmap_user_buf` breaks it). `DeviceDataKept`: a page the device wrote that writeback has not saved is never clean and unpinned at once, whatever the order in which threads sharing it release it and writeback runs (the inverted dirty test breaks it, and so does a loop that puts the page before dirtying it). `SgCoversBuffer`: there are as many entries as the spec's page count, and entry j is exactly the part of the buffer in the j-th page. `TypeOK`: no count goes below zero (a double `put_page` breaks it). |
| buffer_leak | `..._NoAllocLeak.cfg` | violation | The pin error paths leak the pages array. |
| lifecycle | `MCDeviceLifecycle.cfg` | pass | `ListTracksDevices`: the list and drvdata agree with the probe/remove threads through every failure path. `EngineOpenTracked`: no engine device is leaked or closed twice. `RefinesXpdevSet`: the list with its lookup implements `XpdevSet` (a mutant lookup that returns the loop cursor when nothing matches breaks it). `FreeAfterClose`: `xpdev_free` frees only an object whose `dev_hndl` is closed and whose engine device is released (a probe failure path that frees without closing breaks it). |
| lifecycle_use_after_free | `..._NoUseAfterFree.cfg` | violation | A handler uses an object freed after its lookup. |
| lifecycle_half_probed | `..._NoUseBeforeProbeDone.cfg` | violation | `qdma255` reaches a device whose probe has not set `dev_hndl`. |
| client | `MCClientSession.cfg` | pass | `DecodeMatchesReply`: when `recv_attrs` ends, `attr_mask` is exactly the reply's types and `attrs[]` its values. `NoMisroutedCommand`: every command goes to the family id resolved for its server. `NoMissingAttribute`: no request lacks a mandatory attribute. `QueueFlagsWellFormed`: every queue request names exactly one mode and one direction, whatever order or repetition the words came in. `Terminates`: every invocation exits. All hold through every failure of alloc, socket, bind, send and recv, through absent families, and through replies with an unknown attribute. |
| client_exit_status | `..._ExitReflectsFailure.cfg` | violation | `dev list` exits 0 after its PF exchange failed, because the VF result overwrites `rv`. |
| client_device_index | `..._DeviceIndexMatchesName.cfg` | violation | `qdma256` sends DEV_IDX 0 and `qdmavf010` sends DEV_IDX 8 (`cmd_parse.c:88`: base-0 `strtoul` into an `unsigned char`). The command silently reaches another device. |
| client_desc_range | `..._DescRangeOrdered.cfg` | violation | `q dump idx 2 desc 2 1` is sent with start 2 and end 1. `read_range` (`cmd_parse.c:218`) compares the addresses of the two fields, so its "invalid range" check never fires. |

Each property of a passing run is paired with a mutant in `PROJECT.json`: a plausible slip in the code (a dropped memset, destroy, unmap or close; an inverted dirty test; a double `put_page`; a bound check off by one; a forgotten page offset) that TLC shows breaks it.

### Other divergences the models show

The project keeps twelve runs. The following divergences are visible in the models but have no run of their own:
- `cdev.c:143`: a zero-length call at an unaligned address gets `pages_nr` 1. It is pinned and submitted instead of being rejected with EINVAL (spec section 8).
- `cdev.c:158`: `get_user_pages_fast` is always called with `write = 1`, so write() from a read-only buffer fails to pin (spec section 4.1).
- `nl_user.c:257`: `recv_nl_msg` ignores the `-EINVAL` of `recv_attrs`. A reply with an unknown (newer) attribute type is half decoded and exits 0, where the spec (section 4.4) says ProtocolError. In ClientSession this is the `RecvAttrsUnknown` path.
- `nl_user.c:409/433`: `dev list` closes the VF socket twice. After a failed `socket()`, `cb.fd` is still 0, so `xnl_close` closes stdin.
- `qdma_mod.c:211`: a failed add (the cdev creation fails after `qdma_queue_add`) keeps its engine queue, where spec section 7 says failures unwind. `QueueRegistry` reaches a state where `engineQ` grew and the command returned an error.
- `qdma_mod.c:336`: a queue add that lands between `remove_one`'s slot cleanup and `xpdev_free` leaves an endpoint on a freed device. `DeviceLifecycle` reaches it: `eps` of an address in `freed` is non-zero.
- `cmd_parse.c:431`: `flags & (C2H | ST) == (C2H | ST)` is `flags & 1`. `q add mode st dir h2c` therefore gets `entry_size` 3 and sends `WRB_DESC_SIZE`, which the comment meant only for st c2h.
- `cmd_parse.c:483/423/151`: `dma-ctl dev`, `dma-ctl qdma0 q` and `dma-ctl qdma0 reg` pass the NULL `argv[argc]` to `strcmp` and crash. Parse errors exit 234, not the 1 of spec section 6. Only `argc == 1` exits 1.
- `cmd_parse.c:461`: an unknown `q` verb uses `rv` uninitialized. Depending on the stack, the run fails, gives EINVAL, or runs `dev list`.

### Bounds

- **Registry:**
  - `qmax = 1`, so there are 2 slots and `qidx` can be 0 or 1, one of them out of range.
  - Handles `{0,1,2}` with a minor count of 2, so both the ENOSPC path and handle 0 occur.
  - Three endpoint addresses, enough for a double add plus a reuse.
  - The run explores every reachable state of this instance, so add, double add, each failure, delete and remove occur in every order on both slots.
- **Buffer:**
  - `PAGE_SIZE = 2` and two virtual pages over two physical pages, so buffers can span two pages, alias the same page, or hit an unmapped or read-only page.
  - Lengths 0..3 at offsets 0..1, which gives zero, partial, full and page-crossing buffers.
  - Two threads with one call each, so that two requests overlap on the same pages, and their release loops, the device and writeback interleave at every step.
- **Lifecycle:**
  - Two devices and three object addresses, so one device can be probed again after a remove.
  - Two handlers naming devices 0, 1 and 255.

- **Client:** 15 command lines (`MCArgvs`). Together they reach:
  - every `end` of `parse_cmd`;
  - the `if_idx` wrap (256) and octal (010) cases;
  - a defaulted and a refused mode pair;
  - `q add` for an st queue;
  - a reversed `desc` range;
  - `reg read bar`;
  - one opcode per branch of the encoder's switch and of main: `dev list`, DEV_INFO, `q list/add/del/desc`, `reg read`.

  The client also uses:
  - reported values `{0,1}`;
  - GENMSG payloads of 1 and 4 bytes, so both an unaligned (5) and an aligned (8) `nla_len` occur;
  - both families present or absent.

Every run finishes in seconds. Symmetry is declared over model values only, such as addresses, threads and physical pages, because no property names a particular one.

Only the client has a liveness property, `Terminates`, and it is checked under weak fairness of its next-state relation. This is justified because the client is one sequential process, and the kernel answers every request with a reply or an NLMSG_ERROR. A mutant that drops `maxlen -= len` from the loop breaks it. The kernel-side models assume no fairness.

## Proofs

`QueueRegistryProofs` proves, under the constant assumptions `QMaxAssumption`, `HandlesAssumption` (handles are naturals and INVALID is not one of them) and `PointerAssumption` (NULL and WILD are not endpoints):

- `TypeCorrect`: `Spec => []TypeOK`.
- `SlotQueuesLiveThm`: `Spec => []SlotQueuesLive`. `SlotQueuesLive` is inductive relative to `TypeOK`. An add takes a handle the engine does not hold, so no other configured slot can have it. A delete zeroes its own slot, and by distinctness no other slot held the removed handle.
- `EndpointQueueLiveThm`: `Spec => []EndpointQueueLive`. The property alone is not inductive: a delete could release the queue of a live endpoint held by another slot. The strengthening `EndpointOwned` adds that any configured slot whose handle is a live endpoint's `priv` points to that endpoint, so the delete that releases the queue also destroys the endpoint. TLC checked `EndpointOwned` as an invariant before it was proved.

- `RefinementThm`: `Spec => RefinesQueueSlots`, that is, QueueRegistry implements QueueSlots under `AbsSlot`. It needs only `TypeOK` and that NULL is not an endpoint address: a successful add binds its slot because the new `xcdev` is not NULL. `Init` maps to the abstract `Init`, and each action maps to one abstract step, or to a stutter. The lemma `AbsSlotFrame` says that a slot no action writes keeps its abstract value.

`DeviceLifecycleProofs` proves, under `PDevsAssumption` (devices are naturals, at least one exists, and 0xFF is not one of them), `AddrsAssumption` and `MaxEpsAssumption`:

- `TypeCorrect`: `Spec => []TypeOK`.
- `ListTracksDevicesThm`: `Spec => []ListTracksDevices`. The property is not inductive. The strengthening `IInv` adds `ObjectsOwned`:
  - the object a probe or remove thread holds is allocated, owned by its device, and equal to the drvdata once attached;
  - drvdata is set exactly in the attached, cleaned and closed phases;
  - a handler that found an object holds an address.

  Without it, a step of `remove_one` could free an object other than the listed one. The list lemmas are proved from `SequenceTheorems`: `AppendDistinct`, and `RemoveDistinct` (removing the first occurrence from a list without duplicates removes the element from its set). `xpdev_find_by_idx`'s `SelectInSeq` is reduced to a least element, and `MinOfNats` obtains it from the well-foundedness of `<` on `Nat` rather than by induction. TLC checked `IInv` as an invariant (332,164 states) before it was proved.
- `EngineOpenTrackedThm`: `Spec => []EngineOpenTracked`, inductive relative to `IInv`.
- `RefinementThm`: `Spec => RefinesXpdevSet`. The argument uses three facts from `IInv`:
  - `Add`'s object is not linked, because the list holds only allocated objects;
  - `Del` removes exactly one set element, because the list has no duplicate;
  - the object `ProbeInit` and `RemoveFree` hand to `xpdev_free` is the linked object of their device.

  A lookup's result is linked and has the index asked for, by the least-element argument above.

`BufferMapperProofs` proves, under `PSAssumption`, `LensAssumption` and `VPagesAssumption`:
- `PinBalanceThm`: `Spec => []PinBalance`. The entries call `p` still holds are `HeldIdx(p)`: all of them while it is in `fp_rw`, those from `ui` on in the loop. The strengthening `PInv` adds:
  - that the pages arrays are sequences of pages and `ui` is within the array at a `put_page`;
  - that `pinned` maps pages to naturals;
  - that each page's set of held references `PinSet(g)` is finite and counted by `pinned[g]`.

  The references call `p` holds on page `g` form `Slice(p, g)`, pairs `<<p, j>>` (lemmas `PairsCard` and `IdxFinite`, from `FS_Product` and `FS_Subset`). Each step then changes the counts as follows:
  - `RwSubmit` adds a slice that is disjoint from the others (`PinSetSubmit`, `FS_Union`);
  - `UnmapPut` removes exactly `<<p, ui>>` and decrements that page (`PinSetPut`, `FS_RemoveElement`);
  - `RwComplete`, `UnmapDirty`, `UnmapDone` and `DeviceWrite` leave `HeldIdx` alone, and the other calls leave the set alone (`PinSetIdleStep`). The error path of `RwPinError` puts back what it took, which needs `PinCountType`: the prefix `get_user_pages_fast` pins exists and lies in `0..n`.

  TLC checked `PInv` as an invariant before it was proved.

`BufferMapperSgProofs` extends it and proves, under the same assumptions:
- `TypeCorrect`: `Spec => []TypeOK`;
- `AllocBoundsThm`: `Spec => []AllocInv`, where the sg tables allocated equal the number of calls blocked in the engine and the pages arrays are at least the calls in the engine or the release loop (`Busy`), so neither `sg_free_table` nor `iocb_release` frees what was not allocated;
- `SgCoversBufferThm`: `Spec => []SgCoversBuffer`;
- `DeviceDataKeptThm`: `Spec => []DeviceDataKept`.

The inductive invariant is `TInv`, the conjunction of `PInv`, `TypeOK`, `AllocInv` and `SgInv`. `SgInv` says a busy call's pages are all physical pages and an in-flight request's `sg` is `SgList(off, len, PagesNr(off, len))`. `TypeOK` alone is not inductive: the pages array of a submitted request holds no `Unmapped` entry only because every page was pinnable (`PagesReal`, from `PinCountType`). The arithmetic is split into lemmas:
- `DivBounds` and `DivShift` about `\div` by `PAGE_SIZE`;
- `PagesNrIsRef`: the code's page count equals the spec's for every offset inside a page;
- `SgLeftType`, `SgListType`;
- `SgEntry`: entry j of `SgList` is the intersection of the buffer with page j.

TLC checked `TInv` as an invariant before it was proved.

`DeviceDataKept` is not inductive: a device write to a page that another thread has just put clean is allowed only because the writing read still holds the page. The strengthening `DataInv` says every clean page the device wrote is an entry of a read that the loop has not dirtied yet (`Pending`: all entries while in `fp_rw`, those from `i` on at the dirty test, those after `i` at the `put_page`). A pending entry is a held one, so `pinned[g]` counts at least that reference. `UnmapDirty` stops counting entry `i` as pending exactly when it dirties it, which is why the dirty test must come before `put_page`; `DeviceWrite` makes its own read the witness; `Writeback` removes the page from both sets. TLC checked `DataInv` before it was proved.

`DeviceLifecycleProofs` also proves the action property `FreeAfterCloseThm`: `Spec => FreeAfterClose`. It rests on `EngineOpenTracked` and on the strengthening `HndlClosed`: a device whose remove thread is past `qdma_device_close` has a closed `dev_hndl`. `ProbeInit`'s failure path closes the handle before `xpdev_free`, and `RemoveFree` runs only in the closed phase. TLC checks the property on the lifecycle run.

The proofs follow the usual layout. Each is an inductive step with one case per action (one lemma per action where the steps are large), and `PTL` combines it with Init.

Left to TLC:
- liveness (`Terminates`), since the provers do not handle `ENABLED` or fairness here;
- the `ClientSession` invariants. Their key facts are the offsets the `recv_attrs` loop reaches (`Offset`, a recursive function) and what `CmdParse`'s folds return for a command line. The first needs induction over data. The folds of `SequencesExt` are RECURSIVE operators, and tlapm loses its SMT backend in any module that reaches one, so no module over `ClientSession` can hold a proof.

## Not modelled (yet)

- **Endpoint file operations.** open/close, and the file's `private_data` outliving a q del.
- **Module init/exit.**
- **The chrdev region of `qdma_cdev_device_init`.** It is never released by `remove_one`.
- **Client replies larger than the receive buffer.** `xnl_recv` accepts a truncated reply, and `recv_attrs` then walks `nlmsg_len` into zeroes and loops forever on `nla_len == 0`. It is also not modelled that `xnl_msg_add_str_attr` and `xnl_send_op` are never called.
- **`sriov_config` and the AER handlers.** They only forward to the PCI core.
- **The register tool.** It is pure I/O on a mapped file.

## Plan

1. Model an Endpoint module: open, read/write and close of files on the registry's endpoints, composed with QueueRegistry. Prove `NoEndpointFault` fails only through the uninitialized pointer, or show the use-after-free of a file kept open across q del.
2. Done for the client session and the parser (`ClientSession`, `CmdParse`). Still to do: prove `NoMissingAttribute` and `QueueFlagsWellFormed` for every command line.
3. Model module init/exit and the chrdev region in DeviceLifecycle.
4. Done (`QueueSlots`, `RefinementThm`). Still to do: a stricter abstract table whose `Add` requires an empty slot, with the run that shows the double add breaks it.
5. Done (`DeviceLifecycleProofs`, `BufferMapperProofs`, `BufferMapperSgProofs`). Still to do: the invariants of `ClientSession`, once its offsets and `CmdParse` are stated without recursion and without the folds of `SequencesExt`.
