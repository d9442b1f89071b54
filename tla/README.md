# A TLA+ verification of MoonUSB

MoonUSB is a Lua binding of libusb. It is single threaded and has no protocol of
its own; what is hard in it is *who owns what, and for how long*: every libusb
resource is wrapped in a Lua object, objects form a tree, scripts run inside
callbacks that libusb makes in the middle of its own work, and addresses and
registry slots are reused as soon as they are released. The modules here model
that ownership, from the C sources.

Paths below are relative to the repository; `src/transfer.c` is in its `src/`
directory.

## 1. Inventory

| component | state | operations | hard behaviours |
|---|---|---|---|
| userdata layer: `udata.c`, `objects.c`, `objects.h`, macros of `internal.h` | red-black tree handle → `udata_t` (`ref`, `mem`); `ud_t` of each object (`handle`, `marks`, `ref1`, `parent_ud`); slots of the Lua registry | `newuserdata`, `freeuserdata`, `udata_push`, `userdata`, `testxxx`/`checkxxx`, `Reference`, `Unreference`, `udata_scan`, `freechildren` | reuse of addresses and slots; stale userdata next to valid ones; reference 0 against `LUA_NOREF` |
| object tree: `context.c`, `device.c`, `devhandle.c`, `interface.c` | the objects, libusb's reference counts, open handles, claimed interfaces, `lock_on_close` | `init`, `get_device_list`, `open_device`, `open`, `get_parent`, `claim_interface`, the destructors | nested destructors; constructors that fail half way; order of the release; the collector at exit |
| transfers: `transfer.c` with `polling.c` | transfer objects, `Submitted` mark, libusb's list of flying transfers | the submit methods, `cancel`, `Callback`, `handle_events` | callbacks that resubmit, raise, or close the handle; cancellation; devices that leave |
| hotplug and polling: `hotplug.c`, `polling.c` | hotplug objects, `cb_handle`, callback reference; libusb's event lock | `hotplug_register`, `deregister`, `Callback`, `handle_events`, `get_next_timeout` | callback before the registration returns; deregistration inside the callback; errors raised through libusb; a handle closed under the lock |
| search trees: `tree.h`, used by `udata.c` and `enums.c` | nodes, colours, parent links | `RB_INSERT`, `RB_REMOVE`, the searches, `udata_scan` | rebalancing; scans whose callback inserts and removes |
| host memory: `hostmem.c` | block, size, `Allocated` and `Dma` marks | `malloc`, `aligned_alloc`, `hostmem`, `free`, `write`, `copy`, `clear`, `read`, `ptr`, `size` | allocator and deallocator must match; bounds in `size_t` |
| log callback: `context.c` | `log_cb_ref`, `ref1` of contexts | `set_log_cb`, `LogCallback` | scripts run inside destructors |
| data handling: `datahandling.c`, parts of `transfer.c` | none | `pack`, `unpack`, `flatten`, encode and decode of setup packets | lengths, widths, nesting |
| enums: `enums.c` | two search trees, filled once, freed at exit | code ↔ name, the names of a domain | unknown codes, first code of a domain, loading that fails half way |
| requests: `device.c`, `devhandle.c`, `synch.c`, `datastructs.c` | none between calls; within one the Lua stack, memory and descriptors | the methods that ask libusb for something, the conversion of descriptors | errors raised in the middle of a conversion |
| USB/IP emulator: `moonusb/emulator.lua` | the connected client, configuration | accept, operations, commands, responses | responses deferred across clients; unlink |
| tracing, utilities, module entry: `tracing.c`, `utils.c`, `main.c` | the allocator, the trace flag | errors, checks of arguments, loading | none of its own |
| `compat-5.3.*`, `moonusb/utils.lua`, `moonusb/bosdescriptors.lua` | | | third-party; formatting and decoding |

How they interact: every constructor goes through `newuserdata`, every destructor
through `freeuserdata`. A destructor calls those of the children, found by a scan
of the whole tree of userdata (`freechildren`). libusb calls `Callback` of
`transfer.c` and `hotplug.c` from inside `handle_events`, and `LogCallback` from
inside any of its functions; they find the object by the address libusb gives
them, and call the script.

What makes them correct, and the hazards, line by line, are in `PROJECT.json`.

## 2. Modules

| module | models |
|---|---|
| `ObjectMap` | abstract: handles are bound to userdata, owners have callbacks |
| `Udata` | the userdata layer; implements `ObjectMap` |
| `UdataProofs` | theorems about `Udata` |
| `ObjectTypes` | the types of objects, their parents and the scans of their destructors |
| `ObjectTree` | abstract: objects are created under live parents; a release takes a whole subtree, at once |
| `Lifecycle` | constructors and destructors of all objects; implements `ObjectTree` |
| `LifecycleProofs` | theorems about `Lifecycle` |
| `TransferProtocol` | abstract: pending, calling back, resubmitted or deleted |
| `Transfers` | transfers on a device handle; implements `TransferProtocol` |
| `TransfersProofs` | theorems about `Transfers` |
| `OrderedSet` | abstract: a set of structs with distinct keys |
| `RedBlackTree` | `tree.h`, step by step, and `udata_scan`; implements `OrderedSet` |
| `RedBlackTreeProofs` | theorems about `RedBlackTree` |
| `Hotplug` | hotplug callbacks, handling of events, and the event lock |
| `HotplugProofs` | theorems about `Hotplug` |
| `EnumNames` | the tables of codes and names, and the names of errors |
| `Enums` | the two trees of enums: loading, searches, freeing |
| `Requests` | calls that ask libusb for something: the Lua stack and what they hold |
| `DataHandling` | packing and unpacking of integers, as operators, and their laws |
| `Flatten` | flattening of nested tables |
| `ControlSetup` | setup packets of control transfers, as operators |
| `ByteArrays` | abstract: each hostmem object is an array of bytes of its own |
| `HostMem` | host memory: allocation, release and bounds; implements `ByteArrays` |
| `HostMemProofs` | theorems about `HostMem` |
| `Emulator` | the USB/IP server, its clients, and a script that defers answers |
| `EmulatorProofs` | theorems about `Emulator` |
| `Conversions` | composes `DataHandling`, `Flatten`, `ControlSetup`, `Enums`, `Requests` |
| `ConversionsProofs` | theorems about `Conversions` and the modules it composes |
| `MCUdata`, `MCLifecycle`, `MCTransfers`, `MCHostMem`, `MCRedBlackTree`, `MCHotplug`, `MCEmulator`, `MCConversions` | instances for TLC |

An operator preceded by a comment `(Mutant: ...)` is a faulty variant of the one
that follows. No specification uses it; it is there to show, by taking the place
of the other, that a property can tell them apart.

### Udata

`ud`, `db`, `registry` are the memory of the `ud_t` structs, the red-black tree
and the Lua registry. `held` are the userdata a script can still reach, so that
`Collect` takes only what the collector could. Lua's list of released slots is
a set: the model allows every order of reuse. `luaL_unref(0)`, which the code
does on every `freeuserdata` because `newuserdata` zeroes the references, empties
that set. Creation takes a free address as handle and any free userdata, so both
are reused in all ways. The metatable of an object is left out (a handle is
never used with another type), as is `udata_unref`, that nothing calls.

### Lifecycle

Constructors are single steps: no script runs inside, except log callbacks, which
are left out there. A constructor that fails undoes what it did and is no step,
but for `get_device_list`, which does not undo. Destructors are stacks of frames;
each frame scans for the children of each type in turn (`FreeChild`, `EndScan`),
then invalidates its userdata (`FreeUserdata`), then makes its libusb call
(`ReleaseResource`). With `LogMayDestroy` a log callback, inside that call, may
call the destructor of any valid object, those with a frame on the stack too. A
libusb call on a resource that depends on a released one is undefined; the model
stops before it.

`live` are the valid objects and `res` those whose resource is not released yet:
they differ between the two last steps of a destructor. `owned[d]` counts the
references MoonUSB has taken on a libusb device, which outlive the device's
object when it has taken too many. libusb's own references (in its list, and of
open handles) are `attached` and the handles in `res`.

### Transfers

One device handle that is opened and closed again. `lib` is where a struct is in
libusb: `none` (not allocated), `idle`, `flight`, `cancelling`, `done` (waiting in
`queue` for `handle_events`). Inside a callback (`cb`) the script can submit,
cancel and close. `May` says which of the less usual events are possible, so that
each run asks one question. libusb handles no event inside a callback (it answers
busy), and none after an error has been raised through it by `lua_error`, since it
never learns that the event handling has ended; `wedged` records that. Undefined
uses of a struct are recorded in `misuse` and end the behaviour. A callback that
closes its handle and opens another before it returns is left out.

### RedBlackTree

`tree` is the root and the fields of the nodes. The macros are written once for each
side; here the side is a parameter. An insertion or removal links or unlinks
the node at once, and each step of `Rebalance` is one iteration of a loop of
`RB_INSERT_COLOR` or `RB_REMOVE_COLOR`, or one of its two rotations; `fix` holds the
local variables of that loop. Nothing else runs before it ends (`Stable`): `Ordered`
and `SearchesExact` hold in the middle all the same, which is stronger than what
the callers need. `scan` is `udata_scan`: between two steps of it its callback
inserts and removes at will, as destructors do; `due` is a history variable. The
comparison is by an integer key: that of `enums.c`, by domain and then code or name,
is a total order too. `Udata` and `Enums` use the tree as the set it implements.

### Hotplug

`stack` holds the C functions under way: libusb handling events, a registration
that enumerates, `Callback`. The script runs when the stack is empty or ends in a
callback, and may call whatever it could at top level. An error (`Raise`) is a long
jump to the nearest callback or to the main program: libusb's frames in between
never end (`Unwind`). A userdata is named by the registration it was created for, so
that two of them at one address are told apart. `lost` are the registrations whose
handle MoonUSB does not know although they have returned, or been left, and that it
therefore cannot undo: what the properties except, precisely. libusb is modelled
from its use: a registration that is inactive is not called any more, and events
are not handled within an event handler. Left out: the arguments of `Callback`, the
device object it creates (`Lifecycle` has it), the filters by vendor and product, a
registration that libusb refuses (the object is destroyed and none is returned).

### EnumNames, Enums

The tables are those of `moonusb_open_enums`, entry by entry. `Enums` runs
`enums_new` over them, for every record in turn, with both trees as sets;
allocation may fail at the records in `NoMemoryAt`. A record is named by its
position in the lists. `AtExit` frees them. `ControlSetup` and
`Requests` take their codes from the same tables. A value that only a newer libusb
knows is not in them. `enums_checklist` and `enums_freelist`, that nothing calls, are left
out.

### Requests

A call is a stack of conversions (`frames`), each with the parts it has left to
convert; `top` is the height of the Lua stack, `held` what the C code has to free. What
libusb returns, an error or a descriptor of up to `MaxParts` parts on each level,
is chosen when the code reads it, and so are the class of an interface and the
attributes of an endpoint. A part that is pushed and stored in a field in one go
leaves the stack as it was. Errors of Lua's own allocator are left out: they leave
C functions anywhere. The checks of arguments raise before anything is held.

### DataHandling, Flatten, ControlSetup, Conversions

Operators and recursive functions, without state. `Stored` is what `PACK` leaves
behind when it meets a value that is not an integer: the elements before it, and a
zero for it. The floating point types are left out, as are the strings that Lua would
convert to integers. In `Flatten` a table is a number and `Tables` gives the contents
of each, so that a table may be nested in many others; numbers are given in such an
order that a table is nested in those after it only. A script can nest a table in itself
as well, and `Flatten1_` then recurs until the C stack is exhausted: that is left out.
`Flatten1` is a function of the table and of where `Flatten1_` starts in the flat table,
at most one past its end.

`Conversions` loads the enums first; then it either makes calls (`Requests`) or builds
the input of a conversion, arguments and data one element at a step, and compares the
operators with reference definitions in every state: `Leaves` for `flatten`,
congruence modulo the number of values of a type for `pack` and `unpack`, round trips
for setup packets and the attributes of endpoints.

### HostMem

`memory` is the address space, of `SizeMod` bytes, and `size_t` counts modulo
`SizeMod`, so that a negative Lua argument is a large number, as it is in the code.
`block` are the blocks of the two allocators, `hostmem` the objects with their
marks. `Malloc` covers `malloc` and `aligned_alloc` with a size, data or values,
`WriteData` also `clear`. `CopyPtr` checks nothing of its source, as the code does: it
may be any mapped memory, inside the object itself too, in which case `memcpy` may leave
anything in the destination. Reading memory that is not mapped is left out. A method whose check fails raises an error and is no step.
A release through the wrong allocator is recorded in `misuse` and ends the
behaviour. What a script does with memory that `hostmem` was given and that
overlaps that of another object is its own affair and is left out, as are
pointers it keeps after an object is freed.

### Emulator

`phase` is the point at which the loop of `start` is: in `accept`, about to receive
an operation, a bus id, a command, or the data of `submit`. The functions that
send and receive are the disjuncts of `ReceiveOp`, `ReceiveBusid`, `ReceiveCmd` and
`ReceiveData`; `NoOp` and `NoCmd` are the receives that return nil. A message is one
unit: one that has arrived in part only has not arrived. Clients are external:
they keep to the protocol's format, may send unknown commands, submit isochronous
transfers, whose data is followed by the descriptors of their packets (`Packets`), and
leave at any time, with a reset or without. A client that is reset before it is accepted
ends `start` (`AcceptReset`, phase "stopped"). The script is external, too: it answers a
command at once, from a timer, or never, and cancels its timers in `detached`, if
`CancelsTimers`.

## 3. Runs

All are exhaustive. Deadlock is not checked: a script may simply stop, and a
behaviour that has reached an undefined call does.

| run | question | bounds |
|---|---|---|
| `udata` | are database, marks, anchors and references consistent, and is it the abstract map? | 3 userdata (a stale one and a free one next to a valid one), 2 handles, 2 callbacks, 6 slots |
| `lifecycle` | does destruction respect dependencies and take whole subtrees? | 2 contexts, 1 device, 2 handles, 2 interfaces with 2 numbers, 1 transfer, 1 hostmem, 1 hotplug; scripts claim a number once |
| `lifecycle_log` | is anything released twice when log callbacks destroy? | 1 context, 1 device, 1 handle, 2 interfaces, 1 hostmem, 1 hotplug |
| `lifecycle_exit` | are devices pinned while they have an object, and does `lua_close` release everything? | 1 context, a hub and a device on it, 1 handle, 1 interface, 1 hostmem, 1 hotplug, 3 references |
| `lifecycle_refs` | when the object of a device that is gone is deleted, is its reference the last? *No, after `get_device_list`.* | 1 device, 1 handle |
| `transfers` | is a transfer in flight owned, is none leaked, is the protocol followed, is none left behind that is not in flight, is a cancelled transfer called back? | 4 transfers; everything but closing while in flight; fair event loop |
| `transfers_close` | are transfers freed in flight? *Yes, by close.* | 3 transfers |
| `conversions` | are `flatten`, `pack`, `unpack` and the coding of setup packets and endpoints right? are the enums loaded, searched and freed whole? do calls free what they hold and balance the stack? | bytes of 1 bit, up to 3 arguments and tables of 3 levels, up to 9 bytes, all 256 request types; all tables; 4 points of failure; 2 parts on each level of a descriptor |
| `hostmem` | do methods stay in their areas, is every block released, and DMA memory by libusb? | 2 objects, 8 addresses, bytes of 1 bit, data of up to 2 bytes |
| `redblack` | is the tree of `tree.h` balanced, ordered and a set, through every rotation, and does a scan miss nothing? | 8 structs, two with the same key, 2 of the type scanned for |
| `hotplug` | which registrations keep their object, whose callback does an event reach, who holds the event lock? | 2 structs, 3 registrations, 2 devices enumerated, 2 events |
| `emulator` | where does the server lose step, does it answer the right client, and serve all? | 2 clients, 2 commands each, buffers of 0 and 1, 1 message in transit; a script that cancels its timers |

Named bounds: `MaxSlot` (registry slots), `MaxRefs` (references on a device),
which only stop creation; `MaxArgs`, `MaxData` (arguments, bytes of data),
`MaxLen` (bytes a hostmem method is passed), `SizeMod` (addresses), `Base`
(values of a byte); `MaxSeq`, `Window` (commands of a client, in all and in
transit); `N`, `Wanted` (structs of a tree, those scanned for); `Hpl`, `MaxReg`, `Attached`,
`MaxEvents` (structs, registrations, devices, events of hotplug); `NoMemoryAt`
(records whose allocation may fail: the first two, one inside a list, the very
last), `MaxParts`, `ClassCodes`, `Attributes` (a code with a name and one without,
an isochronous endpoint with and without a named usage type, and a bulk one). A byte of one bit keeps all that the code depends on, the width of a
type in bytes and its sign; an address space of 8 holds a block, an area of the
script's at its end, and offsets that wrap around. The bounds suffice because
the objects of a type do not interact but through their parent, their address,
or a slot: two of a kind show an object taken for another, and three userdata
let one be stale, one valid and one new. All cases of the rebalancing occur in
trees of 7 nodes; three registrations on two structs let an address be reused while a
callback for its former owner runs. Symmetry is used in safety runs only.

The runs whose answer is in italics refute what the code's comments or its
documentation say; the findings in `PROJECT.json` quote the lines. The models
show some more that no run is spent on, and that the other properties are stated
around:

- `GetDeviceList`: a listed device that has an object already is an error, after
  which the devices before it have objects and those after it have none. The list's
  references on the latter are lost as well, with no object to give one back.
- `ClaimInterface` with `Reclaim`: two objects for one claim; releasing one
  releases the interface under the other. `ClaimsMatch` is checked for
  scripts that claim a number once.
- `SubmitTransfer` when the device has left: `Submit` keeps the object and the mark of
  a transfer that libusb has refused, "this will be learned in the callback"
  (`src/transfer.c:73`), but no callback is due. Hence `gone` in `MarkedUntilGone`.
  When `Callback` resubmits such a transfer it is neither in flight nor deleted, which
  `NoneStranded` excepts too.
- `Raise`: the transfer of a callback that raises is neither deleted nor submitted
  again, and libusb handles no event from then on. `NoneStranded` excepts that one
  transfer, and `CancelledCalledBack` ends at `wedged`.
- `ReceiveCmd`: the descriptors that follow an isochronous submit are never received
  (`moonusb/emulator.lua:210` reads their number only). They are taken for the next header; the
  first word, which should be the command, is the offset of the first packet, 0, and the
  session ends. `InStep` names them as the only case.
- `AcceptReset`: a client that is reset before it is accepted has no peer name, and the
  `%d` of `moonusb/emulator.lua:283` raises out of `start`. `Served` ends there.
- `Trigger`: `send_submit_response` sends to the client of the moment, so that a script
  that does not cancel its timers in `detached`, which is optional, answers the next client
  with them. `AnswersOwner` is stated for scripts that do.
- `FreeUserdata` in `Udata`: a reference that was never set is 0, and
  `luaL_unref(0)` cuts Lua's list of released slots, in the versions of Lua that keep
  its root in slot 0: the slots in it are lost. `NoAliasing` shows that nothing
  worse comes of it.
- `MallocFails` in `HostMem`: DMA memory is released with `free` when there is no
  memory for the struct. `DmaReturned` is about the other steps.
- `WritePack`: a faulty value leaves the ones before it, and a zero, in the area,
  where the documentation describes a write of `pack(...)`, which would fail first.
- `Allocator` when libusb has no DMA memory: the object has heap memory, but its mark
  says DMA, and freeing it gives heap memory to libusb, where
  `src/doc/hostmem.adoc` has it released with the object. `misuse` holds "heap" then.
- `ReturnTrue` of `Transfers` after the callback has closed the handle: the transfer that
  `Callback` submits has been freed; `misuse` is "stale_submit".
- `ReturnTrue` of `Hotplug` during the enumeration: the handle is still 0, so that the
  object is destroyed and the registration stays; the next device calls `Callback`,
  which finds no object and raises "unexpected". An error raised there has the same
  effect when the collector takes the object.
- `EndRegister`: where a registration is lost that way and its struct allocated to
  another hotplug, libusb overwrites the other's handle at the end of the first
  enumeration.
- `CloseHandle` of `Hotplug` in a callback with `lock_on_close`: the thread waits for a lock
  it holds, for ever.
- `GetMaxPacketSize`: `CheckError` takes the size for an error (`src/device.c:138`), so the
  method always raises one, where `src/doc/device.adoc` says it returns the size.
- `NextAltsetting`, `NextEndpoint`: the configuration is leaked when a class or a usage type
  has no name in the tables (class 4, usage 3).
- `Get_descriptor` passes libusb the pointer it has allocated, which is NULL when the
  caller has given a buffer (`src/devhandle.c:86`): `GetDescriptor` models the call without
  a buffer only.
- `OutOfMemory` of `Enums`: a record for whose name there is no memory is never freed. A
  module whose loading has failed cannot be loaded again: `malloc_init` refuses to be
  called twice.
- `ReturnTrue` of `Transfers` after `Cancel`: a cancelled transfer whose callback returns true is
  submitted again, where the documentation of `cancel` says it is deleted.

### Fairness

`Lifecycle`: a destructor that has been called runs on (it is one C call), and
`lua_close` goes on calling finalizers. Nothing is assumed of the script.
`Transfers`: the script runs an event loop (`handle_events`, asked for by the
documentation), callbacks return, and libusb completes what it has cancelled. A
transfer that is not cancelled may stay in flight for ever (timeout 0), so no
fairness is assumed of `Complete` in general. libusb calls back in the order of
completion, which is why weak fairness of `HandleEvents` is enough.
`RedBlackTree`: rebalancing is part of the call that began it. `Hotplug`: libusb's
functions run on, callbacks return, and the script has an event loop. `Enums`: the
loop of `AtExit` runs on.
`Emulator`: the server's loop runs on, and a client leaves in the end; nothing is
assumed of what it sends before.

## 4. Proofs

`UdataProofs` proves for every set of userdata, handles and callbacks, and every
size of the registry, from `UdataAssumption` (the kinds of values are disjoint):

- `TypeCorrect`, `HandlesBound`, `RegistryNotAliased`, `AnchorsReleased`: `TypeOK`,
  `Bound`, `NoAliasing`, `SoleAnchor` are invariants of `Spec`;
- `Refinement`: `Spec => ImplementsMap`.

The inductive invariant `Inv` is the conjunction of the four: none is inductive
alone. Releasing a callback's slot keeps the anchors only if no callback shares a
slot with an anchor, which follows from the types of the slots' values
(`NoAliasing` and `Bound`); a new anchor goes to an empty slot only because
released slots are empty (`NoAliasing`). The lemmas `LuaRefOK`, `LuaUnrefOK`
and `ReferenceOK` say what the registry operations do; there is one lemma per
action for the invariant, and one per action for the refinement, all through
`MapSteps`, which carries out the substitution once.

`HostMemProofs` proves, for every size of the address space and from
`HostMemAssumption`, `BoundsAlwaysExact`: the checks of the methods, made in `size_t`,
accept exactly the ranges in the area. It rests on `ObjectsTyped` (an area is never
empty and its size is a `size_t`, by induction over the actions) and on `FitsExact`,
the arithmetic of the check: once `o < size`, the subtraction `size - o` does not
wrap around, and no addition is made that could.

`BlocksAlwaysOwned` and `DmaAlwaysReturned` follow from the inductive invariant `Inv`
of that module. `BlocksOwned` alone is not inductive: which block `FreeMem` releases,
and by which deallocator, depends on the blocks being at different addresses
(`BlocksApart`) and on the marks of each block's owner (`Owns`, `Owned`, `Backed`);
that a new block lies apart from the objects needs to know where those that were
not allocated are (`InUser`). `FreeStep` is the lemma about `freehostmem` for any
set of objects, which the cases of one object and of a closing handle share.

That reads see what was written, and nothing else, needs the bytes themselves: `DataInv`
adds to `Inv` the types and that no object's area wraps around the end of the address
space (`NoWrap`), and `PokeIs` is the lemma on what a write changes. From it follow `ReadsTheArea` (`read` returns the bytes at the offset, the
whole values of its type in them) and `EachObjectIsAnArray`, the refinement of `ByteArrays`:
each object is an array of its own, which no method of another object changes.

That `write` stores bytes, and how many, is a lemma of `ConversionsProofs` on `Packed`
(`PackedBytes`). `HostMemProofs` extends that module for it; the assumptions it thereby shares
are about constants of `Conversions` that `HostMem` does not have, and can be met for every `Base`
(no values, no tables).

`LifecycleProofs` proves, for any number of objects of each type, hubs included, and
from `LifecycleAssumption` (the types are disjoint; a hub is in the context of its devices,
as libusb has it, `src/device.c:107`):

- `Invariance`, `ReleasedOnceHolds`, `DevicesPinnedHolds`: for all programs, with log
  callbacks that destroy objects in the middle of destructors. The invariant `Inv` ties
  the stack to the objects: a frame past its `freeuserdata` stands for an object that is
  valid no more and whose resource is not released yet, each such object has one such
  frame, and only one (`Framed`, `OnceEach`). An object with two frames is the hard
  case: the inner one invalidates it, and the outer one must notice.
- `ClaimsMatchHolds`: for programs that claim a number once (`~ Reclaim`), with `ClaimsApart`:
  two interfaces with resources on one handle have different numbers.
- `QuietInvariance`, `ResourcesNestedHolds`, `ImplementsTreeHolds`: for programs whose log
  callbacks destroy nothing (`~ LogMayDestroy`; run `lifecycle_log` has them). `Linked`: the
  objects form a tree by their types; `Nested`: each frame is for a child of the one
  below it; `Scanned`: a scan that is over has left no child of its type, which with the
  order of the scans makes an object childless when its userdata goes (`Childless`); `Under`:
  all frames are about the subtree of the first one's object. `ImplementsTree` maps the tree
  to the valid objects that no running destructor is about (`Standing`), so that a
  whole subtree leaves it when the first destructor is called (`Released`), and stays out
  of it; the refinement shows that the subtree is gone when that destructor returns.

`TransfersProofs` proves, for any number of transfers, `TransfersOwned`,
`NoneFreedInFlight`, `MarkedInFlight`, `NoneLeftBehind` and the `Refinement` of `TransferProtocol`, from one
assumption about the program, `Orderly`: it closes no handle with transfers in
flight. Run `transfers_close` shows that they fail without it, and nothing else in `May`
(unplugging, refused resubmissions, errors, closing the handle in a callback when
nothing is in flight) needs to be excepted. The inductive invariant `Inv` adds to
`Owned` and `NotFreedInFlight` what `MarksOwned` says: marks are on objects, a closed
handle has none left, and a transfer that is called back keeps its object unless the
callback has closed the handle; without it, what a close, or the end of a callback,
frees would not be known to be idle. `FreeInv` is the lemma that the actions which free
transfers share; the refinement goes step by step, in terms of the mapped variables.
`NoneLeftBehind`: no transfer object stays behind that is not in flight, save those that
libusb refused when the device had left and the one whose callback raised. Its
own part of the invariant is that there is no callback once an error has been raised
(`NoCallbackWedged`): so one transfer at most is left that way.

`HotplugProofs` proves `HotplugsOwned`, `LockAlwaysHeld`, `LostOnlyEnumerating` and
`TrueAlwaysDeregisters` for callbacks nested to any depth and for any number of
structs, registrations and devices. `Inv` adds four facts to the first two, since what
a nested call does depends on the calls below it: registrations not made yet are
unknown (`Fresh`), an object's handle was given to its own address by a registration
that has returned (`HandlesOwn`), libusb enumerates for active registrations, each
once (`EnumeratesActive`), and handles events once (`HandlesOnce`). `Alike` relates the
stack before and after a long jump, which removes frames but adds none.

`EmulatorProofs` proves `AlwaysInStep` and `AnswersAlwaysOwner` for any number of clients and
commands and any window of messages in transit. `InStep` is about the next message
only, which is no induction hypothesis: `InLine` is about whole streams, in which each
message must be one that may follow the one before it, and about what the client will
send next, which must be what its last message, or the server's phase, calls for. The
packets of an isochronous submit are in it like any message, so that the theorem says
where the server loses step, and that it does nowhere else. `Queued` says that no
connection is accepted twice. `Owned`, that timers hold responses only while a client is
attached, and to that client, is the one part that needs the script to cancel its timers.

`ConversionsProofs` proves all that run `conversions` checks but the liveness of the exit, for
any arguments, tables, data, setups, packets, endpoints, descriptors and points at which
memory runs out. What it takes from the constants: a byte has an even number of values, a value is
an integer or not one, no table is nested in itself, the packets have fields of their widths.

- `CallInvariance`, `FreedByCallsHolds`, `CallsEndHolds`: descriptors with any number of parts, lists of
  any length, all codes. What a call holds and how high its stack is (`HeldAt`, `Height`)
  follow from the part it is converting: in a descriptor the frames are nested from that of
  a device or of a configuration, one deeper each (`NestedFrom`), the other conversions have
  one frame (`Alone`). The two exceptions of `FreedByCalls`, the classes and usage types
  without a name, come out of the tables of `EnumNames`, as is proved.
- `EnumsWholeHolds`, `ExitFreesAll`: the invariant `EnumsInv` says that the trees hold, until the
  exit, exactly the records of the names before `next`. What `EnumsWhole` promises rests on the
  lists of `EnumNames`, about which two facts are proved list by list: each
  ascends in its codes and names nothing twice (`Named`). From these, no two
  positions of the lists have a key in common (`KeysDiffer`), so that `enums_new` never refuses a record;
  and the name that `enums_values` lists as the i-th is the i-th of those of the domain that are there, by
  counting the codes that are not greater (`ValuesAlwaysComplete`). `ExitFreesAll` is
  the safety half of `FreedAtExit`.
- `CodingExactHolds`: for all integers a script can pass, and all bytes. The fields of `bmRequestType` and
  `bmAttributes` lie in bits of their own, and a code that a domain has determines its name.
- `UnpackOfPack`, `PackOfUnpack`, `PackInverseHolds`: unpacking what was packed gives the values
  modulo the range of the type, and packing what was unpacked the bytes back, for
  sequences of any length. Both rest on the numeral of a value in base `Base`, by induction on its
  digits (`Power` is a recursive function, `^` being unknown to the provers).
- `FlattenInOrderHolds`: of a recursive function nothing is known, not even its domain,
  before a function that satisfies its equation has been found. `IteratesExist` finds one for a loop over the elements
  of a table, as a union of finite approximations, and `DeterminedExists` for a
  recursion over tables, each of which depends on tables with lesser numbers: so `LeavesAre` and
  `Flatten1Is` state the equations of `Leaves` and `Flatten1`. Then `AllAppend`, by
  induction over the tables, and `LoopHolds`, over the elements: the loop that has started with
  `cur` at the end of the flat table has appended the values of the elements it has passed, and counted them.

`RedBlackTreeProofs` proves, for any finite set of structs with any keys, that the tree of
`tree.h` is a set through every rotation (`ImplementsSetHolds`), that it stays
balanced (`RedBlackHolds`), that searches, next and
previous find what they should in the middle of a rebalancing too (`SearchesExactHolds`),
and that a scan misses nothing, whatever its callback does (`ScanCompleteHolds`).
The model's operators are recursive functions along links, of which nothing can be said
unless the links form a tree; so the invariant starts from what does not recur. `B` gives
each node the set of nodes below it: it satisfies the equation of a tree at every node
(`Subtrees`), and what is below a side has keys on that side (`Sorted`). From the sizes
of these sets comes induction over the tree, upward and downward, and with it that the
recursive functions satisfy their equations (`Recursion`) and are what they should be
(`BelowIs`, `FindIs`, `NFindIs`, `FurthestIs`, `ClimbIs`, `NeighbourIs`). The operators on links are
proved to be relations between the fields before and after (`Rotated`, `GraftedAs`, `Cut`, `Taken`),
and each relation to lead from one tree to another with the sets below its nodes as
expected (`RotateShape`, `GraftShape`, `CutShape`, `TakenShape`): a removal of a node with two
children is the last and a cut in succession. `Inv` says that there is such a `B`, and adds
where the rebalancing stands (`FixAt`) and what the scan has passed (`ScanAt`).

`RedBlackHolds` is about the balance, which `Inv` does not mention, and has an invariant of
its own. `Leveled` says that some `H` gives each node its black height, such that each
node is one black node, or none, above each of its children (`Levels`), but for the one
place, named by `fix`, where the loop of `RB_REMOVE_COLOR` has a black node lacking; and that
a red node has a red child only where `fix.elm` is concerned (`Calm`; `Poised` is both).
Each step of the loops has a lemma that gives the next `H`, which differs from
the last in the two or three nodes the step touches (`RedUnclePoised`, `InnerNephewPoised`,
`OuterNephewPoised`...); `RotateLevels` and `RotateCalm` are what the two rotations share. A
removal again is a cut and, for a node with two children, a replacement
(`CutPoised`, `TakenPoised`). Then `RedBlack` follows: the sets of `BlackHeights` are singletons (`OneHeight`);
a lacking black node's sibling has black height one at least, so it is no null pointer
(`NoneNull`); and the bound on the height comes from two inductions over the tree
(`HeightIs`): a node with black height k has at least 2^k - 1 nodes below it, and a height of at
most 2k, one more if it is red. As the provers know no `^`, `Full` is two to the height by a
recursion of its own, and powers are functions that double (`Powers`, `Squares`).

Only model-checked: the liveness properties (`ShutdownReleases`, `CancelledCalledBack`,
`RebalancingEnds`, `EventsHandled`, `FreedAtExit`, `Served`), since the prover has no rule for
fairness. Every other property of the passing runs is stated by a theorem, with the
assumptions on the program given above.

Induction theorems with an operator as a parameter cannot be used by the provers
installed; where these proofs need induction over data, they take a least element of a
set of counterexamples (`WFMin`), and keep the definition of that set hidden.

## 5. Plan

In this order, the modules already written first:

1. `ObjectMap`, `Udata`, `UdataProofs` (done).
2. `ObjectTypes`, `ObjectTree`, `Lifecycle` (done).
3. `TransferProtocol`, `Transfers`, `TransfersProofs` (done).
4. `DataHandling`, `Flatten`, `ControlSetup` (done).
5. `ByteArrays`, `HostMem`, `HostMemProofs` for bounds and blocks (done).
6. `Emulator`, `EmulatorProofs` (done).
7. `OrderedSet`, `RedBlackTree` (done).
8. `Hotplug`, with the event lock, `HotplugProofs` (done).
9. `EnumNames`, `Enums`, `Requests` (done).
10. `LifecycleProofs`, `ConversionsProofs` for `Requests` and `DataHandling`, `RedBlackTreeProofs` with the balance of the tree; in `HostMemProofs`, the refinement of
    `ByteArrays` (done).
11. `ConversionsProofs` for `Enums`, `ControlSetup` and `Flatten` (done).
12. `LogCallback`: creation of objects in log callbacks.

Not modelled:

- formatting and decoding in Lua (`moonusb/utils.lua`, `moonusb/bosdescriptors.lua`), tracing,
  clocks, the registration of functions in `main.c`: straight-line code without state;
- checks of argument lists in `utils.c`: they raise before anything is changed.
  `copytable` tests the type of the key where its comment means the value
  (`src/utils.c:239`), so that nested tables are shared, which no module shows;
- conversions of floating point numbers and of seconds: TLA+ has no such numbers;
- `LogCallback` while `libusb_exit` runs: the context's userdata is gone by then, and the
  callback raises "unexpected" through libusb (`src/context.c:77`);
- the splay trees of `tree.h` and the code under `#if 0`: not compiled;
- `compat-5.3.*`: third-party, and empty for Lua 5.3 and later.
