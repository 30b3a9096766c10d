# Verification of lorawan_api

TLA+ models, TLC runs and TLAPS proofs about the LoRaWAN socket API for Apache
Mynewt (`src/lorawan_api`) and the board layer under its MAC
(`src/lorawan_wrapper`). File names and line numbers below are those of the
repository.

## 1. The system

    application tasks (prio 100, 101, ...)        LoRaWAN task "lw_eventq" (prio 10)
      lorawan_socket / bind / recv / send / close    os_eventq_run(os_eventq_lorawan)
          |            |                                 |            |
          v            v                                 v            v
      l_sock_list   LoRaMAC (external) <---------- timer callbacks  DIO handlers
          ^            |   _mcps_indication              ^            ^
          |            v                                 | callouts   | tokens
          +---- os_eventq_put on a socket's queue     timer.c      gpio-board.c
                                                         ^            ^
                                                    tick interrupt  pin interrupts

| Component | Source | State | Operations |
|---|---|---|---|
| Sockets | `lorawan_api.c`, `lorawan_api_private.h` | list of `struct sock_el` (id, address, 256-bit port set, event queue), `sock_cpt` | `lorawan_socket`, `lorawan_bind`, `lorawan_recv`, `lorawan_close`, two lookups |
| Downlink dispatch | `lorawan_api_private.c` | the MAC's one `McpsIndication_t` | `_mcps_indication`; the three other callbacks print |
| Sending | `lorawan_api.c:111` | each socket's `mcps_req` | `lorawan_send` |
| Configuration | `lorawan_api.c:146`, `:193`, `:310` | the MAC's MIB | ABP, OTAA, `lorawan_get_devAddr_unicast` |
| Multicast | `lorawan_api.c:320`, `:345` | the MAC's linked list of groups | add, remove |
| Start | `lorawan_api_private.c:132-163`, `board-utils.c:59` | the LoRaWAN task and its queue | `lorawan_init`, `lorawan_api_private_init`, choice of a region |
| Timers | `timer.c`, `queue-board.c` | list of timers, `TimerEvent_t`, callouts, event queue | `TimerInit`, `Start`, `Stop`, `SetValue`, `Reset`, two clocks |
| List of sockets | `lorawan_api.c`, `lorawan_api_private.c:38-77` | `l_sock_list`, pointer by pointer | insertion, removal, walks |
| GPIO | `gpio-board.c`, `gpio_struct_init` of `board-utils.c` | `Gpio_t` objects, 16 handler lines, tokens | init, set and remove interrupt, read, write, toggle |
| Interrupt masks | `board.c` | the radio's masked pins | disable, enable |
| Radio boards | `sx126x-board.c`, `sx1272-board.c`, `sx1276-board.c`, `spi-board.c` | Nss, BUSY, operating mode, antenna switch, `PADAC` | commands, registers, buffers, reset, wake-up, power |
| Utilities | `utilities.c`, `delay-board.c` | random state | rounding, random range, reversed copy, delay |
| Test application | `src/apps/test_lorawan_api` | | a sending and a receiving thread |
| External | LoRaMAC-node (empty submodule), Mynewt | | modelled from how the code uses them |

What is hard here. The API takes no lock: every call of an application task can
be preempted between two accesses to shared state by a task of higher priority
and by the LoRaWAN task, which runs the MAC's callbacks. Reception is a
hand-off between tasks (a queue, a sleeper, a timeout) through one structure of
the MAC that is filled again for every downlink. Timers are a hand-off between
a tick interrupt, an event queue and two kinds of callers, with a flag
(`IsRunning`) that nobody clears on expiry. Calls are made of several requests
the MAC may refuse midway. Counters and clocks wrap.

What makes each component correct:

- Sockets: an id names one socket; a couple address/port belongs to one socket; a bind that was granted stays; no element
  is freed under a call; an open socket's queue holds what was bound.
- Reception: no task sleeps beside an event; a wait with a timeout or an event
  ends; a downlink is read once, in order, by one task, and its packet whole unless
  a later one came meanwhile.
- Sending, configuration, multicast: the MAC is handed one caller's request
  unmixed; a refused step leaves a state the caller can tell; an address is in
  the multicast list at most once and its element is freed once.
- Timers: after a stop no callback; after a start exactly one, when the timeout
  has passed and not before; a callout in use is never reinitialised.
- List: whatever half-done change a walk meets or is preempted by, it stands on
  allocated elements, finds what is open and ends.
- GPIO: each interrupt reaches the handler of its own pin, and none is forgotten
  under a mask.
- Radio: a command is heard whole by a chip that listens, after any sequence of
  sleeps, wake-ups and resets; registers and buffer are a memory; the antenna
  switch and the amplifier follow the requests.
- Start: nothing is posted to a queue that is not there; a region is found.
- Arithmetic: elapsed time across the wrap, rounding, random range.

PROJECT.json lists every hazard with its line and the properties that cover it.

## 2. Modules

| Module | What it is |
|---|---|
| `LorawanSocket` | sockets and downlink dispatch |
| `SocketTable` | what `lorawan_api.h` promises of the sockets, abstractly |
| `MCLorawanSocket` | its instances for TLC |
| `LorawanSocketProofs` | types and pointers, for every caller |
| `SocketReceptionProofs` | reception |
| `SocketTableProofs` | ids and binds, and the table that the sockets implement |
| `BoardTimer`, `MCBoardTimer` | timers, callouts, the LoRaWAN event queue |
| `BoardTimerProofs` | timers |
| `LorawanRequests`, `MCLorawanRequests` | sending, configuration, multicast groups |
| `LorawanRequestsProofs` | the same |
| `SocketList`, `MCSocketList` | the list under the sockets, pointer by pointer |
| `SocketSet` | what the list promises: a set |
| `SocketListProofs` | the list |
| `BoardGpio` | objects, pins, handler lines, tokens, interrupt masks |
| `Sx126xBoard` | the SX126x board's functions, its bus and the chip |
| `Sx127xBoard` | the SX1272 and SX1276 boards' functions |
| `RadioBoard`, `MCRadioBoard` | start-up, the radio's task, interrupts, the LoRaWAN task and the chip composed |
| `RadioMemory` | what the SX126x board's register and buffer functions promise: a memory |
| `BoardUtilities` | `utilities.c`, as operators |
| `BoardProofs` | start-up, amplifier, random numbers, types, and the memory that the SX126x board implements |
| `RadioBoardProofs` | pins and handlers, frames, writes, antenna switch |

### LorawanSocket

A call of an application task is a sequence of steps, one per access to shared
state, with the call's locals in `call[t]`. An application task takes a step
only while every task of higher priority is idle or asleep (`Runs`). The
LoRaWAN task has the highest priority of all, so `_mcps_indication` is one step
that may come anywhere.

| Code | Actions |
|---|---|
| `lorawan_socket` | `SocketAlloc` (malloc, memset, read of `sock_cpt`), `SocketInsert` (increment, queue, insertion) |
| `lorawan_bind` | `BindLookup`, `BindAddr`, `BindCheck` (address, port 0, lookup of the couple, read of `ports[slot]`), `BindPort` (write) |
| `lorawan_recv` | `RecvLookup`, `RecvPoll`, `RecvTimeout` and `RecvAwake` (the sleep in `os_eventq_poll`), `RecvHeader`, `RecvPayload` |
| `lorawan_close` | `CloseCheck`, `CloseFree` |
| `_mcps_indication` | `IndicationPosted`, `IndicationDropped` |

Abstractions. The list is a set of heap cells; a lookup may return any match,
and there is one match at most where ids and couples are unique. A payload is a
sequence number. A timeout is one of three outcomes: no tick, some ticks,
forever (`timeout_ms` 0 is forever, `lorawan_api.c:281`). Calls that return an
error without changing anything are stuttering. `lorawan_recv` also copies the
indication to `sock_el->mcps_ind` (`lorawan_api.c:300`), which nothing reads; it
is left out.

Two constants state what the callers do, so that each result says what it needs:

- `Serialised`: no call starts while another task is inside `lorawan_socket`,
  `lorawan_bind` or `lorawan_close`. Receptions and downlinks still interleave
  freely: a caller cannot hold a lock around a `lorawan_recv` that blocks.
- `OneReceiver`: one `lorawan_recv` at a time on a socket. The code says that
  it does not enforce it (`lorawan_api.c:261`).

Of the MAC nothing is assumed. The code hands every reader a pointer to the MAC's
one `McpsIndication_t`, which the next downlink fills again, and says so itself
(`lorawan_api_private.c:104`). So the promise of `lorawan_api.h:134` is false, which
`StaleIndication` shows, and what holds is `RecvPacketUnlessOverwritten`.

In every run the warning of `lorawan_close` is respected (`lorawan_api.h:83`): no
action is in progress on the socket that is being closed.

### SocketTable

Ids used so far, open ids, couples bound, and an inbox per id; actions Create,
Bind, Deliver, Receive, Close. `LorawanSocket!ImplementsSocketTable` maps the
list to it: a couple is bound from `BindPort` on, a socket open from
`SocketInsert` to `CloseFree`, an inbox is the socket's event queue.

### BoardTimer

Each timer is its `IsRunning` and `ReloadValue`, a callout that may be on
Mynewt's list with an expiry time, and an event that may be on the LoRaWAN event
queue. `Enter` starts a call; `Test`, `Stop`, `Halt`, `Clear` are the tests of
`IsRunning` in `TimerStart` / `TimerSetValue` and in the `TimerStop` they call,
`os_callout_stop`, and the reset of the flag; `CalloutInit`, `CalloutReset`,
`Flag` end `TimerStart`; `SetReload` ends `TimerSetValue`. `Tick` is the tick
interrupt, which moves expired callouts to the event queue between any two
steps; `Dispatch` is the LoRaWAN task running an event. What a callback does is
the calls the LoRaWAN task then makes. A second `TimerInit` of a timer leaves
its caller in the endless loop of `timer.c:86`.

The clock is `now`, modulo `TimeMod`, and expiry is Mynewt's signed comparison.
`lease` and `since` are history: what the last call asked for, and the ticks a
pending timer has waited. The model assumes that a timer is in the hands of one
task at a time (`Free`), which is the MAC's to guarantee; the code has no lock.

The order of the events in the queue is not kept: any queued event may be next,
and fairness of `Dispatch` stands for first in, first out.

### LorawanRequests

The calls that hand requests to the MAC. The MAC answers each request OK or not:
it refuses while it transmits, and the LoRaWAN task may begin or end that between
any two requests of a call, so every answer is free. A call is cut at its requests
and at its writes to the socket's one `mcps_req`; the tasks preempt each other by
priority.

| Code | Actions |
|---|---|
| `lorawan_send` | `SendEnter`, `SendFill` (one field of `mcps_req` each), `SendRequest` |
| `lorawan_configure_ABP`, `_OTAA` | `ConfigureEnter`, `ConfigureSet` (one MIB request each; a request after a refused one is still made) |
| `lorawan_multicast_add` | `AddEnter` (malloc), the remove it calls, `AddLink` (with the free when it is refused) |
| `lorawan_multicast_remove` | `RemoveEnter`, `RemoveFind`, `RemoveUnlink`, `RemoveFree` |

A field of a request and a setting of the MIB hold the call's argument they came
from, which is what the properties tell apart. `frame`, `configured` and `member`
are history: the request the MAC accepted last, the last configuration that
returned OK, the groups added with OK. The list of groups is a set; a search may
find any element of the address. `Serialised` means that no two sends on one
socket, no two configurations and no two multicast calls overlap; calls of
different kinds do.

Left out: the request for class C (compiled with `CLASS_C_ENABLE` only, its status
is printed and not returned), confirmed sends (no code sets `type`, so the branch
is never taken), the lookup of the socket (in `LorawanSocket`), and calls that
return an error before changing anything. The MAC is taken to copy the payload
when it accepts a request: `lorawan_send` leaves only a pointer to it.

### SocketList

`LorawanSocket` takes the list for a set and a lookup for one step. `SocketList` is
what allows it: one step reads or writes one pointer of `l_sock_list`, and a task is
preempted between any two.

| Code | Actions |
|---|---|
| `lorawan_socket` | `Socket` (malloc, id), `Link` (the two writes of `SLIST_INSERT_HEAD`) |
| every function that looks a socket up | `Enter` (reads the head), `_lorawan_find_el` (one element each), `Found` |
| `lorawan_close` | the walk, then `Remove`, `Unhead` or `Seek` and `Cut` (`SLIST_REMOVE`), `Free` |

A cell that was freed keeps its contents until malloc gives it again. What a walk
compares is an id, for `lorawan_find_sock_by_params` too. `Careful` is a discipline
of the callers: they change the list one at a time, and close no socket while a
task is in a call on any; the documentation asks for less (see `WalkFreed`). Walks,
and the LoRaWAN task's, interleave with half-done changes even so.
`SocketSet` is the abstract specification: `ImplementsSet` says that each step
leaves the set of ids on the list alone, adds one or takes one away.

### RadioBoard

A function of the board is a sequence of calls (`todo`), and each step of the task
that drives the radio makes one: a write to a pin, a byte on the bus, a mask, a
wait. Between two of them an edge may come on any interrupt pin (`Interrupt`), the
LoRaWAN task may run a token (`LorawanTask`) and the chip may end its work (`Chip`).
`BoardGpio` and the two chip modules give the sequences, named as in the code, and
what each call does. The image is built for one radio, chosen by `Init`.

| Code | Definitions |
|---|---|
| `lorawan_init`, `lorawan_api_private_init` | `todo` of `Init`; `StepStart`, `StepMac` |
| `GpioInit`, `GpioWrite`, `GpioSetInterrupt`, ... | `StepGpio` through `GpioCall` |
| `post_token`, `wrapper` | `Edge`, `RunToken` |
| `BoardDisableIrq`, `BoardEnableIrq` | sequences of `mask` and `enable` calls |
| `SX126xWakeup`, `SX126xWriteCommand`, `SX126xReadRegisters`, ... | sequences; `StepByte`, `StepWait` |
| `SX1276SetAntSwLowPower`, `SX1276SetAntSw` (and the SX1272's) | `StepLowPower`, `SetAntSw` |
| `SX1272SetRfTxPower`, `SX1276SetRfTxPower` | `SetPower` |

The chip is external and is what a driver sees of it: it hears a frame between a
fall and a rise of Nss, raises BUSY while it works and while it sleeps, does not
hear a frame that starts while BUSY is up, and is woken by the fall of Nss. Its
registers and its buffer are a memory, which a reset leaves with any contents. `RadioMemory`
says the same of what the driver sees: a write changes the cells it names, a read
returns what they hold, and the contents change otherwise only as the chip is put in
reset or while it is held there (`Reset`, `Release`, `held`). `Seen` and `Got` are the refinement mapping: the
memory with a write that has begun counted as done, and the bytes of a read once it
is over. The radio driver
is external too: it calls the functions of the board in any order, one at a time,
after the initialisation that `LoRaMacInitialization` makes; before a command it wakes a
chip it has put to sleep (`StepCheck`). An edge under a mask is latched by the
hardware, or lost; both happen.

Of `PACONFIG` the model has the output selected, `MaxPower` and the four bits of the
power, of `PADAC` the +20 dBm field, which `SetRfTxPower` leaves as it was when the
output is RFO. `sx1276-board.c:159` sets `MaxPower` to 7 in every request;
`sx1272-board.c` has no such line and its chip no such field. What a register setting
emits (`Emitted`, `Reachable`) is the chips' and external: on the RFO the SX1272
gives `output - 1` dBm and the SX1276 `Pmax - (15 - output)`, where `MaxPower` 7 makes
`Pmax` 15. `sx1276-board.c:206` still writes `power + 1`, as for the SX1272, so the
SX1276's RFO emits 1 dB more than it was asked for; `PowerFollowsRequest` says
that, since it is what the code does, and that every other request gives the nearest
power in reach. `Call` names are strings; a byte is a member of a small set, or a command's
name; an address is split into its two bytes as in the code.

`BoardUtilities` has the random numbers, copies and rounding of `utilities.c`, with the
integers' width as a constant; `UtilitiesAreRight`, an assumption of `MCRadioBoard`
that TLC evaluates, compares them with their definitions on integers of four bits,
areas of six bytes and quotients up to 24. It is an assumption and not a run's
property because it is about no state. `DelayMs` spins on `os_time_get() - current < ms`
(`delay-board.c:27`), a difference of its own; in `RadioBoard` it is a step that
ends at some time.

## 3. Runs

| Run | Question | Bounds |
|---|---|---|
| `SocketSerial` | do ids, binds, queues and pointers stay right in serialised use, is each downlink read once and in order, and its packet whole unless overwritten? | 2 tasks, 2 cells, 2 addresses, ports 0, 1 and 2, 2 sockets created, 2 downlinks |
| `SocketTableRefined` | is serialised use one of the abstract table, does no task sleep beside an event, and does a wait end? | 2 tasks, 2 cells, 2 addresses, 1 port, 3 sockets, 2 downlinks |
| `TimerBoard` | is a stopped timer silent, a started one armed, on time and intact, does it call back, and is elapsed time right across the wrap? | 2 tasks, 1 timer, clock of 8, timeouts 0, 1, 3 and two refused |
| `MacRequests` | are requests unmixed, configurations whole, and groups and their memory kept, whatever the MAC refuses? | 2 tasks, 2 sockets, 2 cells, 2 addresses, 2 arguments, 3 calls, serialised |
| `ListWalk` | is the list, pointer by pointer, a set whose walks are safe, find what is open and end? | 3 tasks with the LoRaWAN task, 3 cells, 3 sockets, careful |
| `Board` | start-up, interrupts, frames, memory, antenna and amplifier, and does every call return? | 3 radios, 1 token, 2 registers across an address byte, 1 byte of buffer, accesses of 0, 1 and 2 bytes, 6 powers, 2 channels |
| `RaceBind` | can a couple be bound twice? (yes) | 2 tasks, not serialised |
| `CloseRace` | can a close lose an event? (yes) | 1 task, 1 downlink |
| `StaleIndication` | can a packet be overwritten? (yes) | 1 task, 2 downlinks |
| `GroupTwice` | can an address be in the list twice? (yes) | 1 task, 2 calls |
| `WalkFreed` | can a walk stand on a freed element? (yes) | 3 tasks, 3 cells, not careful |
| `RegionLost` | can start-up choose a region the image lacks? (yes) | one region, US915_HYBRID |

Why the bounds are enough: every interference is between two calls, or a call
and the LoRaWAN task, on one or two sockets, and a second couple or port shows
what a lookup mixes up. `SocketTableRefined` creates three sockets on two cells,
so one uses a freed cell again; in `SocketSerial` the second of two may. The proofs
cover all values. `SockMod` stands for 2^32 and
`MaxCpt < SockMod` for a program that creates fewer sockets than that.
The counter starts at 1, so `MaxCpt - 1` is the number of sockets created; `MaxRx` is
the number of downlinks. `MaxCalls` bounds
the calls of `LorawanRequests`: three, so that a call that was refused midway is
followed by another while a third is in progress. The clock of
`BoardTimer` needs no bound: it wraps. Its one timer is enough because the timers
share only the clock and the event queue, from which the model takes any event, and
because the theorems hold for any number of timers.

Three elements are the shortest list with one before and one behind the element
being removed, and three tasks the fewest in which a walk is preempted by a change
that a second walk preempts. In `Board` one token waits at a time (`MaxTokens`): a
token only shares a handler line with its own pin's calls, which one token meets at
every step. Addresses 255 and 256 are on either side of the carry into the second
byte of an address. The powers are at, between and beyond the ends of the two scales
of the amplifier. The pins are spread over four ports, and a pin that is not
connected is among each radio's. Deadlock is checked in `Board`, which never stops,
and not elsewhere: a program whose sockets and downlinks are used up stops.

Fairness. `LorawanSocket`: the tick interrupt comes, so a sleeper whose timeout
has passed is made ready (weak fairness of `RecvTimeout`); a ready task runs in
the end because the tasks above it sleep between their calls (`tx_thread.c:44`), so
it is enabled again and again (strong fairness of `Step`). `BoardTimer`: the
clock ticks; the LoRaWAN task, which no task preempts, finishes its calls; and a
queued event is taken (strong fairness of `Dispatch`, since the LoRaWAN task
returns to its queue after each handler and the queue is first in, first out).
`SocketList`: nothing preempts the LoRaWAN task, so its steps are taken (weak
fairness of `Step(Lw)`); of the others nothing is assumed. `RadioBoard`: the task
that drives the radio and the LoRaWAN task get the processor, and the chip ends what
it is doing (weak fairness of `Step`, `LorawanTask`, `Chip`); no edge and no call of
the driver is promised.
No fairness is assumed of application tasks in `BoardTimer`, nor that they call,
and none in `LorawanRequests`, which has safety properties only.

Violations. Each is a sentence of the repository that the code does not keep:

- `RaceBind`: "A devAddr/port couple can be binded to only one socket"
  (`lorawan_api.h:126`); the lookup and the setting of the bit are apart.
- `CloseRace`: "Check that the event queue is empty before delete it"
  (`lorawan_api.c:93`); a downlink comes between the check and the free.
- `GroupTwice`: "Remove the devAddr from the list, if it is present"
  (`lorawan_api.c:334`); the status of that remove is not looked at (`:335`), so a
  MAC that refuses it and accepts the link has the address twice.
- `StaleIndication`: "payload fields will be filled with the received data"
  (`lorawan_api.h:134`); all events point to one structure.
- `WalkFreed`: "be sure that no actions are in progress on the socket"
  (`lorawan_api.c:82`) is not enough: a call on another socket may be standing on the
  element that is freed.
- `RegionLost`: the build is refused when it has none of ten regions
  (`utilities.c:25-36`), but `lorawan_get_first_active_region` looks at nine
  (`lorawan_api_private.c:134`): an image with US915_HYBRID alone is built, and its
  start-up assertion (`:153`) fails.

Without the disciplines the same models also show two sockets with one id
(`lorawan_api.c:67`, read and increment of `sock_cpt` apart), a granted port lost
(`lorawan_api.c:249`, `|=` on a word another bind is changing), a couple held
twice after a bind to address 0 (`lorawan_api.c:232`, where 0 means that the socket
has none), a receiver asleep beside an event (two receivers, one `evq_task`), a
socket lost from the list (two insertions at once) and,
when `sock_cpt` wraps, an open socket with id 0. Each is listed as a hazard, with a note
where a discipline keeps it out of the run whose property is about it.

Hazards without a property: two receivers on one socket (`lorawan_api.c:288`,
excluded by `OneReceiver`), the wrap of `sock_cpt` (`lorawan_api.c:68`, excluded by
`MaxCpt < SockMod`), the second `TimerInit` of a timer loops for ever
(`timer.c:86`; the loop is a state of `BoardTimer`), milliseconds taken for ticks
(`timer.c:154`), the overflow of a timeout in ticks (`lorawan_api.c:284`), two interrupt pins
with one handler line (`gpio-board.c:100`, excluded by `PinAssumption`), and `ceil` and
`floor` below zero (`utilities.c:115`, where they are wrong; `RoundingIsRight` is about the others).

## 4. Proofs

Proved for all tasks, priorities, cells, addresses, ports and bounds:

| Theorem | Assumes | Statement |
|---|---|---|
| `TypeCorrect` (in `LorawanSocketProofs`) | | `[]TypeOK` |
| `PointersValid` | | `[]NoUseAfterFree` |
| `RecvPacket` | | `[]RecvPacketUnlessOverwritten` |
| `EventsInOrder` | | `[]EventsOnceInOrder` |
| `WakeupKept` | `OneReceiver` | `[]NoLostWakeup` |
| `UniqueIds` | `Discipline` | `[]UniqueSockId` |
| `BindsExclusive`, `BindsKept`, `QueuesMatch` | `Discipline` | the three invariants on binds |
| `TableImplemented` | `Discipline` | `ImplementsSocketTable` |
| `TypeCorrect` (in `BoardTimerProofs`) | | `[]TypeOK` |
| `StoppedSilent`, `StartedArmed`, `CalloutsIntact` | | `[]StoppedIsSilent`, `[]StartedIsArmed`, `[]CalloutIntact` |
| `TimersOnTime`, `ElapsedRight` | | `[]OnTime`, `[]ElapsedAcrossWrap` |
| `TypeCorrect` (in `LorawanRequestsProofs`) | | `[]TypeOK` |
| `RequestsUnmixed`, `ConfigurationsWhole` | `Serialised` | `[]RequestUnmixed`, `[]ConfiguredWhole` |
| `MulticastMemorySafe`, `GroupsStay` | `Serialised` | `[]MulticastMemory`, `[]GroupsKept` |
| `TypeCorrect` (in `SocketListProofs`) | `Careful` | `[]TypeOK` |
| `WalksSafe` | `Careful` | `[]WalksAllocated` |
| `ListStaysWellFormed`, `OpenFound` | `Careful` | `[]ListWellFormed`, `[]OpenSocketFound` |
| `ListIsSet` | `Careful` | `ImplementsSet` |
| `HandlersAreOwn` (in `RadioBoardProofs`) | | `[]HandlersMatchPins` |
| `WritesAreToBoard` | | `[]WritesReachBoard` |
| `FramesAreHeard` | | `[]CommandToReadyChip` |
| `SwitchFollows` | | `[]SwitchFollowsMode` |
| `QueueIsReady` (in `BoardProofs`) | | `[]QueueReady` |
| `PowersFollow` | | `[]PowerFollowsRequest` |
| `TypeCorrect` | | `[]TypeOK` |
| `MemoryImplemented` | | `ImplementsMemory` |
| `RandomInRange` | | `RandrInRange`, for every width of the integers |

`Discipline` is serialised use, no bind to address 0, and fewer sockets than ids.

The arguments:

- `TypeInv` (LorawanSocketProofs) is `TypeOK` with what a call's locals are at
  each step (`Locals`) and that a call's element is allocated, and linked unless
  the call is creating it (`Pointers`). `TypeOK` alone is not inductive: freeing
  a cell is only harmless because no other call holds it, which follows from the
  warning of `lorawan_close` and from the call's id being its element's.
- `ReceptionInv` (SocketReceptionProofs): the MAC's structure is the last downlink
  indicated; no event, queued or being read, is newer, and one as new is still equal to
  it (`Newest`). With it goes the order of the events: a downlink's number is above
  those of all before it, so a post keeps each queue in order, and a poll takes the
  oldest. The other steps neither post nor take (`Untouched`).
  `Registered`: a socket has one receiver at most, and a sleeper is its queue's
  `evq_task` and the queue is empty.
- `IdInv` (SocketTableProofs): ids of the list are below `sock_cpt`, except that
  of the one socket being created. `BindInv` carries a bind in progress: the
  couple it found free is still free, because nobody else binds meanwhile, and
  the word it read is still what the socket has.
- `TableImplemented` takes the two step by step: each action of `LorawanSocket` is one
  of `SocketTable`'s or changes nothing it shows. What a call decided on earlier reads
  is what the abstract step demands now because `IdInv` and `BindInv` carried it.

- `FlagInv` (BoardTimerProofs): nobody clears `IsRunning` on expiry, so what is
  true at rest is only one way round: a timer in use is running (`Rested`). Inside
  a call (`Called`) it holds until `os_callout_stop`; from there to
  `os_callout_reset` the timer is not in use, and before `IsRunning = true` it may
  be in use without the flag, or have called back already (`lease` is "shot").
  `StoppedIsSilent`, `StartedIsArmed` and `CalloutIntact` are its consequences.
- `ClockInv`: a callout that has waited s of its n ticks expires n - s ahead of
  the clock, modulo its range. Timeouts are below half the range, which makes
  Mynewt's signed comparison exact across the wrap (`Expiry`). A callout in use
  keeps its `ReloadValue` because `TimerSetValue` stops it first (`FlagInv`).

- `WellFormed` (LorawanRequestsProofs) says what a call's locals are at each of its
  steps, and makes `TypeOK` inductive. `Alone` is what `Serialised` gives at every
  later step: at most one send on a socket, one configuration, one multicast call.
  With it `SendInv` keeps the fields written so far, `ConfigInv` the settings
  accepted so far (two settings of one configuration differ, `RequestsDiffer`), and
  `GroupInv` that the element found is linked until it is unlinked, that it is not
  the one being added, and that a group being changed does not count as added.

- `IInv` (SocketListProofs) is about the set `InList` of the cells that are allocated
  and that no call is about to link or to free. It is closed under `sc_next`, no two
  of its cells point to one, none points to the first, and every walk stands in it
  (`ListInv`, `CallInv`). Nothing is said of the order of the list, so no induction
  is needed, and yet each write of an insertion or a removal can be shown to keep
  it. The other half is `Alone`: one call changes the list at a time, and a close
  that runs is the only call, because it began alone and whatever preempts it is over
  when it runs again; so no walk stands on the element that is freed.
- `Shape` (SocketListProofs) adds what `IInv` leaves out. The list from the head on is
  stated without recursion: `Linked` is the least set that holds `first` and is closed
  under `sc_next`. `Reach`: every closed set that holds `first` holds `InList`, so the two
  are the same (`LinkedIsInList`). `Ends`: no cells of it lead only to each other. `Ids`:
  two cells never have one id. `WalkInv`: the pointers lead a walk to the socket it looks
  for, whenever that was open when the walk began, past whatever is linked or cut
  meanwhile. An insertion and a removal keep each of these because a closed set of the
  state after is one of the state before, but for the cell that came or went.
- `StartInv` (BoardProofs): until the queue and its task are there, what start-up
  has still to do only names the bus and initialises pins before it creates
  them, and the MAC, which configures the first interrupt, comes behind both.
- RadioBoardProofs. What a function of the board has still to do is a variable, `todo`, so
  the invariants are about it as well as about the pins. `TodoInv`: every call follows one
  that it may follow (`Linked`: a byte only inside a frame, `irqInit` only after the store
  of the same pin's handler, `enable` only after `irqInit` or a mask, an antenna switch
  written only in SetOpMode); it is shown of each function, and that each step keeps it.
  From it: `PinsInv` (every object has its pin, or only initialisations come before its
  own), `IrqInv` (a line has its pin's handler, or the call to come is the one that puts
  it right), `IoInv` and `BusInv` (where Nss is and what the chip hears, at each place of a
  frame, asleep, waking and in reset), `AntInv127x` and `AntInv126x` (where the switch is at
  each call of a change of mode, and which call to come makes it right). None is
  inductive alone: `BusInv` needs `PinsInv` for a write to reach Nss, and the next call
  to be what `TodoInv` lets follow.
- `PowerInv`: the +20 dBm field is one of its two values whatever came before, and
  `BoostEmits` and `RfoEmits` make each request right from either: the code's bounds
  on the power are those of the scale, so what it keeps of a power out of reach is the
  nearest in reach (`ClampIsNearest`).

- `MemInv` (BoardProofs) is about an access to the chip's memory under way. `AccessLeft`:
  what is to do is the rest of the access's own frame and wait, after calls that read
  nothing, and `Place` is how far it is. `Progress`: what the bytes so far have done, that
  is the cells already written, the bytes already received, and the header that the chip
  has heard. `Harmless` and `Listened`: no other frame, to come or under way, is a write; outside an
  access no frame is. Each function is shown to start so, and each step to keep it. It
  needs `BusInv`, which says that the chip hears the frames it is sent.
- `MemoryImplemented` takes the board's steps one by one: a write maps to `Write` when its
  access begins, because `Seen` already shows what is left of it; a read maps to `Read`
  when its last call is done, because nothing has written since its first byte; the
  driver's next call maps to `Forget`, the pulses of the reset line to `Reset` and
  `Release`, and every other step to none.

The assumptions are those named in the modules that are extended. In `BoardTimer` they are
that the LoRaWAN task has the highest priority and that the clock's range is even and
above 3; that a timer is in the hands of one task at a time is a guard of the model.
`SocketListProofs` uses that no two tasks have one priority; the proofs about the
board that the radio is one of three, that a power is a signed byte, that a wired pin
has one use and an interrupt line one pin (`PinAssumption`), and that Nss, BUSY and Reset of an SX126x are
wired (`Sx126xAssumption`).

Every safety invariant and every action property of the passing runs, and the three
refinements, are stated by a theorem. Only model-checked are the liveness properties, which are out of
this prover's reach, and `UtilitiesAreRight`, of which `RandomInRange` proves the part
that needs no induction.

## 5. Plan

Done: the sockets and their list, the timers, the requests to the MAC, the GPIO, the
three radio boards, start-up and the utilities, each with its run; theorems about each.

Left:

1. A composition of `BoardTimer` and `BoardGpio` over the one LoRaWAN event queue, in
   the order of the queue.

Not modelled, and why:

- `lorawan_get_devAddr_unicast`, the callbacks that only print, functions that return a
  constant, `GpioToggle` and `SpiDeInit`, which nothing calls: no state, or no caller.
- The test application: it gives the runs their tasks and priorities.
- The MAC's protocol and the register-level settings of the radio: not in the
  repository (an empty submodule).
- Mynewt beyond what the code calls, printing, and the TCXO and class C code, which is
  compiled out.
- Two tasks in the radio driver at once, or in one timer: whether the MAC allows it
  is not decided here. The bus and the timers have no lock.
