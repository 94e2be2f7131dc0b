# Verification of the Arduino Spider L3S library

The library is a host driver for the TI CC3000 Wi-Fi chip on an AVR Arduino
(`src/`). This directory holds TLA+ models of it, the TLC configurations that
check them on small instances, and TLAPS proofs of what matters most for every
value of the parameters.

    cd tla
    tlc -config SpiLink_races.cfg MCSpiLink.tla
    tlc -config HciApi.cfg MCHciApi.tla
    tlapm SpiLink_proofs.tla

`PROJECT.json` lists the components, the runs with their properties, the source
lines of every definition, the findings, the hazards and the theorems.

## 1. The system

The program is one foreground thread, one interrupt (the falling edge of the
CC3000's IRQ line) and the chip. There is no scheduler and no timeout: everything
that waits spins.

| Component | State | Operations | Interacts with |
|---|---|---|---|
| SPI driver (`spider_spi.cpp`) | `sSpiInformation` (`ulSpiState`, packets), `WLAN_INT_STATUE_REG` (ENABLE, PROCESS, MISSED), pins CS, WLAN_EN, IRQ | `SpiOpen`, `SpiClose`, `SpiWrite`, `SpiFirstWrite`, `WLAN_IRQ_Handler`, `WlanInterruptEnable/Disable`, `SpiPauseSpi`, `SpiResumeSpi` | the chip over SPI and IRQ; calls `SpiReceiveHandler` from the handler |
| HCI rendezvous (`evnt_handler.c`, `hci.c`) | `tSLInformation`: `usEventOrDataReceived`, `usRxEventOpcode`, `usRxDataPending`, `pucReceivedData` | `hci_command_send`, `hci_data_send`, `SimpleLinkWaitEvent/Data`, `hci_event_handler`, `hci_unsolicited_event_handler`, `hci_unsol_event_handler` | the receive buffer shared with the handler; callbacks of the application |
| WLAN life cycle (`wlan.c`) | `tSLInformation` as a whole, the event mask | `wlan_start`, `wlan_stop`, connect, profiles, scan, SmartConfig | the driver and the rendezvous |
| Socket send path (`socket.c`) | `usNumberOfFreeBuffers`, `NumberOfSentPackets`, `NumberOfReleasedPackets`, `slTransmitDataError` | `send`, `sendto`, `HostFlowControlConsumeBuff` | free-buffer and failure events in the interrupt |
| Socket API (`socket.c`) | the chip's sockets | `socket`, `bind`, `listen`, `accept`, `connect`, `select`, `recv`, options | one command and one answer each |
| Socket status (`evnt_handler.c`) | `socket_active_status` | `set/get_socket_active_status`, `update_socket_active_status` | the foreground and the interrupt |
| Spider_L3 (`Spider_L3.c`) | flags of the connection, DHCP, SmartConfig, ARP, shut down | `Spider_begin`, `Spider_close`, `Spider_Connect`, `Spider_Disconnect`, `Spider_SmartConfig` | the callback `Spider_AsyncCallback`, in the interrupt |
| NTP client (`NTP.c`) | a socket, the time of the last answer | `NTP_begin`, `NTP_get_time` | the socket API, the ARP flag of Spider_L3 |
| Web client, web server | a socket or two each, parser state | a request; a response | the socket API |
| NVMEM, netapp | none | one command each; a patch in portions | the rendezvous |
| Security (`security.c`) | the expanded key | `aes_encrypt`, `aes_decrypt` | `wlan_smart_config_process` |
| Byte streams, headers | none | conversions; types and numbers | everything |

What is hard here, and what the properties are about:

- **Interleaving.** The driver, the receive buffer, the credits and the socket mask
  are shared with an interrupt that may come between any two instructions, and
  `|=`, `&=`, `--` on variables wider than the instruction are a load and a store.
- **Nesting.** `WlanInterruptEnable` calls the handler in the foreground, where the
  interrupt can be taken inside it.
- **Ordering.** An answer may arrive before the wait for it has begun; unsolicited
  events come between a command and its answer.
- **No timeouts.** One lost edge, event or credit blocks the program for ever.
- **Partial failure.** The failure of a send is an event that arrives after `send`
  has returned, or instead of the completion it waits for.
- **Restart.** `wlan_stop`/`wlan_start` reset some of the state and not all of it.

What makes each part correct: packets are delivered once and under the SPI
protocol, none is overwritten or dropped, no request is forgotten, every call
returns (driver and rendezvous); credits match the chip's buffers, the end of
transmission is reported when and only when it is so, marks of sockets are
lost by nobody (send path and status); a callback's flags describe the
connection they are read for (Spider_L3); each call decodes the answer the chip
gives to it (API); the calendar is right (NTP); every socket opened has one owner until it
is given to `closesocket` (clients).

## 2. Modules

From the wire up; a module uses the ones above it only where the table says so.

| Module | What it is |
|---|---|
| `SpiLink` | driver, rendezvous, `wlan_start`/`wlan_stop` and the chip's side of the link |
| `HciCall` | abstract specification: what the link promises the API functions |
| `SpiLinkInv` | its inductive invariants, region by region, and the windows by name |
| `SpiLink_proofs` | types, the driver at rest, the receive buffer, for every timing |
| `SpiLinkSafe_proofs` | the bus, the driver's transitions and the refinement of `HciCall` for a prompt release |
| `SpiLinkWindows_proofs` | what holds outside each window |
| `MCSpiLink` | race windows as values for `QuietAt` |
| `FlowControl`, `FlowControl_proofs` | credits, packet counters, transmit failures, socket mask; theorems |
| `MCFlowControl` | values for `Masked` |
| `Opcodes` | the numbers of commands and events |
| `HciCommands`, `SocketCommands`, `WlanCommands` | every function of the API as a record: arguments, event, object, result (the last also for netapp and nvmem) |
| `HciApi`, `HciApi_proofs` | a call over those: dispatch and decoding of events, waits, results; theorems |
| `MCHciApi` | the calls with lengths at the ends of their ranges |
| `SpiderL3`, `SpiderL3_proofs` | `Spider_L3.c` against the device's events and the restart; theorems |
| `Connection` | abstract specification: what its flags promise a sketch |
| `Sockets` | descriptors of the device, `socket_active_status` and the one transmit error |
| `WebServer`, `WebClient`, `NtpClient` | the programs above, each EXTENDS `Sockets` |
| `Clients`, `MCClients` | their composition, two at a time |
| `ClientsInv`, `Clients_proofs` | its inductive invariants; theorems, with any of the programs |
| `NtpCalendar` | the date and the zone, against a reference calendar |
| `NvmemPatch` | `nvmem_write_patch` |
| `HciPatch` | `hci_patch_send` |
| `Aes` | AES-128, against the standard's substitution and vectors |
| `SmartConfigKey` | `wlan_smart_config_process` |
| `RequestParser` | `WebServer_process_request` |
| `Units_proofs` | theorems about all six of them |
| `MCUnits` | the six above as one specification, one unit at a time |

### SpiLink

`pc` is the label of the foreground, `ret` the stack of labels to return to; one
action is one access to the shared state. A read-modify-write of
`WLAN_INT_STATUE_REG` is `FlagLoad` and `FlagStore` with the value in `tmp`.

| Labels | Code |
|---|---|
| `dis`, `en`, `en_missed`, `en_pin`, `en_clr` | `WlanInterruptDisable`, `WlanInterruptEnable` (`spider_spi.cpp:147-162`), also as `SpiPauseSpi`, `SpiResumeSpi` |
| `irq` ... `irq_done` | `WLAN_IRQ_Handler` called by `WlanInterruptEnable` |
| `sw` ... `sw_wait` | `SpiWrite`, `SpiFirstWrite` |
| `arm`, `arm_d` | `SimpleLinkWaitEvent`, `SimpleLinkWaitData` |
| `wt`, `wt_parse`, `wt_res`, `wt_exit` | the loop of `hci_event_handler`; `WaitPatch` answers a patch request |
| `off`, `ws*`, `st_pin`, `cl`, `stopped`, `app` | `Spider_begin`, `wlan_start`, `wlan_stop`, `Spider_close`, the application between calls |

`IrqHandler` is the interrupt: one step, because on an AVR it runs with
interrupts off, and ahead of every foreground step (`At` requires `~edge`).
`edge` is the flag of the pin: it latches one falling edge and no more. Its five
actions are the branches of `WLAN_IRQ_Handler`.

The chip is modelled from how the driver uses it: it lowers IRQ when it is ready,
to grant a write that CS asks for, and to offer a packet; it takes or gives one
packet per request; IRQ rises after CS has. `served` says that the request IRQ
signals has had its transfer. Packets are values (`reply`, `patch`, ...), since the
order and the kind are what the driver's control depends on. An `async` event
is one that `hci_unsol_event_handler` handles (it returns 1); every
API command is one `CMD`, except `recv`, which waits a second time for data, and
the sends, whose completion is never dropped (`FlowControl`).

`unsent` counts the packets given to `SpiWrite` minus those the chip got. It is
the only history variable.

### HciCall

`down -> sending -> executing -> answered -> ready`, with `answered -> sending` for a
call of several packets (`wlan_start`, a patch request). The mapping is `Phase` in
`SpiLink`. `LinkSafe` says the steps of the link are steps of this machine
or stutter: a packet is not handed over twice, a call does not return before the
device has answered. `LinkFair` adds the progress.

### FlowControl

The foreground steps through `HostFlowControlConsumeBuff` and `simple_link_send`
(`err`, `clr`, `act`, `free`, `dec`, `dec_w`, `count`, `xmit`, `arm`, `wait`) and
through `set_socket_active_status` (`set`, `set_w`). The events that touch the same
variables (`FreeBuff`, `SendOk`, `SendFail`) are handled in the interrupt between
any two of them, at labels not in `Masked`. A completion without a failure is the one
event that is kept whether or not it is awaited (`Keep`), and holds up every other
until `TakeCompletion`. The link below is taken as
reliable, which is what `SpiLink` establishes or refutes. `usNumberOfFreeBuffers` is
16 bits wide (`% 65536`); its type is `Nat` because `NoOverrun` bounds it by `Pool`.
`NumberOfSentPackets++` is one step: the interrupt only compares that counter for
equality, and no value between the two bytes' stores is equal to the
counter of released packets, which never exceeds the old value.
`socket_active_status` survives a restart, as in the code.

### The API: HciCommands, SocketCommands, WlanCommands, HciApi

A function of the API is a record: opcode of the command and of the event, arguments
as their widths, the length it announces, the size of the object it has the answer
decoded into, the bytes it takes out of it, and how a failure reaches its caller. An
argument that points to another holds the distance the code writes, and the one it
means. `HciApi` runs any of them: `Issue` (`hci_command_send`), `ArmEvent`, `ArmData`
(`SimpleLinkWaitEvent`, `SimpleLinkWaitData`), `Take` (one turn of the loop of
`hci_event_handler`), `Return`. `Handled` is `hci_unsol_event_handler`, `Decoded` the
switch of `hci_event_handler`, as the list of writes each event makes. An object maps its
bytes to the byte of the event each came from, so that a result taken from another
event, or from another place of the right one, shows. `DevEvent` receives an event out of
turn at any point; the packet it leaves holds the link as in the code. Early answers
are those of the sends only: the others are the finding `reply_dropped`. That, and that of
the events a function waits for only the failure of a send comes unasked, is
`DeviceAssumption`. `Before`, `Place` and `Width` count the bytes in front of an argument with a
recursive function, and `Over` names the writes over a byte of an object, of which the last
stays: both are defined so that they can be proved about.

### SpiderL3 and Connection

The labels are the steps of `Spider_Connect` (`co_*`), `Spider_AutoConnect` (`au_*`),
`Spider_Disconnect` (`di_*`), `Spider_SmartConfig` (`sc_*`), `Spider_begin` (`be_mask`) and
`Spider_SmartConfig_AckFinish` (`ack*`); a command is one step (`HciApi` is its
inside) and comes behind the events reported before it. `Deliver` is
`Spider_AsyncCallback`, in the interrupt; `Associate`, `Lease`, `Drop` and `Phone` are the
device's, and report events into a queue that `PowerOff` empties. The device
keeps its profile and its policy when it is off, so both are arbitrary at the start.
`Connection` is `down -> associated -> addressed -> down`; `View` maps the two flags to it.

### Sockets, WebServer, WebClient, NtpClient, Clients

A call of the socket API is one step that the device answers as it likes. `Sockets` keeps
what the device has open beside what the host believes (`inactive`), the failures
not yet reported, and the one `slTransmitDataError` of all sockets. `closesocket` may be
refused: the host then marks the socket inactive as well, and the programs, none of which
looks at the result, forget it; the device keeps it (`leaked`) and nothing in the code tries
again. A connection reports any number of failed completions (`Completion`). The programs make
the calls of the library's functions in the order of the sketches in `examples/`,
and each call may fail; `Clients` lets a function of one run to its end before another's,
as `loop()` does, while peers leave and failures arrive at any time.

### The units

`MCUnits` chooses one computation in its initial state and runs it: `NtpCalendar` goes
through the days of the years in `Years`; `NvmemPatch` and `HciPatch` send a patch
portion by portion with any result; `Aes` encrypts and decrypts a block by rounds;
`SmartConfigKey` reads, decrypts and adds a profile with any of its commands failing;
`RequestParser` takes a request in pieces cut anywhere.

## 3. Runs

Every passing run enumerates the whole state space of its instance.

| Run | Instance | Shows |
|---|---|---|
| `races` | 2 calls, 3 unsolicited events, 2 boots; the interrupt anywhere; IRQ rises with CS | `TypeOK`, `DriverSafe` (packets written once, on request, and read on request, however the handler nests), `BusExclusive`, refinement `LinkSafe` |
| `slow` | the same; IRQ may stay low for a while after CS, which includes what `races` allows | `LinkReleased`, `RxHasBuffer`: what the driver keeps of its own state without that assumption |
| `contract` | the same counts, with fairness; the chip does not lower IRQ in the windows below | `DriverPrecise` (no request forgotten or served twice, no patch request replaced), `RxNotOverwritten`, `ReplyNotDropped`, `Responsive` (calls return, events arrive), refinement `LinkFair` and no deadlock |
| `send_races` | 2 sockets, 2 buffers, 3 sends, 1 restart; the interrupt inside every update; a send may be answered with its failure only | `TypeOK`, `NoOverrun`, `ShutDownWhenIdle` |
| `send_contract` | the same counts, with fairness; no interrupt in the two windows; a send is always completed | `BuffersConserved`, `InactiveKept`, `SendReturns`, `ShutDownReported`, no deadlock |
| `api` | each of the 64 calls, one after another, with four statuses; four events out of turn at any point | `TypeOK`, `CommandWellFormed`, `AnswerDecoded`, `NothingLeft`, `ErrorReported`, `CallReturns`, no deadlock |
| `spider_l3` | the functions of `Spider_L3.c` in any order, three undelivered events | `FlagsTrue`, `FinishedFresh`, `CallsReturn`, refinement `ViewFollows`, no deadlock |
| `clients` | two of server, client and clock on three descriptors; every call may fail, `closesocket` too, peers leave, several failed completions for one connection | `TypeOK`, `StatusTrue`, `SocketsOwned`, `OnePerFailure`, `FunctionsReturn`, no deadlock |
| `units` | five years day by day and four zones; patches of 0 to 15 bytes in portions of 2 and 6; six published vectors of AES; keys of 0 to 32 bytes; 160 requests, some with a user longer than the 2 symbols of `auth` | `CalendarRight`, `PatchWritten`, `PatchArrives`, `EncryptsByStandard`, `DecryptsBack`, `KeyRecovered`, `RequestRight` |

In `races`, `slow` and `send_races` deadlock is not checked: the program can hang
there, which is what the findings below are. In `units` each unit ends.

Some properties are the conjunction of parts with names of their own, which say
what each is about; a counterexample to the conjunction is one to a part.

The runs that find a violation each take one sentence of the code's own
comments, and let the race happen that breaks it:

| Run | Property | What happens |
|---|---|---|
| `reply_dropped` | `ReplyNotDropped` | the answer comes after `SpiWrite` and before `usRxEventOpcode` is set: it is dropped and the call hangs |
| `interrupt_lost` | `NoLostInterrupt` | `WlanInterruptEnable` clears MISSED after the handler it called has missed another request |
| `buffer_lost` | `BuffersConserved` | credits added inside `usNumberOfFreeBuffers--` are overwritten |

### Met without a run of its own

Parameters of the models bring these about, or their definitions state them.

Against the interrupt and the device:

- The store of a foreground `|=`/`&=` on `WLAN_INT_STATUE_REG` restores ENABLE over the
  pause of the interrupt inside it, and a held packet is overwritten
  (`spider_spi.cpp:154`; `RxNotOverwritten` with `en_clr_w`, `irq_done_w` out of `QuietAt`).
- With a chip that keeps IRQ low after its request is served, the missed-interrupt check of
  `SpiWrite` writes a packet twice (`PromptRelease = FALSE` and `MissedMeansMissed`).
- A mark set inside `set_socket_active_status` is overwritten (`set_w` not in `Masked`
  and `InactiveKept`).
- A send answered with `ERROR_SOCKET_INACTIVE` never returns: the completion is handled as
  unsolicited (`evnt_handler.c:654`; `FailsAtOnce = TRUE` and `SendReturns`). The next
  send returns the status byte of the failure, a positive number its caller takes for a
  length (`socket.c:128`).
- If no data follows an error, `nvmem_read` waits for ever (`nvmem.c:108`;
  `DataAfterError = FALSE` and `CallReturns`).
- An event of the WLAN that the handler does not know holds the link until the next
  call (`evnt_handler.c:631`).
- If the device connects unasked, between the wait of `Spider_Disconnect` and its clearing
  of the flags (`Spider_L3.c:344`) or across the restart (257), the flags stay wrong
  (`ConnectsUnasked = TRUE` and `FlagsTrue`).
- If the device reports the failure of a send after it has closed the socket, the mark
  falls on the next owner of the descriptor (`LateFailures = TRUE` and `StatusTrue`).
- If the ARP event comes between setting the flag and reading it, `NTP_get_time`
  waits for ever: it waits while the flag says done (`NTP.c:139`; `ArpDuringWait = TRUE`
  and `FunctionsReturn`).

In the code alone:

- `accept` with no connection yet marks the listening socket (`socket.c:335`), which its
  documentation says is unaffected (`socket.c:285`).
- The last day of a leap year is day 0 of the next January (`NTP.c:172`; `DatesRight` says
  so). A zone beyond 9 hours overflows the 16-bit int of its offset (`NTP.c:149`).
- `netapp_timeout_values` announces 20 bytes and writes 16 (`netapp.c:50`). Host
  names of 194 to 230 bytes pass the check and do not fit the transmit buffer
  (`socket.c:468`). A blocking `select` sends what the buffer held for its timeout.
- A patch of more than one portion arrives without the lengths and the first bytes of
  the later ones (`hci.c:209`; `PatchArrives` says when it is whole), and a portion of
  1000 bytes does not fit a transmit buffer of 211.
- A result of `nvmem_write` that is a multiple of 256 looks like success to
  `nvmem_write_patch` (`nvmem.c:227`); `NvmemPatchAssumption` leaves such results out, and
  patches longer than the 16-bit offset.
- The word behind `Authorization: Basic` is copied into `auth` with no limit: `auth_size` is not
  looked at (`WebServer.c:238`), and the server's sketch gives one byte and says it is none
  (`SimpleHttpServer.ino:162`, 194). What is behind `auth` is then written over, and what
  becomes of the request depends on where the program keeps its variables: `RequestParser`
  says when this happens (`AuthSpills`) and follows the request no further (`spilled`).
- A socket the device has refused to close is used up for good: `closesocket` marks it inactive
  whatever the answer (`socket.c:249`), the programs ignore the result (`WebServer.c`, `WebClient.c`,
  `NTP.c`), and once all are no program gets another.
- Any program's failed send is charged to whichever program sends next: `OnePerFailure` bounds
  what one failure costs, not what a program loses. The clock's socket, open as long as its
  sketch runs, loses a request for each failure of the others that comes in front of it.
- `wlan_smart_config_process` returns the positive status byte of `nvmem_read` when it cannot
  read (`wlan.c:1135`), its documentation says -1 (`wlan.c:1114`). A comment has the key always
  in 32 bytes (`wlan.c:1141`); the code decrypts the second 16 only if told of them, and
  `SmartConfigKey` takes both lengths.
- A short key in a file whose last byte is not 0 is taken for one of 32 bytes
  (`wlan.c:1162`, `Leftover`), and a key of 32 bytes that begins with 31 for a shorter
  one. A security of an unknown number adds no profile and returns 0.
- `WebServer_process_request` returns 0 on a timeout as well, returns only on the byte
  after the content, takes a length line in the body for one of the head, and
  loses the length in a line longer than 48 bytes (`Plain` names these conditions).
- A receive's second check reads past the object of the caller (`evnt_handler.c:360`).

### The windows

`QuietAt` names labels at which the chip does not lower IRQ on its own. It is how
the `contract` run says under which condition the driver works, and the
violation runs take one window out. The smallest sets found under which each
property holds:

| Property | Labels |
|---|---|
| `ReplyNotDropped` | `en_missed en_clr en_clr_w irq_done irq_done_w sw_chk sw_wait arm` |
| `RxNotOverwritten` | `en_clr_w irq_done_w` |
| `NoLostInterrupt` | `en en_w en_missed en_clr en_clr_w irq_idle irq_rx irq_done irq_done_w` |
| `CallReturns`, no deadlock | `ws_high en_missed en_clr en_w en_clr_w irq_done irq_done_w sw_chk sw_wait arm` |

`ws_high`: `wlan_start` polls for a high level and then for a low one, and a pulse
shorter than a poll is not seen. `PatchRequestIntact` needs more than a window: with an unsolicited
event between START's answer and the patch request, a later packet may replace the
request in the buffer after `SpiResumeSpi`, so `contract` sets
`EventsInInit = FALSE`. The sets in the table are the smallest on this instance; `BufferHeld` and
`ReplyKept` prove two of its rows for every instance, and `Precise` the third with the labels of
`ArmWindow` and `HandlerWindow` added (`DriverPrecise` also says that MISSED records no request that
is gone). `Masked` plays the same part in `FlowControl`: `dec_w`
(`BuffersConserved`) and `set_w` (`InactiveKept`).

### Bounds

`MaxCmds`, `MaxAsync`, `MaxBoots`, `MaxSends` cap counters that no property
is about. Two calls and three unsolicited events put a packet before, inside
and after each call and a second one behind a missed or held one, which is the
longest chain the status byte's three bits can tell apart; two boots let the
state left by a stop meet the next start. A pool of 2 is needed: with one buffer the
decrement never runs while another is outstanding and the lost credit cannot occur.
Two sockets let one call's update meet the other's mark.

In `api` the lengths are those at the ends of their ranges, and beyond them where
the code checks; a call after a call is enough, since what it may leave behind is the state
of the rendezvous. `MaxEvents = 3` lets a connect, its address and its loss be on
their way at once, which is a whole life of a connection missed. Three descriptors are one
fewer than a server with a connection and two other programs need, so that calls fail
for want of one as well, and descriptors are given out again at once; a close refused leaves
fewer still, down to none; two programs at a time
are enough for one to meet the other's failure, and all three pairs are tried. `Pieces` and
`Request` stand for 3 to 11 and 5 pieces: one to meet the failure, one to be lost, one to go
through. `MaxConns = 0` stands for 29: the count reaches its limit. `Years` has a year
of each kind. `Offsets`, both portion sizes and the buffers of the parser are small so that
patches and requests of a few bytes reach their ends and cross them; `PatchWhole`,
`PatchCut` and `RequestTaken` are proved for every size, `DatesCounted` for every year, `Deciphered` for
every key and block, and the theorems of `HciApi_proofs` for every length.

Nothing is symmetric enough to reduce: the instances are small without it.

### Fairness

- The foreground and the interrupt are weakly fair: the processor runs. Where the
  application decides (`app`, `off`, `stopped`) nothing has to happen.
- The chip's actions are weakly fair in `SpiLink`: it follows the protocol. No
  further unsolicited event has to occur.
- In `FlowControl`, `FreeSome` and `SendOk` are strongly fair, since an interrupt at a
  masked label stays pending until the next; `DevFree` is weakly fair: the chip
  transmits or gives a packet up. No peer has to leave and no send has to fail.

- In `HciApi` the answer is strongly fair: unsolicited events come before it, but not
  without end. Nobody has to call, no event has to come.
- In `SpiderL3` the steps of a function are strongly fair, because a command waits
  behind the events reported before it, and `CallsReturn` itself excludes a device that
  reports events for ever. The device leaves when told to, and the phone is held to it:
  without it `Spider_SmartConfig` waits for ever, and says so. The wait of
  `Spider_AutoConnect` is not claimed to end.
- In `Clients` the function that runs goes on; a request and a reply end, or the receive
  timeout that `setsockopt` sets ends them; the last failure of a socket is reported at some time.

No call has to be made for a property to hold. The only timeouts are those of the receiving
device and of `WebServer_process_request` (`GiveUp`): the driver has none.

## 4. Proofs

TLAPS proves the following for every number of calls, events, boots, sends, sockets,
descriptors and buffers, every `QuietAt` and `Masked`, every set of sketches, every portion
size, width of the offset and length of a patch, every year, key and block. What they take for granted are the
assumptions on the constants, which TLC evaluates in every run (`SpiLinkAssumption`,
`FlowControlAssumption`, `SpiderL3Assumption`, `HciApiAssumption`, `DeviceAssumption`,
`SocketsAssumption` and those of the programs, `NvmemPatchAssumption`, `HciPatchAssumption`,
`SmartConfigKeyAssumption`, `RequestsAssumption`, `NtpCalendarAssumption`, `AesAssumption`), and the condition a theorem itself states. Each such condition is
that of a run: where it is dropped, section 3 says what TLC finds.

| Theorem | Statement | Argument |
|---|---|---|
| `SpiLink_proofs!TypeCorrect` | `Spec => []TypeOK` | by conjunct of `TypeOK` and action |
| `SpiLink_proofs!Released` | `Spec => []LinkReleased` | `ReleaseInv` |
| `SpiLink_proofs!RxBuffered` | `Spec => RxHasBuffer` | `StackOK /\ BufferRegion` |
| `SpiLinkSafe_proofs!SafelyDriven` | `Spec => []DriverSafe` if `PromptRelease` | `Safe` |
| `SpiLinkSafe_proofs!BusSafe` | `Spec => BusExclusive` if `PromptRelease` | `Safe` |
| `SpiLinkSafe_proofs!LinkRefined` | `Spec => LinkSafe` (the refinement) if `PromptRelease` | `Safe` |
| `SpiLinkWindows_proofs!BufferHeld` | `Spec => RxNotOverwritten` if `PromptRelease` and no request in `StoreWindow` | `Safe /\ HeldRegion` |
| `SpiLinkWindows_proofs!ReplyKept` | `Spec => ReplyNotDropped` if `PromptRelease` and none in `ArmWindow` | and `OnRegion`, `WrittenRegion` |
| `SpiLinkWindows_proofs!Precise` | `Spec => []DriverPrecise` if `PromptRelease`, none in `MissedWindow` and `~EventsInInit` | and `MissedRegion`, `LostRegion`, `PatchRegion` |
| `FlowControl_proofs!TypeCorrect` | `Spec => []TypeOK` | places, numbers, flags |
| `FlowControl_proofs!NeverOverrun` | `Spec => []NoOverrun` | `CreditInv` |
| `FlowControl_proofs!Conserved` | `Spec => []BuffersConserved` if `"dec_w" \in Masked` | `ExactInv` |
| `FlowControl_proofs!ShutDownSafe` | `Spec => ShutDownWhenIdle` | `CountInv` |
| `FlowControl_proofs!MarksKept` | `Spec => InactiveKept` if `"set_w" \in Masked` | `MarkInv` |
| `HciApi_proofs!ApiAnswered` | every function of the API awaits what answers its command | opcode by opcode |
| `HciApi_proofs!ApiDecoded` | every answer fits its object and is where it is looked for | event by event |
| `HciApi_proofs!ApiLaidOut` | every command announces and points to what it writes | `NatSets`, `BeforeIs` |
| `HciApi_proofs!TypeCorrect` | `Spec => []TypeOK` if `Calls \subseteq Api` | `Inv` |
| `HciApi_proofs!Clean` | `Spec => []NothingLeft` if `Calls \subseteq Api` | `Inv` |
| `HciApi_proofs!Decodes` | `Spec => []AnswerDecoded` if `Calls \subseteq Api` | `Inv`, `ApiDecoded` |
| `HciApi_proofs!Reported` | `Spec => ErrorReported` if also no status is below -128 | `Inv` |
| `HciApi_proofs!WellFormed` | `Spec => []CommandWellFormed` if `Calls \subseteq FittingApi` | `ApiLaidOut` |
| `HciApi_proofs!RoomExactly` | for every function, the lengths with which it is in `FittingApi`, as equivalences | `RoomOfOne`, `RoomOfTwo`, `RefusedNames` |
| `HciApi_proofs!OverrunsOutside` | a call of `Api` outside `FittingApi` violates `CommandWellFormed` when it is issued | `FittingApi` |
| `SpiderL3_proofs!TypeCorrect` | `Spec => []TypeOK`, which no run repeats | places, flags, device, queue |
| `SpiderL3_proofs!Reached` | `Spec => []CommandsReachDevice` | `Powered` |
| `SpiderL3_proofs!Fresh` | `Spec => FinishedFresh` | `Heard` |
| `SpiderL3_proofs!Truthful` | `Spec => []FlagsTrue` if `~ConnectsUnasked` | `Known /\ Left` |
| `SpiderL3_proofs!Follows` | `Spec => ViewFollows` (the refinement) if `~ConnectsUnasked` | `Clean` |
| `Clients_proofs!TypeCorrect` | `Spec => []TypeOK` | `OwnInv` |
| `Clients_proofs!Owned` | `Spec => []SocketsOwned` | `OwnInv` |
| `Clients_proofs!StatusRight` | `Spec => []StatusTrue` if `~LateFailures` | `StatusInv` |
| `Clients_proofs!ChargedOnce` | `Spec => []OnePerFailure` if `~LateFailures` | `MissedInv` |
| `Units_proofs!PatchWhole` | `PatchSpec => []PatchWritten` | `PatchInv` |
| `Units_proofs!PatchCut` | `HciSpec => []PatchArrives` | `HciInv` |
| `Units_proofs!KeyAdded` | `SmartSpec => []KeyRecovered` if `KeysTold` | `SmartInv`, `KeyKept` |
| `Units_proofs!RequestTaken` | `WebSpec => []RequestRight` | `WebInv`, `AtByte` |
| `Units_proofs!DatesCounted` | `CalendarSpec => []CalendarRight` | `CalendarInv`, `YearLoops`, `MonthLoops` |
| `Units_proofs!Deciphered` | `AesSpec => []DecryptsBack` | `AesInv`, `RoundBack` |

**Released.** `LinkReleased` speaks of the labels where no driver function runs and is
not inductive: a return may come from anywhere. `StackOK` says each label on the
stack was called from the one under it, so that a return label identifies its
caller's caller. `StateRegion`, `CsRegion` and `ProcessRegion` then say at which
labels, and above which return labels, each driver state, an asserted CS and PROCESS
can be met, and `ClaimRegion` that no interrupt is served between the disable and
the enable in `SpiWrite` (without it, a read could take the state just claimed). The
five together are `ReleaseInv`. The stack is unbounded in the proof: `CallStack`
and `ReturnStack` are lemmas about pushing and popping.

**RxBuffered.** The packet pointer is null only while WLAN_EN is low (`BufferRegion`),
an edge is pending only while it is high, and a handler called in the
foreground implies a stack that excludes `SpiClose`.

**SafelyDriven**, **BusSafe**, **LinkRefined.** None of the three is inductive, and they need
nearly the same of the rest: `SafeInv` says it in thirteen regions. Along the line: the device is
powered and booted where the label at the bottom of the stack says (`Base`, `PowerRegion`,
`BootRegion`), a request stays served only from the transfer to the edge of CS that ends
it (`LineRegion`: this is where the prompt release is used), with CS high it is that
of a packet on offer (`OfferRegion`), and every transfer, with the labels that lead to it,
has a request (`RequestRegion`). Of the driver: one packet is unsent exactly between `SpiWrite`'s
entry and its transfer (`UnsentRegion`), the handler is nested once (`NestRegion`), the
interrupt is off where a packet is held or a write claimed (`EnableRegion`) and PROCESS is set
throughout the nesting (`HandlerRegion`). Of the call: what is queued, owed, awaited, held and
parsed is for the command under way (`QueueRegion` to `ParseRegion`). For `LinkSafe`, `Phase`
is computed in each region, and each action that moves it is a step of `HciCall`; the others leave
it where it is.

**BufferHeld**, **ReplyKept**, **Precise.** The windows are sets of labels with a name each
(`StoreWindow`, `ArmWindow`, `FlagWindow`, `HandlerWindow`), and the theorems say that these are
all there are, for any number of calls and events. While a packet is held the interrupt is off,
in the register and in what a foreground update is about to store (`HeldRegion`, the latter outside
`StoreWindow`). From the transfer of a command to the wait for its answer the only request is its own
(`WrittenRegion`), so an answer taken finds the opcode stored. A request not served is recorded
in MISSED, or is a grant `SpiWrite` is about to look for (`LostRegion`), and MISSED
records nothing that is no longer there (`MissedRegion`).

**NeverOverrun.** Between load and store of the decrement the interrupt only adds, so the
value loaded is at most the counter (`CreditInv`): the store can lose credits and
never create one. **Conserved** adds that with no interrupt in that window it is
equal: the window is the only cause of the finding `buffer_lost`. **MarksKept** says
the same of the socket mask.

**ShutDownSafe.** `NumberOfSentPackets` is what was released, plus what the chip
holds or has not reported, plus one on the way (`CountInv`); equality therefore
means none of these.

**ApiAnswered**, **ApiDecoded**, **ApiLaidOut** are about the table of commands and are not
temporal: of every function of the API, with names, keys, payloads and options of any length
(`Api`), that its event answers its command and passes `hci_unsol_event_handler`; that what is
decoded fits its object and supplies each field that is taken, with no later write over it
(`Within`, `Stays`); that the length is what is written and every pointer reaches (`LaidOut`;
`netapp_timeout_values` announces a word more and is excepted by the property). The last needs
the recursive function `Before`: that it is the function its definition describes is
`BeforeIs`, by induction over the set of the numbers for which it is (`NatSets`, from the
least element that a well-founded order gives: the library's induction theorems themselves take
an operator, which the provers cannot instantiate).

**Clean**, **Decodes**, **Reported.** Until its event is taken a call is owed it: it is on
the wire or it is in the buffer with the link paused, and then the same holds of the data (`EventOwed`,
`DataOwed`). Whatever else the buffer holds is `NotOurs`: an event that came unasked, that
the handler does not know and of which nothing is decoded. So the object is blank until the answer
and its decoding afterwards (`ObjectInv`), and at the return nothing is owed.

**WellFormed** adds the room in the transmit buffer. `FittingApi` is the calls of `Api` that
are refused or leave the last byte of the buffer alone. **RoomExactly** says which they are, as an
equivalence for every function that takes a length: 184 bytes for `send` and `nvmem_write`, 168 for
`sendto`, 181 of an option, 173 of name and key together for `wlan_connect`, and so on; a name of a
service may be of any length, because the ones without room are refused. A host name has room up to 193
bytes and is refused from 231: the lengths between are the bug in section 3. **OverrunsOutside** says that the
condition of `WellFormed` cannot be weakened: issuing any call of `Api` outside `FittingApi`
violates `CommandWellFormed`.

**PatchWhole.** While no portion has failed the file holds the patch up to where the
pointer stands, and the offset is that place unless the patch has ended exactly at the
width of the offset, where it wraps to 0 and is not used again (`SoFar`).

**PatchCut.** A later portion is written at place 7 of the buffer and sent from place 10 on,
behind a header of 2 bytes. Where its first byte should be the device finds the sixth of the
portion, or what the first portion left there if there is no sixth (`Behind`); it is never
the first, and no later portion puts it right (`SecondBroken`). A patch therefore arrives
whole exactly if it is of one portion, whatever the size of a portion.

**KeyAdded.** A key of 32 bytes is stored as it is and taken as it is unless it begins with 31; a
shorter one is stored behind its length and cut out again (`KeyKept`). `KeysTold` says what
makes the two kinds of file distinguishable to the code: a last byte of 0 behind a short key,
and none behind a long one.

**RequestTaken.** `AtByte` says what each local variable of the parser holds when t bytes have
come: in the method, in the name, in the head, or behind it. In the head the place is a line and
how much of it has come. `Ending` is what `content_head` ends with there, so that the empty line
and nothing before it makes it the end of the head (`HeadGoes`); if its lines fit, `str_fifo` has
what there is of the line, and `content_length` what the lines before have told (`LineGoes`,
`DeclaredGoes`). `AnyByte` takes one byte, `PieceTaken` a piece of any length. All of this is said as
long as nothing has been written behind `auth`; if the lines fit and the body holds neither field,
a line of the request itself gave the word that is too long for it, never one made up of two lines.
`RequestsAssumption` asks for a method and a name without a space and for at least one line, none
empty: the first goes on with the version of the protocol.

**DatesCounted.** The invariant is that `counted` is the days before the year and the day in it
(`CalendarInv`); `MonthIs` says that the table of `NTP_get_time` agrees with the calendar's months,
`YearsFollow` that a year begins where the one before it ends. The code's loops are recursive
functions; that they are the functions their definitions describe (`YearLoops`, `MonthLoops`) is
shown by induction over the count (`NatSets`). `YearIs` then follows the first from 1970 to the year of the
date, `DateIs` the second to its month. The loop over the years goes on while more than 365 days
are left, and so one day too far at the end of a leap year: `DateIs` has that case as well.
The time of the day is that of the zone (`TimeIs`) if the offset fits an int.

**Deciphered.** A byte is known by its bits (`SameBits`), and on them `Xor` (`XorOn`) and `galois_mul2`
(`DoubleIs`, `DoubleLinear`) are linear. `ColumnBack` is what makes decryption work without the
inverse matrix: barreto and then the same mixing as in encryption give back a column. `SubBack`
does the tables and the shifts, index by index, and `AddBack` the key, which `KeyIs` shows to be 176 bytes;
together they undo a round (`RoundBack`). `AesInv` says that there are blocks that encryption went along
(`Goes`), and that decryption is at the one of its round on the way back.

**Reached**, **Fresh.** A device that is off has nothing to report, and only
`Spider_begin` and the restart find it off (`Powered`). SIMPLE_CONFIG_DONE is on its way
at most once, only while `Spider_SmartConfig` waits for it and before the flag is set
(`Heard`), so that no later call can meet one left over.

**Truthful**, **Follows.** `FlagsTrue` is about states with no event on its way and not
inductive. `Ends(flag, event, events, n)` is what a flag will be once the first n events are
delivered; `EndsAppend` and `EndsTail` say what a report and a delivery do to it. `Exact`
says the flags end at what the device is connected to. A clearing breaks it, but only over a
connection that the device is about to leave, and the DISCONNECT that follows restores
it (`Known`); that needs the device not to connect meanwhile (`Left`), which is where
`~ConnectsUnasked` comes in. For `Follows` a CONNECT must never meet the address of the
connection before (`Clean`).

**Owned**, **StatusRight**, **ChargedOnce.** `HandlesInv` says in which state of each
program its handle names a socket, `OwnersInv` that no two handles name the same and that together they
name all that was not given to `closesocket`. `SocketsOwned` says nothing of whether the device closes
what it is told to: what it refused is outside `open`, never named again and never given out. A
failure still to be reported is that of a connection one of the programs holds, whose peer
has left (`StatusInv`); if failures come late it need not be. A piece is refused with its
peer there only by using up `slTransmitDataError`, which only a failed completion sets
(`MissedInv`): `missed` counts the refusals since the last of these, of all programs
together, and nothing else sets it back.

Only model-checked: all liveness (`Responsive`, `SendReturns`, `ShutDownReported`,
`CallReturns`, `CallsReturn`, `FunctionsReturn`, `LinkFair`), because fairness and ENABLED are
beyond the prover; and `EncryptsByStandard`, because it compares values: those of the published
vectors, and a table with a computation over the field of 256 elements. There are no RECURSIVE
operators.

## 5. Not modelled, and the plan

Left out of `SpiLink`: the bytes of a packet, its padding and length. Left out of
`FlowControl`: the length returned (one value), `sendto`'s address arguments (they are in
`SocketCommands`). Left out of `HciApi`: what arguments contain, and the one read past an
object (`evnt_handler.c:360`), which depends on the caller's stack. Left out of the
programs: the text of requests and responses and the parsing of a URL, which is string
handling without state. Left out altogether: the order of the bytes in
the stream functions, header files that only declare, and serial output.

The modules, runs and theorems planned are written. What could be added is the bytes of a packet
in `SpiLink`, with the padding that `SpiWrite` adds to an odd length, and a statement of the
round trips of the stream functions.
