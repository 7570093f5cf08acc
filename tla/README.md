# A TLA+ model of the ISS-Notify firmware

ISS-Notify is an AVR (ATmega32U4) desk gadget that lights up when the
International Space Station passes overhead. This directory models the
firmware's own logic, the part of the USB library under it and the loader that
the repository ships for the host, checks them with TLC on small instances and
proves the safety properties with TLAPS for every value of the
constants.
References of the form `file.c:line` are to the repository.

## 1. Inventory

The program is one main loop (`ISS-Notify.c`) and four interrupt handlers on
a processor without an operating system. What is hard is what the handlers,
the bus, the clock chip, the serial host and the power supply do between two
statements of the loop.

| Component | State | Operations | Talks to | Modelled by |
|---|---|---|---|---|
| TWI driver `library/twi.c` | `twi_state`, `twi_error`, `twi_slarw`, one master buffer with index and length | `twi_writeTo`, `twi_readFrom`, handler `TWI_vect` | the bus hardware (interrupts), callers (busy waits) | `Twi`, promise in `TwiPort` |
| RTC driver `hardware/rtc.c` and clock commands | the chip's registers, `tx_buffer` | `get_time`, `set_time`, `reset_rtc`, `say_time`, `set_clock` | TWI driver, chip | `Rtc`, `Bcd` |
| Pass alarm `ISS-Notify.c`, `rtc.c` | `alarm`, `pass`, mask bit `INT3`, alarm registers of the chip | handler `INT3_vect`, `clear_alarm0`, `set_alarm0`, re-arming in the loop | line of the chip, TWI driver | `Alarm` |
| Pass table and colour `commands.c` | `NumOfStoredISSPasses`, `StoredISSPasses`, `NonVolatileColor` in EEPROM | `set_passes`, `set_color`, `dump_mem` | serial host, EEPROM | `PassStore` |
| Rainbow and timer `ISS-Notify.c` | `ms`, `previousMillis`, `bow_rotate`, `do_rainbow`, `show` | handler `TIMER3_COMPA_vect`, `millis`, the rainbow block of the loop, `toggle_rainbow` | LED driver | `Rainbow` |
| Command interpreter `ISS-Notify.c:200-210`, `commands.h` | the push-back character of the stream | `fscanf`, dispatch over `COMMANDS` | CDC stream, all handlers | `Commands` |
| CDC stream `CDCClassDevice.c`, `Endpoint_AVR8.c` | one bank in each direction, the selected endpoint | `SendByte`, `Flush`, `ReceiveByte`, the wait for an endpoint | USB host, the USB interrupt | `Cdc` (sending), `Commands` (receiving) |
| USB device `DeviceStandardReq.c`, `USBInterrupt_AVR8.c`, `USBTask.c`, `Descriptors.c`, event functions of `ISS-Notify.c` | `USB_DeviceState`, configuration number, address, line encoding | handler `USB_GEN_vect`, a handler per control request | USB host | `Usb` |
| Loader `HostLoaderApp/hid_bootloader_cli.c` (on the host) | image of the program, options | read the file, wait for the device, write, start | file, boot loader of the device | `HostLoader` |
| White balance `commands.c` | `TLC_*_WB`, `NonVolatile_*_WB`, `show` | `wb_*`, `set_wb`, `show_color`, restoring at boot | EEPROM, LED driver | `Lights` |
| LED driver `hardware/led.c` | none | `led`, `write_word` | two TLC5971 chips | `Led` |
| Charger, ADC `hardware/charge.c`, `analog.c` | none | `charge_Init`; `get_battery_voltage` is never called | pins | not modelled |
| Rest of LUFA, `usb_serial.c`, `hardware/usb.c`, samples | | | | not modelled: not called, not built, or other programs |

Hard behaviours, and the property each one calls for (all of them, with their
lines, are under `hazards` in `PROJECT.json`):

* **A write that returns before it is sent.** Every setter of `rtc.c` calls
  `twi_writeTo` with `wait = 0`. The next call refills the buffer that
  `TWI_vect` empties, and the error of the first is lost. The bytes of two
  calls must never mix (`WireCarriesTheCall`, `ImplementsPort`).
* **Busy waits without a time-out.** They end only if every case of the handler
  leads to `TWI_READY` (`EveryCallReturns`).
* **A level-triggered interrupt that masks itself.** The loop unmasks it before
  it zeroes the flag (`AlarmNotForgotten`, `LineReleased`, `ComesToRest`).
* **A clock that counts while it is read and set** in several transactions
  (`SayTimeHonest`, `SetClockWorks`).
* **Power loss** between two EEPROM bytes (`CountCoversWritten`,
  `DumpIsLastSet`, `DumpShowsColor`, `BalanceSurvives`).
* **Numbers cut on their way**: an `int` from the host, a byte in RAM and in
  EEPROM, seven bits in the chip (`ChipsShowTheState`).
* **A stream that does not block**: late data is no data (`SetMeansStored`),
  and a command whose text comes in two packets may be cut (`InStep`, `Served`).
* **A character pushed back for ever**: the interpreter reads it first and can
  never match it (`WedgeNeedsASplit`, `WedgedForGood`).
* **A 32 bit counter read by an 8 bit processor** (`KeepsTurning`).
* **A host that does not read**, suspends, resets or is unplugged inside a call
  (`CallsReturn`, `NoCharacterLost`, `StrayPerReset`, `AnswersDelivered`).
* **Control transfers that the host gives up**, while their handlers wait for it,
  three of them without an exit, or whose end it sees before the handler does
  (`HandlersEnd`, `TransfersEnd`, `StallsTheUnsupported`, `AddressHeld`).
* **One selected endpoint** for the program and the interrupt: the end of a handler
  and the configuration of an endpoint work on whichever is selected
  (`DescriptorWhole`, `StallsTheUnsupported`, `StrayPerReset`).
* **A download that fails half way** (`FlashIsTheFile`).

## 2. Modules

State variables and actions keep the source's names; `map` in `PROJECT.json`
gives the lines of each definition.

**`Twi`** has three actors. The main program makes a call in four steps:
`Invoke` (with the length check), `BecomeMaster` (the busy wait, then the whole
setup: nothing else touches the driver while it is ready and the hardware is
off), `SendStart` (the write to `TWCR`, after which interrupts can come) and
`ReturnWrite` or `ReturnRead`. The handler is one action per group of cases
(`IsrStart` ... `IsrBusError`): it runs with interrupts disabled, so each
activation is one step, `twi_stop`'s wait inside it included. The hardware and
the slave (`Hw...`, external) acknowledge or refuse the address and each byte,
send any byte, or report a bus error or a lost arbitration at any byte. `wire`
is a history variable: the call on the bus, the bytes moved, the final status.
Slave mode is left out, since the firmware never sets `TWAR`.

**`TwiPort`** is what the callers may rely on: calls, one open transfer at a
time, bytes of its own call in order, an end, an answer. It says openly that
an unwaited write may be answered 0 while its transfer is open. The mapping is
at the end of `Twi`: a transfer is open from the claim of the driver to the stop
condition. `Rtc` and `Alarm` use the driver only as `TwiPort` describes it:
`Post` waits for the bus, then returns with the write under way.

**`Alarm`** has one action per statement of the loop that touches the alarm,
the handler between any two of them, and the chip, in which a write lands or is
refused and an alarm that is on goes off. Two details of the code carry it: the
missing braces at `ISS-Notify.c:249`, which make the loop unmask `INT3` in every
round, and `clear_alarm0`'s second write, which switches the alarm off. The only
caller of `set_alarm0` is commented out, so the firmware as built is the
behaviours in which `Listen` never enters it.

**`Rtc`** runs `say_time` (six reads, each a transaction, decoded) and
`set_clock` (two resetting writes, the parsing, the two writes of `set_time`)
against a chip with BCD registers, control bits, a leap-year calendar and a
second that may pass between any two steps. A write may be refused after any
of its bytes, and a read may fail: `missed` records which registers `get_time` could
not read, so that `SayTimeHonest` demands 0 for these and the chip's value for all
others. **`Bcd`** holds the conversions in `uint8_t` arithmetic.

**`PassStore`** runs `set_passes` a record at a time: each parses, or is late
and leaves the uninitialised stack in its slot (`"junk"`). A late record is not
lost: the next `fscanf` may read it, into the slot of the next. The EEPROM update
writes only bytes that differ, and a record is `"torn"` until its last byte.
`PowerLoss` is enabled in every state. A new device starts with an erased
EEPROM, count 255. `set_color` writes its word in two bytes, in an order left to
the library, and `dump_mem` converts it back to a signed number.

**`Rainbow`** loads the bytes of `ms` one by one, as the compiler does for a
`volatile uint32_t`, with the timer between any two loads, and models the
pacing, the index arithmetic and the commands that write `show` (called `colours`
here, since `Lights` has the eight numbers under the source's name).

**`Lights`** keeps the white balance in its four places: what the host asked
for, the variables, the EEPROM bytes and the chips. `set_wb` writes its bytes one
by one; `Restart` is power loss followed by `Setup_Hardware` and the startup
animation, which ends dark. **`Led`** is the frame that `led` sends as a function of
`show` and the balance: a sequence of pieces, each the number that `write_word`
clocks out and its count of bits. The chips read it back by their own field
widths, so a piece of the wrong width leaves them without a meaning. `show` itself
is also in `Rainbow`, where its colours are abstract.

**`Commands`** is the text that the host sends on its way to the handlers:
messages, packets of at most a bank, the bank, the characters. `Scan` is one
character of `fscanf`; what it matches, where it stops and what it pushes back are
given by the format (`Format`, `ArgFormat`) of the call that is running. `Dispatch`,
`Arguments`, `Count` and `Record` are what the code does with the result. A
command that runs is recorded with its numbers in `executed`; what it does with them is
the subject of `PassStore`, `Lights`, `Rtc` and `Rainbow`. The time between the
packets of a message is arbitrary, so the end of the data may come after any
character. `starved` records that it did so inside a message. `fscanf` itself is
avr-libc's and external. Numbers keep their widths: `Stored` is what a 16 bit
variable, or the 32 bits of the time of a pass, holds of the digits read; `Count`
takes a number above 32767 for the negative `int` it is, and `Record` counts in a
`uint8_t`, so that 256 records and more never end. Texts use the digits 0, 1 and 2,
and no signs.

What a host may send is a constant, and `Spells` says what it means that a message
keeps to the formats: its text is a row of fields (`Field`), and its `reading`
gives for each number of characters how many fields have begun and which numbers
they spell so far. The numbers fit the variables they are read into (`Fits`), and a
message has at most 255 records. `SpellingAssumption` says that every message does so, unless
something follows its last number (`trailing`). `Spells` is written from what a
text means, field by field, not from how `fscanf` reads it, so that `InStep` compares
two things.

**`Cdc`** is the other direction: `SendByte` and `Flush` as sequences of steps with
the interrupt between any two of them. `SendByte` (or `Flush`) tests the state once,
`Select` selects the endpoint, `TestBank`, `Clear`, `Wait`, `Poll` and `Finish` are
the rest of both. After a bus reset inside a call the control endpoint is selected
and the call goes on with it; what the flags of that endpoint say then is left
open. Characters are numbered, so that loss, repetition and disorder are visible.
`FairSpec` asks nothing of the host; that it reads is a hypothesis (`Reading`) of
`AnswersDelivered` alone.

**`Usb`** has the device, with a step per wait of a control request's handler; the
interrupt, whose flags are tested in the order of `USB_GEN_vect`; and the host,
which runs transfers stage by stage, and may at any step begin another one,
reset, suspend or resume the bus or be unplugged. Two histories tell apart what a
host may do to a handler. `left`: it gave up its last request or the one being
handled, or began another before the handler had seen its last packet, or the bank
still holds a packet for a request that it gave up. `overran`: its SETUP packet came
before the handler of another request had returned, whether the host gave that one
up or is only quicker than the handler. Each property says which of the two excuses it.

The device has one selected endpoint (`UENUM`). `SetConfiguration` selects and
configures the three data endpoints one by one (`SelectEndpoint`,
`ConfigureEndpoint`), and the interrupt of a bus reset between the two selects the
control endpoint, whose registers are then written. At its end a data endpoint is
selected, so that `End` does not see a SETUP packet that has come meanwhile: it is
served next, with the empty status packet still in the bank. After every other
request `End` stalls it. `Cdc` and `Usb` share `USB_DeviceState`:
`Cdc` sees the changes that `Usb` explains, as `Configure`, `Suspend`, `WakeUp`,
`Reset` and `Disconnect`, in a simpler form: only a configured device is suspended.

**`HostLoader`** is the loader's `main` with a step per line of the file and per
block written, and a user who presses the button, pulls the cable and compiles
again at any time. The reference for what a file means is `Says`: a byte is that of
the last record that covers it. A record is its kind, base, bytes and whether its
checksum is right. The file may be missing when it is opened, which ends the
program. The end of a record is computed in an `unsigned int` (`UINT_SIZE` values);
`AddressesAssumption` keeps to files for which it does not wrap. The boot loader of
the device is external: it erases the chip when the first block is written.

The modules `MC...` only define constants (`MCCommands` computes the `reading` of each
text); `Alarm`, `Rainbow` and `Cdc` need none and
are run as they are. Definitions marked *Mutant* are plausible wrong versions of
the definition that follows; no specification uses them, they show that each
property can fail.

## 3. Runs, bounds and what they show

| Run | Bounds | Result |
|---|---|---|
| `twi` | 2 byte values, buffer of 2, calls up to length 3 | 50 124 states. All invariants, `ImplementsPort` and, under fairness, `EveryCallReturns` hold. Length 3 exceeds the buffer, length 2 fills it; two calls may be in play at once and no third can. |
| `alarm` | none: the state space is finite | 289 states. |
| `rtc` | 3 seconds, 1 refused transfer, clocks at the ends of a minute, day, month and year | 420 095 states. Three ticks cover a roll-over anywhere in a command. |
| `pass_store` | table of 2, 2 passes, numbers 0..2, 2 colours (one negative) | 567 562 states; covers growing, shrinking and equal tables, and power loss at each point. |
| `pass_late`, `pass_many` | the same; numbers up to 3 | `SetMeansStored`, `StoresAtMostMax` are violated: findings 1 and 2. |
| `rainbow` | a counter of 2 base-4 digits (wraps at 16), period 2, at most 1 tick between two steps | 61 776 states. Real proportions are kept in one respect that matters: a round of the loop is shorter than the wrap. With a round nearly as long as the wrap the samples can alias and `KeepsTurning` fails; the real counter wraps after 2^32 ticks. |
| `lights` | 2 balances and 2 levels, one of each too wide for a byte, 1 colour, the 8 rotations of the rainbow | 28 000 states. |
| `commands` | 9 messages with every kind of format, bank of 6, 2 messages a session, any number of sessions | 185 571 states. The messages are 4 to 18 characters long (one with a time of more than 16 bits), so that they fit one packet, fill it, or need up to three; packets may be cut shorter. Two messages are enough for one to meet what the other left behind. |
| `cdc` | bank of 2, timeout of 1 frame, 4 characters, 2 resets | 276 983 states. Four characters fill the bank twice, so that there is a full packet with and without one after it; the second reset can hit a call that begins after the first. `CallsReturn` holds for a host that never reads. |
| `usb` | control endpoint of 2, 12 requests | 785 731 states, no bound: requests, resets and sessions repeat for ever. Descriptors of 3 and 4 bytes end inside a packet and with a full one, and are asked for in part, whole and with room to spare. |
| `loader` | memory of 12 bytes, code of 6 in blocks of 2, 9 files, 2 runs of the loader | 148 635 states. The files have gaps, overlaps, a base, damaged and missing records; two runs are enough for one to repair what the other left. |

Deadlock is checked in every run but `cdc`. There the main loop is only
represented by its calls, and a device that is unplugged after the last
character and the last reset of the bound has nothing more to do.

**Fairness.** `Twi`: the processor executes, a pending interrupt is taken, and
the bus hardware clocks out what it was told to (weak fairness of each); nothing
is assumed of what the slave answers. `Alarm`: the loop, the handler and the bus
run (weak), and a write repeated for ever lands eventually (strong fairness of
its landing): without it a chip that refuses everything is never cleared, which no
code could change. The loop itself is assumed to get through its USB part, which is
what `CallsReturn` and `HandlersEnd` are about.
`Rainbow`: timer and loop run. `Commands`: the program runs, and the driver sends
what the application has written; nothing is assumed of when. `Cdc`: the steps of
a call are taken (weak), and a bus that is not suspended has a frame each millisecond
(strong, since suspends come and go): the timeout counts the frames, and
`CallsReturn` depends on nothing else. `AnswersDelivered` has the hypothesis that the
loop also comes round to its `Flush`, and that the host's driver polls the endpoint
(strong, since their conditions come and go with suspends and with the next
characters). `Usb`: the main loop, a pending interrupt, and a transfer that the host has
begun go on (weak); the host is free to give a transfer up, and then only what the
code's exits give is promised. `HostLoader`: a program that was started goes on.

**Findings** (each with a run that shows it).
1. `set_passes` stores uninitialised memory for a record that did not parse and
   answers `set` (`commands.c:84-95`): `pass_late`.
2. `set_passes` does not compare `num` with `MAXPASS` (`commands.c:79`, `92`):
   `pass_many`.

Behaviour of the code that the models contain and a maintainer should know, with
no property of its own:

* `twi_writeTo` without waiting answers 0 before anything was sent; all setters of
  `rtc.c` use it that way and ignore the code. `TwiPort` says so.
* `say_time` can answer a time that never was, when a field rolls over between
  two of its reads (`rtc.c:25-31`); `SayTimeHonest` says what it can be relied on for.
* `set_time` sets the time with the clock running and the date later: midnight in
  between is counted on the old date and then overwritten (`rtc.c:54-62`).
* `millis()` can be ahead by a power of 256, less one (`ISS-Notify.c:263`); the
  rainbow survives it (`KeepsTurning`).
* One wrong character, or a command cut by the end of a packet, makes the
  interpreter deaf until the processor is reset (`WedgedForGood`). This includes a
  newline after the number of `ISSc12`: the format takes one only after the letter.
* A control transfer given up by the host can hold the main loop: for ever in
  `CDCClassDevice.c:55`, `:72` and `DeviceStandardReq.c:132`, until the state is
  `Unattached` in `Endpoint_AVR8.c:115-128` (`HandlersEnd` lists these waits and no
  others). Pulling the cable does not always bring that state:
  `DeviceStandardReq.c:198` writes its own over it.
* A request for which the host gives up a `SetConfiguration` before its status stage
  is served with that stage's empty packet: a descriptor then seems to have
  no bytes (`DescriptorWhole`).
* A number of 256 and more passes keeps `set_passes` in its loop for ever: its
  counter is a `uint8_t` (`commands.c:74`, `79`).
* A device that has an address but no configuration wakes up from a suspend as
  `Configured` (`USBInterrupt_AVR8.c:150`), with no data endpoints.
* `MAX_MEMORY_SIZE` is called "the maximum flash image size we can support"
  (`hid_bootloader_cli.c:766`), but `ihex_get_data` answers 255 for its last block
  (line 903, `>=` for `>`), and the loader writes that without an error. It concerns
  the 64K and 128K parts of `parse_options`; `HostLoader` with `code_size` equal to
  `MAX_MEMORY_SIZE` violates `FlashIsTheFile`.

## 4. Proofs

All are for arbitrary constants, and rest only on the named assumptions of the
modules (a nonempty buffer, 0 a byte, `MAXPASS` in 1..254, and so on). Every safety
property of the passing runs is a theorem: 29 of them, and the refinement. The
inductive invariants that TLC can evaluate were checked on the instances of
section 3 before they were proved; `SyncInv` of `CommandsProofs` says that a session
exists, which TLC cannot search for.

Two proofs need an induction over data, along the digits of a number and along the
characters of a message. The provers cannot instantiate the library's induction
theorems, whose parameter is an operator. The lemma `Least` takes their place: a set
of numbers that is not empty has a least element, by `WFMin`, whose parameters are
sets. The induction then is that the set of counterexamples has no least element.

* **`TwiProofs`**: `TypeCorrect`, `WireCorrect`, `BoundsCorrect`,
  `WriteAnswerCorrect`, `ReadAnswerCorrect` and `Refinement`. None of the
  properties is inductive. `IInv` adds what ties the actors together: which status
  each state of `TWCR` allows (`BusState`), that a claimed driver works on the
  call in `wire` (`Claimed`), that the index counts the acknowledged bytes, plus one
  while a byte is under way (`Sending`), or the received ones (`Receiving`,
  `Received`), what an ended transfer left (`Ended`) and what the caller was told
  (`Told`). One lemma per action shows that it preserves each conjunct; the
  refinement maps `BecomeMaster` to `Begin`, the acknowledged bytes to `Move`, the
  stop conditions to `End` and everything else to stuttering.
* **`RtcProofs`**, for all clocks and requests that are times and any number of
  ticks and refused bytes. First the coding: `ChipReadsIt`, `RoundTrip` for 0..99,
  `SecondsKeepST` (the start bit that `set_time` adds survives for exactly the seconds
  below 80), and from them that what `get_time` decodes is the field in the
  register, control bits masked, and that what `set_time` encodes is the field in
  the chip. Then `ClockTypes`, `TimeToldIsATime` (`SayTimeHonest`) and `ClockIsSet`
  (`SetClockWorks`). The invariant says, statement by statement, which fields have
  been read, with 0 for those that were missed (as long as the seconds did not roll over, all those read so far agree
  with one of the times seen but for the seconds), and which bytes of the two
  writes are still on the bus, so that the chip is the goal except where they will
  land.
* **`PassStoreProofs`**: `StoreTypes`, `CountCovers`, `DumpsTheStart`,
  `DumpsLastSet` and `DumpsColor`. The invariant says how far `set_passes` has got
  (the block holds what the host sent, the EEPROM the block below `i`, and the count
  changes only when all is written), and that an EEPROM not written to since holds
  the last set answered for. `DumpIsLastSet` has the hypothesis that no announced
  number exceeds `MAXPASS`, because `set_passes` does not compare them (finding 2);
  what holds without it is `DumpIsStartOfLastSet`. `DumpsColor` needs that cutting
  an `int` to a word and reading it back is the identity.
* **`LoopProofs`** has the three parts of the main loop that share no variable:
  `Lights`, `Alarm` and `Rainbow`.
  - `BalanceKept`: an untouched EEPROM equals the balance answered for, and inside
    `set_wb` the channels already stored equal the variables (`InStep`).
  - `LightTypes` and `ChipsShow` (`ChipsShowTheState`): the frame is put together
    piece by piece (`LightIs`, `HeadIs`, `ChipIs`), its widths are those the chips cut
    it into (`ChipFits`), and reading it back gives the lights and the low seven
    bits of the balance (`ledIs`). `Lit` says that this frame is the last one sent
    whenever no `set_wb` is half way.
  - `AlarmTypes`, and `AlarmKept`, which is inductive as it is.
  - `RainbowTypes` (`RainbowTypeOK`), for every width of the counter, base and period: what
    `millis` returns, whichever ticks came between its loads, is a number of the
    counter's width. While it loads, the value so far is below the power of the base
    that belongs to the next byte. That the powers are what their recursive
    definition says is an induction (`WeightsExist`, `PowerIs`).
  - `RotationKept` (`ShowsARotation`): `bow_rotate` is below 8 except between the
    pacing and the display, and the two branches of the index are `(j + r) % 8`.
* **`CdcProofs`**: `TypeCorrect`, `Reliable` (`NoCharacterLost`) and `StrayBounded`
  (`StrayPerReset`), for any bank, timeout and number of characters and resets. A
  lost character would be one that is written to a bank in flight or to a full one:
  `Emptied` says that `TXINI` inside a wait means an empty bank. `NotLive` says that
  a call which has lost its endpoint ends before the device is configured again,
  and `StrayBudget` counts the one write that it may still make.
* **`CommandsProofs`**: for any messages and packets.
  - `TypeCorrect` and `WedgedStays` (`WedgedForGood`). The invariant, `PushedBack`, says
    that while the main loop's `fscanf` has no result a character can be pushed back
    only at its end (or be there from the start), so that it is the first thing the
    next one meets.
  - `InStepKept` (`InStep`) and `WedgeExcused` (`WedgeNeedsASplit`), for messages of any
    length whose numbers fit the variables they are read into, with up to 255
    records, of which any number is queued. That a number which fits is stored as it
    is, and that the `uint8_t` counts up to 255 records, is what makes the numbers
    of a command those of its message.
    The invariant, `SyncInv`, says that there are a session and a place in it: the
    messages written, their characters in a row `T`, and where each one begins
    (`Session`); what is pushed back, in the bank and still with the host are
    consecutive pieces of `T` (`Stream`); and the interpreter is before the message
    of the next command (`Idle`) or has read `k` characters of it (`Busy`). Inside a
    message its place in the format and its numbers are those of `reading[k]`
    (`InMessage`: in the greeting, after the letter, between two fields, inside a
    number). Each step of `fscanf` reads a character and goes on to `k + 1`, or ends
    a directive and stays (`ScanInMessage`, from one lemma per kind of directive).
    At the end of the data inside a message `starved` becomes true, so that an end
    that is not excused is the end of a message (`BusySees`). When a handler ends,
    nothing can follow the last field (`Complete`), so its numbers are all of the
    message's. `set_passes` decides by its first number how many records follow,
    long before the text ends: that this number is then final is an induction over
    the rest of the text (`FirstStays`).
* **`UsbProofs`**: `AddressKept`, `StallsJustified`, `BaudKept` and
  `DescriptorsWhole`, for any set of requests, lengths and endpoint size, with the
  interrupt and the host's next SETUP packet between any two steps. The invariant
  says what the flags of the control endpoint mean: a SETUP packet came alone and
  cuts off the handler that runs, or finds a packet that one has put into the bank
  since (`NewSetup`, `Cut`), without one the host is at the request being handled
  (`Serving`), only `SetConfiguration` leaves the control endpoint or loses it
  (`Handling`), the free bank at the end of SetAddress is a status stage that is over
  (`AddressStep`), the line encoding is on its way until it is read (`Encoding`), the
  bank is empty where no data is due (`Bank`), and what the host has and what is in
  flight are the descriptor up to where the handler is, a short packet being the
  last one unless it is the empty one of a request given up (`Reading`, `Stray`).
* **`HostLoaderProofs`**: `FlashHoldsTheFile` (`FlashIsTheFile`), for files of any
  length and content whose addresses fit an `unsigned int`, under the hypothesis
  `Fits` that the code and one block more fit `MAX_MEMORY_SIZE`: true of the 8K, 16K
  and 32K parts of `parse_options`, and false of those of 64K and 128K. `Says` looks the meaning of a file up (last covering record,
  last good base before it), the loader computes it line by line. The invariant ties
  them together without induction over the file: the image is what the lines read
  so far say (`SaidBy`), `extended_addr` is the base in force (`IsBase`), the blocks
  below `addr` hold the image and those above it are erased (`Flashed`). A block
  that is skipped holds nothing of the file, which needs the first block never to
  be skipped.

Only model-checked are the liveness properties (`EveryCallReturns`, `LineReleased`,
`ComesToRest`, `KeepsTurning`, `Served`, `CallsReturn`, `AnswersDelivered`,
`HandlersEnd`, `TransfersEnd`, `RunsEnd`): fairness and `ENABLED` are out of the
prover's reach. The two properties of the findings are violated.

## 5. Not modelled

* Slave mode of `twi.c`: unreachable. A read of length 0: no caller asks for it.
* `set_alarm0` followed by a stale flag: its command is commented out.
* What an overrun of `set_passes` destroys; in `PassStore`, counts outside 0..255.
* Seconds of 80 and more in `set_clock`, which clear the start bit.
* The startup animation, the pin setup and the wording of the answers.
* Charger and ADC: `get_battery_voltage` and everything under it has no caller.
* `usb_serial.c` and `hardware/usb.c`: not in the Makefile's `SRC`.
* LUFA beyond what this firmware links and calls: host mode and OTG, the other
  device classes, the XMEGA and UC3 ports, the HID parser, board drivers, and the
  documentation pages. These are most of the repository's lines (some 57 000 in 268
  files, of which the firmware and the library code it calls are a few
  thousand), so the share of lines that the models stand for is small although
  the firmware is covered.
* In `Usb`: a `GetDescriptor` with `wLength` 0, requests to other interfaces, and
  notifications, of which none is ever sent.
* In `HostLoader`: the Windows, Mac and BSD ways to reach the device; records at
  addresses where `addr + extended_addr + len` wraps (line 841), whose bytes would be
  stored outside the image; the text of a record, digit by digit.
* `Test/`: programs of their own.

## 6. What is left

1. Composition: `Rtc` and `Alarm` over `TwiPort` instead of their own `Post` and
   `Land`; `Commands` and `Cdc` over the `USB_DeviceState` of `Usb`, with the proof
   that what each assumes of the other is implied.
2. An abstract specification of the CDC stream (a queue with a cut) and the proof
   that `Cdc` implements it.
3. `set_clock` with every number the host may send, seconds of 80 and more included.
