# A TLA+ model of libusbk and the usbk command line program

USBK CryptoBridge is a USB device that encrypts the disk behind it with one of
its keys. This repository holds the library that commands it (`libusbk`) and a
command line program (`usbk_cli`). The firmware is not part of it. This
directory holds TLA+ modules translated from that source, TLC configurations
that check them on small instances, and TLAPS proofs for every instance.

## 1. Inventory

| Component | State it keeps | Operations | Interacts through |
|---|---|---|---|
| Handle and commands, `libusbk.cpp` 118-604 | `USBK`: `lastopr`, a copy of the device information | `usbk_new/_release/_refreshusbkinfo`, seven commands, `commandstatus` | two SCSI exchanges per call |
| Textual keys, `libusbk.cpp` 606-703 | none | `convertkey_decimal2hex`, `convertkey_text2hex`, `keysize_byte` | called by `usbk_setkey_decimal/_text` |
| Device list, `libusbk.cpp` 925-1053 | `USBKS`: first entry, counter, `lastopr`; links in each `USBK` | `usbk_list_new/_release/_refreshall/_get_next/_get_previous` | udev enumeration, `usbk_new`, `usbk_release` |
| udev discovery, `libusbk.cpp` 778-920 | none | `getudevinfo`, `getudevbackdisk` | libudev, sysfs |
| SCSI transport, `usbk_scsi.c`, `linux/usbk_sg_ctl.c` | one static descriptor | open, one SG_IO exchange with a timeout of 1000 ms, close | the kernel |
| Command line, `usbk_cli/src/main.cpp` | flags and option values, `main_operation` | parse, choose, call, print | libusbk |
| Windows port, `windows/usbk_sg_ctl.cpp` | one static handle | the same three functions over DeviceIoControl | the kernel |
| Protocol headers, `uip.h`, `usbk_scsi.h`, `libusbk.h` | - | numbers and structures | the device |
| Device firmware (external) | password, keys, names, label, auto activation, retry counter, last verdict | nine vendor commands | SCSI |

What is hard in this code:

* **A call is two exchanges.** `usbk_activatekey` sends ACTIVATE_KEY and then
  asks for "the" status with GET_STATUS. The device keeps one status, the
  library takes no lock, and every exchange opens and closes the node anew.
  Another process's command, an unplug or a replug fits between the two.
* **An exchange that fails says nothing.** After a timeout the command may or
  may not have been executed, and with a wrong password it may have cost a
  try. The third one erases all keys (README:70).
* **A handle is a copy.** Guards (`switch (usbk->dev_state)`) and resent data
  (`key_names[key_no - 1]`) come from the copy made by `usbk_new`; no command
  refreshes it.
* **Results change sign.** Functions return `(-1) * lastopr`, callers store
  what they get; some paths negate twice.
* **Descriptors.** A failed exchange returns before `usbk_sg_close`.

What makes each component correct:

* *Handle*: a copy nobody outdated tells the truth; each of the six calls with a
  switch over the state refuses exactly what the device would refuse for its
  state; the names that are sent again are the device's own.
* *Commands*: as long as neither another process nor a replug comes between the
  two exchanges, the result of a call is the verdict on its own command, PASS
  means the device changed as asked, and a random key reaches the caller
  exactly on PASS. Every call ends.
* *Transport*: no PASS for a lost exchange; every lost descriptor is reported.
* *Textual keys*: accepted exactly when well formed, and refused otherwise.
* *Device list*: complete or absent, each entry about one device, as long as
  nothing moves; counted right; nothing lost while the list lives; a refresh that
  fails is marked.
* *Command line*: at most one main operation, the one asked for, reported as
  it ended; a run costs at most one password try and always ends.

The file `PROJECT.json` lists every hazard at its line with the properties that
would catch it, and for every definition the lines it models.

## 2. Modules

```
UsbkProtocol                     numbers of libusbk.h, uip.h, usbk_scsi.h
  |      \        \      \
UsbkDevice UsbkScsi  UsbkAtomic  UsbkKeyConvert
      \    /    \        :            |
     LibUsbk     UsbkList :      UsbkKeyConvertProofs
     /  |  \      |     \ :
    /   |   \     |   MCUsbkList
    |   |    \  UsbkListProofs
    |   |     \           :
    |   |   LibUsbkPromise        Atomic == INSTANCE UsbkAtomic WITH ...
    |   |            \
    | LibUsbkProofs MCLibUsbk     UsbkOptions
    |   |                \         /       \
    | LibUsbkStatusProofs \   UsbkCli    UsbkOptionsProofs
    |   |                  \   /             |
    | LibUsbkCallProofs  MCUsbkCli           |
    |   |                                    |
    | LibUsbkPromiseProofs                   |
    |   |                                    |
    UsbkCliProofs ---------------------------'
```

`UsbkCli` EXTENDS `LibUsbk` and `UsbkOptions`; `UsbkCliProofs` EXTENDS `UsbkCli`
and the proof modules of both.

**UsbkDevice** (external). The device is a record `Device`; `Executed(d, m)` is
the set of devices that may result from command `m`. Its verdicts follow
`uip.h` and the documents; where they are silent (does it look at the password
or at the key number first?) every order is allowed. GET_STATUS and
GET_DEV_INFO change nothing. After a replug the last verdict is taken to be
PASS, the most misleading answer possible.

**UsbkScsi**. `send_scsi_command(plugged, fds)` is the set of results of one
exchange: passed and executed, failed with the command executed or not and one
descriptor lost, or not opened.

**LibUsbk**. One device, a set `Clients` of processes with one handle each.

| Variable | In the code |
|---|---|
| `dev`, `plugged` | the device and its port |
| `handle[c]` | the `USBK` of process `c`, libusbk.cpp 118-145, without strings that never change |
| `pc[c]` | `none`: no handle; `idle`: between calls; `status`: after the command's exchange and before `commandstatus`; `wrapped`: the same inside `usbk_setkey_decimal/_text` |
| `fds[c]` | descriptors lost at usbk_scsi.c 65-68 |
| `random_key[c]` | the buffer given to `usbk_getrandomkey` |
| `sent[c]`, `fresh[c]` | history: the command waited for, whether anything disturbed it, and whether the copy is up to date |

Every function of the interface that sends a command is an action of the same
name: its guards in the order of the code, then either an early return
(`Return`) or the exchange (`Send`). `commandstatus` is the second exchange and
the way out of the call, including what the caller does with the code it gets.
`Exit` ends a process at any point, `Unplug` and `Replug` move the device. The
branch `supported == false` never runs (line 198 sets it to true), and
`usbk_new` on a device that is not there leaves no handle. `usbk_setkey_*` with
a key number below 1 and no name reads `key_names[-1]`; on the allocators this
builds with, what lies there is no pointer to a string, and the process ends
(`Gone`).

**UsbkAtomic**, **LibUsbkPromise**: the abstract specification and the
refinement. `UsbkAtomic` knows no exchanges, handles or descriptors: a command
of caller `c` takes effect in one step (`Command`), leaves `owed[c]`, the
verdict still to be told, and `Answer` tells it, or an error of the transport.
Whoever is owed a verdict when another caller uses the device, or when it
starts anew, is owed `Anything`. A call may be refused (`Refuse`) or lost with
or without effect (`Lose`) in a single step that owes nothing. The device is a
parameter: `Executed` and `PoweredOn` are operator constants.
`LibUsbkPromise` maps the library onto it: `owed` is `Owed`, computed from
`pc` and `sent`; `answer` is `Given`, the result in the handle without the sign
that the code turns once or twice. `KeepsPromise == Atomic!Spec`.

**UsbkKeyConvert**. The two conversions of a typed key, one action each, from
every short text as an initial state. A decimal key is the sequence of the
fields between its dots: a number, one too large for an int, nothing, a field
with a letter, a field with a blank. That is what the five checks of
`convertkey_decimal2hex` tell apart. `Scale` divides the key sizes, 16, 24 and
32 bytes.

**UsbkOptions**. `_parse_options` as the globals after each turn of its loop
(`Turns`, a recursive function): `Flagged` and `Valued` are the flag and the
value an option sets, and `main_operation` is counted as the code counts it
(whether `-m`, `-x` and `-X` count depends on what stands before them).
`Proceeds` collects the early exits of `main`; `Entered(o, block)` is the test
in front of each block.

**UsbkCli**. `run[c]` is where `main` is in terminal `c`: `Start` types a line
that gets past the early exits, `Open` is `usbk_new`, each block is an action
that makes its call (`activate`, `password`, `random`, `setrandom`, ...),
`Status` is the call's second half, `ShowInfo` is `-i`, `Release` and `Leave`
end it, `Killed` ends it anywhere. Every one of them that touches the device
*is* a step of `LibUsbk`, with the arguments `main` computes: the key number
narrowed to a byte, the size through `parse_keysize`, NULL where there was no
`-p`. `todo` holds the blocks still to enter and `FirstOf` picks the next in the
order of the code. `tries` and `disturbed` are history: wrong passwords the
device counted in this run, and whether the device was used by others between
the two exchanges of one of its calls.

**UsbkList**. Several devices under several names, and one process that lists
them. `usbk_list_new` enumerates the names once; `Visit`, `Find` and `Read` are
the turns of its loop (the device is looked up by name and read by path, two
moments); `Push` links the entry. `RefreshEntry` and `ReleaseEntry` are the
turns of the two other loops. `Chain` is the walk along `next` from the first
entry. Memory is a `heap` of entries, so that a list that is dropped, an entry
that is freed early, a counter that is wrong show. An entry has the fields of
`USBK` in three groups: `usb_serial`, found by name; `serial`, read by
`usbk_new` only, which stands for product, model, firmware and capacity too;
`dev_label` and `dev_state`, which a refresh copies again (`Refreshed`).
`t_UIP_DEVINFO(n)` is what the device under `n` answers to GET_DEV_INFO.
`linuxcli_show_devices` is `usbk -s`. Between any two steps devices are plugged
in (the disk before its BackDisk), unplugged, plugged in under another's name,
or activated and deactivated by another process (`active`). History: `moved`,
the names where something was plugged or unplugged since they were looked up;
`asked`, the names where nothing happened since GET_DEV_INFO was last sent;
`quiet`, nothing moved since the enumeration. The place `faulted` is the end of
the process in a lookup: `udev_device_get_sysattr_value` returns NULL for a
device that has left, and `strncmp` reads it (libusbk.cpp:833, 970).

### What the code does that a reader of the models may not expect

* `-m` before `-x` or `-X` hides them from the count of main operations: with
  all three on the line both `-x` and `-X` run. `OneMainOperation` and `OneTry`
  make their exception for these lines.
* With `-x` or `-X`, a name given by `-m` is dropped (`name_set_with_key`).
* `-F 100 -x KEY` sends only the old name and no key, and prints "Pass.";
  so does a text that is no key, with whatever was in the buffer. `Served` asks
  nothing of these two.
* `-t` turns auto activation on and `-T` turns it off. So says the program's
  help (main.cpp:735-736), which `Served` follows; the manual has it the other
  way round (`auto_as_manual`).
* When the refresh of `-i` fails, the values of before are shown without a word
  (`InfoIsFresh` excepts it).
* After another device took the name of a list entry, a refresh brings the new
  device's label, state, counters and names next to the old one's serial number,
  product, model, firmware and capacity, and says PASS.
* `-k 257` is key 1, `-k 0` key 0: the number is narrowed before any check.
* `-l` counts as a main operation and no block tests it: the run does nothing.
* When the key of `-X` was set but the status could not be read, an error is
  printed and the key is not shown (`RandomKeyTold`).
* `previous` of a list entry is always NULL; `usbk_list_get_previous` walks
  nowhere.

## 3. Runs

The instances of `LibUsbk` have one wrong and one right password or fewer, one
user key, one device key, `MaxRetry = 2` (the step to "erased" and one before
it), `MaxFds = 1` (one lost descriptor is exhaustion). Key numbers
(`MCKeyNumbers`) go from 0 to one above the capacity, and -255 stands for the
ints whose last byte is a slot. Key sizes are none and 256 bits, since the
library only tells these apart.

| Run | Instance | Shows |
|---|---|---|
| `lib_alone` | 1 process, 2 passwords, 1 slot, all failures, fair | `TypeOK`, `FreshMeansCurrent`, `StatusStillMine`, `OwnVerdict`, `PassIsApplied`, `StateErrorIsTrue`, `RandomKeyDelivered`, `EveryLeakIsReported`, `KeepsPromise`, `CallReturns`: types; the copy is current; undisturbed, the status belongs to the command, PASS is applied and a random key is delivered exactly on PASS; each of the six switches admits the states of its command and no others; each lost descriptor is reported; the library implements `UsbkAtomic`; every call returns |
| `lib_slots` | 1 process, 2 slots, 2 names, no failures | `PassIsApplied`, `NameKept`: commands reach their slot; no name is lost |
| `lib_shared` | 2 processes, 1 password, no failures | `FreshMeansCurrent`, `OwnVerdict`, `PassIsApplied`, `KeepsPromise`: what survives every interleaving of the exchanges |
| `key_convert` | all texts up to 5 fields or characters, all key sizes | `AcceptedIffWellFormed`, `KeyIsText`: a text is accepted exactly when it is well formed; the bytes are the text, padded, and none beyond the key's size |
| `cli` | 1 terminal, lines below, all failures, fair | `CliTypeOK`, `HandleWhileWorking`, `OneTry`, `OneMainOperation`, `PassIsDone`, `RandomKeyTold`, `InfoIsFresh`, `FollowsLibrary`, `ProgramEnds`: "Pass." about a block means that what this block's options ask for, in the words of the help, is done; at most one password try; the program is a client as `LibUsbk` assumes; a run ends |
| `lists` | 2 names, 3 devices of which 2 are of known models, memory for 3 entries, fair | `ListTypeOK`, `CounterIsLength`, `ListIsComplete`, `EntryIsOneDevice`, `CurrentOrMarked`, `OnlyNullLoses`, `ListCallsEnd`: lists are complete or NULL; entries are about one device while nothing moves there; what a refresh copies is the device's or the entry is marked; memory is lost only with NULL |
| `status_of_current_command` | 2 processes | **violated**: usbk_scsi.h:35 |
| `lastopr_is_code` | 1 process | **violated**: libusbk.h:58-78 |
| `malformed_key_refused` | 1 process | **violated**: libusbk.cpp:606-613 |
| `name_set_with_key` | 1 terminal | **violated**: man/usbk.1:137-138 |
| `auto_as_manual` | 1 terminal | **violated**: man/usbk.1:93-97 |
| `list_shown` | as `lists` | **violated**: man/usbk.1:87, main.cpp:552 |

Bounds, and why they are enough.

* `MCLibUsbk`: a process does one call at a time and a call is two exchanges, so
  two processes show every way to come between two exchanges; the proofs cover
  any number. `View` hides what no later step reads (the result of the last
  call, the copy of an outdated handle beyond the fields that guards and resent
  names use, the fate of a command that was overtaken): states with the same
  view have the same future. `OnlyInterleaving` restricts two runs to a device
  that stays plugged in and exchanges that do not fail, because failures are
  covered by `lib_alone`. `Symmetry` permutes processes in a run without
  liveness.
* `MCUsbkCli`: every sequence of up to three of `-m`, `-x`, `-X`; every pair of
  operations; `-i` after each; lines without `-u` or `-p`, with the wrong
  password, a wrong format, a wrong size, `-k 0` and `-k 257`. Options that
  carry settings come first, because the option loop tests no flag when it
  takes them. `CliView` is `View` with `run`.
* `key_convert`: with `Scale = 8` keys are 2, 3 and 4 bytes, and texts reach one
  field beyond the longest; numbers are 0, 255 and 256. The proofs hold for
  every scale of `ScaleAssumption`, the real one included.
* `lists`: two names are enough for one device to be read while another comes,
  goes or takes its name; the third device is of an unknown model. Three entries
  are one list of two and a lost one. `ListView` hides the data of entries that
  no step and no property reads any more.

Mutants. For each property of a passing run a variant of one definition, named
`<definition>_<what is wrong>`, stands before it in its module: a status result
not looked at, a verdict not turned into a result, a forgotten field, a dropped
case label, a missing close, arguments swapped, a block entered again, a link
left out. With the variant in its place TLC reports the property violated.

Fairness. `FairSpec` asks only that `commandstatus` is not postponed for ever:
the call has sent its command and its next statement is the second exchange,
which the timeout in usbk_sg_ctl.c:74 bounds. `FairCliSpec` asks that `main`
goes on (`Main(c)`): the program is sequential and waits for nothing but such
exchanges. `UsbkList` asks that the loops of a call that has begun go on
(`Proceed`). Nothing is asked of the user, of other processes, or of devices,
ports and udev.

### What the violated runs show

* A second process's command between libusbk.cpp:268 and 595 makes a call report
  the verdict on that command, also PASS for a refused one.
* `commandstatus` returns the error negated (599) and callers store it: `lastopr`
  is -11. After a failed `usbk_setkey_decimal` or `_text` it is negative too.
  `print_result` then says "No Device Found (mem error)".
* `usbk_setkey_decimal` and `_text` test `rtn`, which is always 0; a text that
  does not convert is sent as the contents of an uninitialised buffer.
* The manual's command line for setting a key together with its name sets the
  key, prints "Pass." and leaves the name as it was.
* `-t` with "Pass." leaves auto activation on, where the manual says `disables',
  and `-T` off; the names of the options and the help agree with the code.
* When one device cannot be opened, `usbk_list_new` returns NULL and `usbk -s`
  walks it: the program ends by a fault.

## 4. Proofs

All for every number of processes, terminals, slots, retries and descriptors,
and any sets of passwords, keys, names, labels and command lines, from named
assumptions: `CapAssumption` (1 to 255 slots), `RetryAssumption` (at least one
try), `FdsAssumption` (at least one descriptor), `KeyNumbersAssumption` (key
numbers that fit their C types), for the program `LinesAssumption` (a line is a
sequence of options, and what is typed after an option is among the values the
library is called with), `PresetsAssumption` (so are the presets of `-k` and
`-F`), `ArgumentsAssumption` (0 is a key number, some user key exists),
`DistinctAssumption` (no name is NULL, no device key is the buffer nobody
wrote), for the list `NamesAssumption` (finitely many names) and
`NothingAssumption` (NULL, free memory and an absent device are no entry,
address or device), and for the conversion those of `UsbkKeyConvert`. That an
option's value reaches `main` unchanged, whatever the order and the number of
options, is not assumed: it is `LineTaken`.

| Theorem | Statement | Argument |
|---|---|---|
| `TypeCorrect` | `Spec => []TypeOK` | inductive as it stands. `CallBegins` reduces the nine kinds of call to three ways to begin (refuse, end, send a well-formed command); `ExecutedType` says that a device stays a device: only where a try is left is one taken away |
| `FreshCurrent` | `Spec => []FreshMeansCurrent` | with `TypeOK`: a step that changes the device makes no handle fresh, and one that makes a handle fresh fills it from the device |
| `StatusMine` | `Spec => []StatusStillMine` | with `TypeOK`: a command the device executed marks all others that wait, and its sender starts with its own verdict; `PassedIsApplied` says what a verdict PASS implies |
| `OwnVerdictAlways` | `Spec => OwnVerdict` | only `commandstatus` of a process ends its wait (`OnlyStatusReturns`), its result is the verdict less one (`ReportsVerdict`), and `StatusStillMine` says whose verdict it is |
| `PassAlwaysApplied` | `Spec => PassIsApplied` | the same, with the second half of `StatusStillMine` |
| `RandomKeyAlwaysDelivered` | `Spec => RandomKeyDelivered` | needs one more invariant, `AnswerKept`: a call that waits keeps the answer that came with its verdict |
| `LeaksAlwaysReported` | `Spec => EveryLeakIsReported` | `ExchangeLeaks`: an exchange loses a descriptor only when it fails; then case by case over the steps |
| `StateErrorsAreTrue` | `Spec => StateErrorIsTrue`, for the six calls and all their arguments | `FreshMeansCurrent`, and each call's switch admits exactly `Accepting` of its command: what is sent is admitted (`CallAdmits`), and a call that ends in a state error was not (`PerformRefuses`, `CallRefuses`) |
| `NamesAlwaysKept` | `Spec => NameKept` | `FreshMeansCurrent` and `SameNameKept`: a name that is sent again is the device's |
| `PromiseKept` | `Spec => KeepsPromise` | the refinement: `TypeOK` and `StatusStillMine` make every step of the library one of `UsbkAtomic`, or a stutter, under the mapping of `LibUsbkPromise` (`PromiseStep`) |
| `AcceptedAlwaysWellFormed`, `KeyAlwaysText` | `Spec => []...` of `UsbkKeyConvert` | the invariant `IInv`; `StreamAccepts`: the chain of extractions succeeds exactly when every field is a number of the right range |
| `CliTypeCorrect`, `HandleAlwaysWhileWorking` | `CliSpec => []...` | from `CliInv`, below |
| `LibraryFollowed` | `CliSpec => FollowsLibrary` | `StepsFollow`: every call of `main` is one `LibUsbk` allows (`CallsAreCalls`), because what is left to do was asked for on the line, and a key that is to be set came from the device |
| `PromiseKeptByProgram` | `CliSpec => KeepsPromise` | `LibraryFollowed` and `PromiseKept` |
| `PassAlwaysDone` | `CliSpec => PassIsDone` | a command under way `Serves` the block `main` is in; only reading its status prints (`PrintedIsRead`); PASS means applied (`StatusStillMine`), and applied means what the block's options ask for (`ServesDone`) |
| `InfoAlwaysFresh` | `CliSpec => InfoIsFresh` | the step that shows is `usbk_refreshusbkinfo`, which fills all fields |
| `LineTaken` | for a line of any length, `_parse_options(line)` has the values typed or the presets, and counts the main operations as `MainsCounted` says | induction over the turns of the loop (`TurnsTaken`, `ParsedTakes`) |
| `OneIsAsked` | with a count of at most 1 and not all of `-m`, `-x`, `-X`, the flags open at most one block besides the display | each block tests a main letter of its own (`BlockLetters`), and a count of 1 leaves one letter, or `-m` with one of `-x` and `-X`, and then the block "name" is closed |
| `OneMainOperationAlways` | `CliSpec => []OneMainOperation` | `Left`, below, with `OneIsAsked` (`OneLeft`) |
| `OneTryAlways` | `CliSpec => []OneTry` | `Paid`, below: one block is left, its call sends one command that may cost a try, and making a random key costs none (`GenerateIsFree`) |
| `RandomKeyAlwaysTold` | `CliSpec => RandomKeyTold` | `Told`, below, and `StatusReads`: a status that says PASS about a generation nobody disturbed comes with a key of the device |
| `ListTypeCorrect`, `CounterAlwaysLength`, `NothingElseLost`, `EntryAlwaysOneDevice`, `AlwaysCurrentOrMarked`, `ListAlwaysComplete` | `Spec => []...` of `UsbkList` | the invariant of the list, below |

The inductive invariant of the program is `IInv` of `UsbkCliProofs`: `TypeOK`,
`StatusStillMine`, `AnswerKept`, and for every terminal `Line(c)`: a handle
exactly while `main` works, no lost descriptor before it, only blocks the line
asks for left to do, a generated key in the buffer while "setrandom" is among
them, and a command under way that serves the current block. `HandleWhileWorking`
alone is not inductive: that a call ends the process or begins depends on what
`main` hands over, which depends on the block it is in.

On top of it, `Limits(c)` says how much a run may still do. `Left`: the line
counted at most one main operation, and "setrandom" takes the place of
"random". `Paid`: no try was spent while a block is left and none while a key
is made; `OneTry` alone would let a block begin after a try. `Told`: nothing
was shown before "setrandom", which is only left when a size was given, holds a
device's key in the buffer unless the run was disturbed, and sends that key.
What one terminal does leaves `Line` and `Limits` of the others alone
(`OthersKeep`, `GlobalsApart`).

`RandomKeyTold` speaks of `disturbed` because of two terminals: without it TLC
finds this run. Terminal A has opened the device; terminal B sets the label,
after which the device obeys nothing until it is unplugged. The GENERATE_KEY of
A, whose code does not look at the state, is refused with a blank answer; the
device is unplugged and plugged in again, and the status A reads says PASS. A's
copy of the state still admits SET_KEY, so the blank buffer is set as the key,
with "Pass.", and shown. A run by itself would be stopped by its own copy of
the state.

The inductive invariant of the list is `IInv` of `UsbkListProofs`. The
properties speak of the walk `Chain`, and a walk is not preserved by a step but
made anew, so the invariant says what the walk is: a sequence of distinct
addresses, each entry's `next` the one after it, the last NULL, its length the
counter (`ChainOK`). Pushing in front and freeing the first then change a sequence
that is known (`WholePushed`, `WholePopped`), and the walk is unique
(`WalkUnique`), so `Chain` is that sequence. `InPlace` says what each place of
the loops has (a list, an entry being made, the entry the refresh is at, which
is on the walk). `MemoryLeft` keeps a free address for every name still to
visit, `NamesApart` keeps the names of the entries and of those to visit
apart, and `NodesApart` the devices under different names, so that what happens
under one name leaves the answers under the others alone (`CurrentOrMarked`
needs it); `FoundIsThere` ties an entry being made to the device found, and
`NoneMissing` says that while nothing moves the plugged names are those to
visit, in hand or on the list: `ListIsComplete` is its last case.

What the list theorems do not say: anything about an entry's identity once its
name has moved. `EntryIsOneDevice` and `ListIsComplete` except every movement,
so a device that moves during the enumeration may be listed under two names, and
a refreshed entry may mix two devices; both happen in the model.

Only checked by TLC: `CallReturns`, `ProgramEnds` and `ListCallsEnd` (liveness
under fairness is beyond the prover), and that the operators describe the code
on the instances of section 3. The six violated properties are
counterexamples and need no proof.

## 5. Not modelled

* Texts: contents of messages, help, layout, `-D` and debug output.
* The getters, which return a field of the handle. `usbk_get_keyname` counts
  keys from 0, all calls that take a key number count from 1; `main` converts.
* The Windows transport: the same three functions with a timeout of 5 seconds,
  and the same contract. The list and udev parts do not exist there.
* Which sysfs attribute udev discovery compares with which string, and failing
  `calloc` or `udev_new`.
* Partitions: `Plug` gives a device one block node. The enumeration has no filter
  against other block nodes of the same disk (libusbk.cpp:958-970), and a
  partitioned virtual disk would be visited once for each.
* The fault from a NULL attribute (libusbk.cpp:833, 970) in `UsbkList` beyond the
  device that is looked up: other devices that leave while `getudevbackdisk`
  walks them. In `LibUsbk` a process may end between any two steps (`Exit`), which
  includes it.
* Memory: strings lost by each refresh, writes after free on error paths, except
  where a read outside the array ends the process, and whole entries of a list.
* Hazards that `PROJECT.json` lists without a property, with the reason there:
  writes to freed memory (libusbk.cpp:174, 1015), memory lost by a refresh (581),
  `previous` (993), a device listed twice because it moved (963), and the blank
  key of `-X` after a disturbed generation (543, section 4).
* Several threads in one process, which the static descriptor of
  usbk_sg_ctl.c:29 rules out and the program does not use.
* Build and packaging.

## 6. Plan

1. *(done)* `LibUsbk` with its device and transport, its runs and first theorems.
2. *(done)* `UsbkKeyConvert`: the two conversions, checked and proved.
3. *(done)* `UsbkOptions`, `UsbkCli`: the option loop and `main` over LibUsbk's
   calls, checked; that it follows the library and that `Pass.' is true, proved.
4. *(done)* `UsbkList`: several devices, enumeration, links and counter, refresh
   and release, `usbk -s`.
5. *(done)* `UsbkAtomic` and the refinement, checked and proved.
6. *(done)* Theorems about `UsbkList`: the walk, counter, memory, completeness and
   the fields of its entries; the option loop for lines of any length; how much
   one run of `UsbkCli` does, in any number of terminals.
7. *(open)* Two terminals in a run of `UsbkCli`; a theorem that `UsbkList`'s
   refresh marks exactly the entries it could not read, and `UsbkList` on top of
   `LibUsbk`'s device, whose entries have two of the fields only.
