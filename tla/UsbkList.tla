------------------------------ MODULE UsbkList ------------------------------
(***************************************************************************)
(* The list of all USBKs (usbk_list_* of libusbk.cpp) and usbk -s, which   *)
(* shows it.                                                               *)
(*                                                                         *)
(* A process enumerates the block devices once, with udev, and then opens  *)
(* the USBKs among them one after the other: each is looked up again by    *)
(* its name (getudevinfo) and read by its path, an exchange of UsbkScsi.   *)
(* Between any two of these steps devices are unplugged, plugged in under  *)
(* another's name or changed by another process.  The list itself lives in *)
(* memory only this process sees; it is modelled pointer by pointer.       *)
(***************************************************************************)
EXTENDS UsbkScsi, FiniteSets, Sequences, SequencesExt

CONSTANTS
    Names,          \* names udev gives to block devices
    Devices,        \* devices with the vendor's USB and SCSI identification
    Known,          \* those with the product identification of a known model
    MaxEntries,     \* entries the process has memory for
    Absent,         \* no device under a name
    Free,           \* memory that holds no entry
    Null            \* the NULL pointer

ASSUME NamesAssumption   == IsFiniteSet(Names)
ASSUME KnownAssumption   == Known \subseteq Devices
ASSUME EntriesAssumption == MaxEntries \in Nat /\ MaxEntries >= 1

VARIABLES
    node,           \* node[n]: the device under the name n, or Absent
    backdisk,       \* devices whose BackDisk udev shows too
    active,         \* devices another process has activated
    pc,             \* what the process is doing
    todo,           \* names of the enumeration still to visit
    new_usbk,       \* the entry usbk_new is making, or Null
    heap,           \* heap[e]: the USBK at address e, or Free
    usbks,          \* the list, or Null
    list_entry,     \* the entry of the list the process is at, or Null
    fds,            \* descriptors the process lost
    moved,          \* names plugged or unplugged since the process looked there
    asked,          \* history: names with nothing new since GET_DEV_INFO was sent there
    quiet,          \* history: none was since the enumeration
    lost            \* history: entries of lists that were not returned

outside == <<node, backdisk, active>>
memory  == <<heap, usbks, lost>>
vars    == <<outside, pc, todo, new_usbk, memory, list_entry, fds, moved, asked, quiet>>

Ids    == 1 .. MaxEntries
Places == {"idle", "scan", "find", "read", "listed", "none", "refresh", "release",
           "faulted", "crashed"}

(* The fields of USBK: the name; the serial number that USB gave; of the   *)
(* device information the serial number, which stands for all that only    *)
(* usbk_new copies (product, model, firmware, capacity), the label, which  *)
(* stands for what a refresh copies again, and the state; the result; the  *)
(* links.  A serial number or label is the device that it came from.       *)
Entry == [dev : Names, usb_serial : Devices, serial : Devices, dev_label : Devices,
          dev_state : {USBK_DS_DEACTIVATE, USBK_DS_ACTIVATE},
          lastopr : {USBK_LO_PASS, USBK_LO_SCSI_ERROR},
          next : Ids \cup {Null}, previous : {Null}]

(* An entry that usbk_new is still making, and the list itself (USBK_LIST).  *)
Making == [dev : Names, usb_serial : Devices \cup {Null}]
Lists  == [usbk : Ids \cup {Null}, counter : 0 .. MaxEntries, lastopr : USBK_LO]

(* What stands for nothing is not taken for something.                     *)
ASSUME NothingAssumption ==
    /\ Absent \notin Devices
    /\ Free \notin Entry
    /\ Null \notin Ids \cup Making \cup Lists

Plugged(n) == node[n] # Absent

Init ==
    /\ node = [n \in Names |-> Absent]
    /\ backdisk = {}
    /\ active = {}
    /\ pc = "idle"
    /\ todo = {}
    /\ new_usbk = Null
    /\ heap = [e \in Ids |-> Free]
    /\ usbks = Null
    /\ list_entry = Null
    /\ fds = 0
    /\ moved = {}
    /\ asked = {}
    /\ quiet = TRUE
    /\ lost = {}

-----------------------------------------------------------------------------
(* The list in memory                                                      *)

Address(e) == IF heap[e] = Free THEN {} ELSE {e}
Live       == UNION {Address(e) : e \in Ids}
NewId      == CHOOSE e \in Ids \ Live : \A f \in Ids \ Live : e <= f

(* Where the walk goes from its i-th entry, and from the list itself.      *)
Pointer(s, first, h, i) == IF i = 0 THEN first ELSE h[s[i]].next

(* The walks along `next' from the entry `first' in the memory h: each     *)
(* entry is where the pointer before it says, and the last pointer is NULL *)
(* or to memory that holds no entry.                                       *)
Walks(first, h) ==
    {s \in BoundedSeq(Ids, MaxEntries) :
        /\ \A i \in 1 .. Len(s) : s[i] = Pointer(s, first, h, i - 1) /\ h[s[i]] # Free
        /\ LET last == Pointer(s, first, h, Len(s))
           IN  last = Null \/ h[last] = Free}

(* The entries of the list, as a user walks them: there is one walk.       *)
Chain == IF usbks = Null THEN << >> ELSE CHOOSE s \in Walks(usbks.usbk, heap) : TRUE

Entries == Range(Chain)

(* Variant: the rest of the list is not linked to the new entry.           *)
Linked_Alone(entry, first) == [entry EXCEPT !.next = Null]

(* The new entry becomes the first.  `previous' of the old first entry is  *)
(* left alone: the test in the code is on the pointer just set to NULL.    *)
Linked(entry, first) == [entry EXCEPT !.next = first, !.previous = Null]

Push(entry) ==
    /\ heap' = [heap EXCEPT ![NewId] = Linked(entry, usbks.usbk)]
    /\ usbks' = [usbks EXCEPT !.usbk = NewId, !.counter = @ + 1]

-----------------------------------------------------------------------------
(* usbk_list_new                                                           *)

(* Nobody has a pointer to the list any more.                              *)
GiveUp(place) ==
    /\ pc' = place
    /\ lost' = lost \cup Entries
    /\ usbks' = Null
    /\ todo' = {} /\ new_usbk' = Null
    /\ moved' = {} /\ asked' = {} /\ quiet' = TRUE
    /\ UNCHANGED <<outside, heap, list_entry>>

ReturnNull == GiveUp("none")

(* The enumeration.  Memory never runs out here, so that calloc and        *)
(* udev_new do not fail: starting is held back when it might not do.       *)
usbk_list_new ==
    /\ pc = "idle"
    /\ Cardinality(Live) + Cardinality(Names) <= MaxEntries
    /\ pc' = "scan"
    /\ usbks' = [usbk |-> Null, counter |-> 0, lastopr |-> USBK_LO_PASS]
    /\ todo' = {n \in Names : Plugged(n)}
    /\ moved' = {} /\ asked' = {} /\ quiet' = TRUE
    /\ UNCHANGED <<outside, new_usbk, heap, list_entry, fds, lost>>

(* udev_device_new_from_syspath: a device that is gone is skipped, and one *)
(* plugged in since may have another path.                                 *)
Skip(n) ==
    /\ ~Plugged(n) \/ n \in moved
    /\ UNCHANGED <<pc, new_usbk>>

Enter(n) ==
    /\ Plugged(n)
    /\ pc' = "find"
    /\ new_usbk' = [dev |-> n, usb_serial |-> Null]

Visit(n) ==
    /\ pc = "scan" /\ n \in todo
    /\ todo' = todo \ {n}
    /\ Skip(n) \/ Enter(n)
    /\ UNCHANGED <<outside, memory, list_entry, fds, moved, asked, quiet>>

(* Variants: nothing of what udev says looked at; any device that is       *)
(* usable, whatever its name.                                              *)
Found_Unchecked(n) == {node[n]}
Found_Any(n) == {d \in Known \cap backdisk : \E m \in Names : node[m] = d}

(* getudevinfo: the device under the name, if its model is known and udev  *)
(* shows its BackDisk.                                                     *)
Found(n) == {node[n]} \cap Known \cap backdisk

(* A device that goes after Visit has found it may be found gone, or may   *)
(* go between two looks at what udev says of it: the NULL that the second  *)
(* look returns is handed to strncmp.                                      *)
Find ==
    /\ pc = "find"
    /\ \/ /\ Found(new_usbk.dev) = {}
          /\ ReturnNull
       \/ /\ ~Plugged(new_usbk.dev)
          /\ GiveUp("faulted")
       \/ \E d \in Found(new_usbk.dev) :
             /\ pc' = "read"
             /\ new_usbk' = [new_usbk EXCEPT !.usb_serial = d]
             /\ moved' = moved \ {new_usbk.dev}
             /\ UNCHANGED <<outside, todo, memory, list_entry, asked, quiet>>
    /\ UNCHANGED fds

(* What the device under the name answers to GET_DEV_INFO.                 *)
t_UIP_DEVINFO(n) ==
    [serial   |-> node[n],
     devlabel |-> node[n],
     devstate |-> IF node[n] \in active THEN USBK_DS_ACTIVATE ELSE USBK_DS_DEACTIVATE]

(* GET_DEV_INFO, and the entry is put into the list.                       *)
Read ==
    /\ pc = "read"
    /\ LET n    == new_usbk.dev
           info == t_UIP_DEVINFO(n)
       IN  \E io \in send_scsi_command(Plugged(n), fds) :
             /\ fds' = io.fds
             /\ IF io.rtn < 0 THEN ReturnNull
                ELSE /\ Push([dev |-> n, usb_serial |-> new_usbk.usb_serial,
                              serial |-> info.serial, dev_label |-> info.devlabel,
                              dev_state |-> info.devstate, lastopr |-> USBK_LO_PASS,
                              next |-> Null, previous |-> Null])
                     /\ pc' = "scan" /\ new_usbk' = Null
                     /\ asked' = asked \cup {n}
                     /\ UNCHANGED <<outside, todo, lost, list_entry, moved, quiet>>

Return ==
    /\ pc = "scan" /\ todo = {}
    /\ pc' = "listed"
    /\ UNCHANGED <<outside, todo, new_usbk, memory, list_entry, fds, moved, asked, quiet>>

-----------------------------------------------------------------------------
(* What is done with a list                                                *)

(* Variant: a failed exchange is not noted.                                *)
Refreshed_Unmarked(entry, info, rtn) ==
    IF rtn < 0 THEN entry
    ELSE [entry EXCEPT !.lastopr = USBK_LO_PASS,
                       !.dev_label = info.devlabel, !.dev_state = info.devstate]

(* usbk_refreshusbkinfo of one entry.  The serial number, and with it      *)
(* product, model, firmware and capacity, is not copied again: after       *)
(* another device took the name it is still the old one's.                 *)
Refreshed(entry, info, rtn) ==
    IF rtn < 0 THEN [entry EXCEPT !.lastopr = USBK_LO_SCSI_ERROR]
    ELSE [entry EXCEPT !.lastopr = USBK_LO_PASS,
                       !.dev_label = info.devlabel, !.dev_state = info.devstate]

usbk_list_refreshall ==
    /\ pc = "listed"
    /\ pc' = "refresh"
    /\ list_entry' = usbks.usbk
    /\ UNCHANGED <<outside, todo, new_usbk, memory, fds, moved, asked, quiet>>

(* One turn of its loop; the result of usbk_refreshusbkinfo is not looked  *)
(* at, and the list as a whole says PASS.                                  *)
RefreshEntry ==
    /\ pc = "refresh"
    /\ IF list_entry = Null
       THEN /\ pc' = "listed"
            /\ usbks' = [usbks EXCEPT !.lastopr = USBK_LO_PASS]
            /\ UNCHANGED <<heap, list_entry, fds, asked>>
       ELSE LET n == heap[list_entry].dev
            IN  \E io \in send_scsi_command(Plugged(n), fds) :
                  /\ fds' = io.fds
                  /\ heap' = [heap EXCEPT
                               ![list_entry] = Refreshed(@, t_UIP_DEVINFO(n), io.rtn)]
                  /\ list_entry' = heap[list_entry].next
                  /\ asked' = asked \cup {n}
                  /\ UNCHANGED <<pc, usbks>>
    /\ UNCHANGED <<outside, todo, new_usbk, lost, moved, quiet>>

usbk_list_release ==
    /\ pc = "listed"
    /\ pc' = "release"
    /\ UNCHANGED <<outside, todo, new_usbk, memory, list_entry, fds, moved, asked, quiet>>

(* Variants: `next' is read when the entry is gone; the list keeps its     *)
(* first entry.                                                            *)
AfterFirst_Freed == [usbks EXCEPT !.usbk = Null, !.counter = @ - 1]
AfterFirst_Stays == [usbks EXCEPT !.counter = @]

(* The list without its first entry.                                       *)
AfterFirst == [usbks EXCEPT !.usbk = heap[usbks.usbk].next, !.counter = @ - 1]

(* One turn of the loop of usbk_list_release, and free(usbks) at its end.  *)
(* The write to the freed entry's `next' hits memory nobody else has.      *)
ReleaseEntry ==
    /\ pc = "release"
    /\ IF usbks.usbk = Null
       THEN /\ usbks' = Null /\ moved' = {} /\ asked' = {} /\ quiet' = TRUE
            /\ pc' = "idle"
            /\ UNCHANGED heap
       ELSE /\ usbks' = AfterFirst
            /\ heap' = [heap EXCEPT ![usbks.usbk] = Free]
            /\ UNCHANGED <<pc, moved, asked, quiet>>
    /\ UNCHANGED <<outside, todo, new_usbk, list_entry, lost, fds>>

(* linuxcli_show_devices: the list is walked at once, NULL or not, printed *)
(* with its counter and released.                                          *)
linuxcli_show_devices ==
    /\ pc \in {"listed", "none"}
    /\ pc' = IF usbks = Null THEN "crashed" ELSE "release"
    /\ UNCHANGED <<outside, todo, new_usbk, memory, list_entry, fds, moved, asked, quiet>>

(* Another user of the library, who looks at the result and tries again.   *)
TryAgain ==
    /\ pc = "none"
    /\ pc' = "idle"
    /\ UNCHANGED <<outside, todo, new_usbk, memory, list_entry, fds, moved, asked, quiet>>

Exit ==
    /\ pc \in {"idle", "none", "faulted", "crashed"}
    /\ heap' = [e \in Ids |-> Free] /\ lost' = {} /\ fds' = 0 /\ pc' = "idle"
    /\ UNCHANGED <<outside, todo, new_usbk, usbks, list_entry, moved, asked, quiet>>

Proceed ==
    \/ \E n \in Names : Visit(n)
    \/ Find \/ Read \/ Return \/ RefreshEntry \/ ReleaseEntry

User ==
    \/ usbk_list_new \/ usbk_list_refreshall \/ usbk_list_release
    \/ linuxcli_show_devices \/ TryAgain \/ Exit

-----------------------------------------------------------------------------
(* The surroundings                                                        *)

Moved(n) ==
    /\ moved' = IF usbks = Null THEN {} ELSE moved \cup {n}
    /\ asked' = asked \ {n}
    /\ quiet' = (usbks = Null)
    /\ UNCHANGED <<pc, todo, new_usbk, memory, list_entry, fds>>

(* The disk is there before its BackDisk is.                               *)
Plug ==
    \E n \in Names, d \in Devices :
        /\ ~Plugged(n) /\ \A m \in Names : node[m] # d
        /\ node' = [node EXCEPT ![n] = d]
        /\ UNCHANGED <<backdisk, active>>
        /\ Moved(n)

BackDiskShown ==
    \E n \in Names :
        /\ Plugged(n) /\ node[n] \notin backdisk
        /\ backdisk' = backdisk \cup {node[n]}
        /\ UNCHANGED <<node, active, pc, todo, new_usbk, memory, list_entry, fds,
                       moved, asked, quiet>>

Unplug ==
    \E n \in Names :
        /\ Plugged(n)
        /\ node' = [node EXCEPT ![n] = Absent]
        /\ backdisk' = backdisk \ {node[n]}
        /\ active' = active \ {node[n]}
        /\ Moved(n)

(* Another process activates or deactivates the device.                    *)
Changed ==
    \E n \in Names :
        /\ node[n] \in Known
        /\ active' = IF node[n] \in active THEN active \ {node[n]} ELSE active \cup {node[n]}
        /\ asked' = asked \ {n}
        /\ UNCHANGED <<node, backdisk, pc, todo, new_usbk, memory, list_entry, fds, moved,
                       quiet>>

Surroundings == Plug \/ BackDiskShown \/ Unplug \/ Changed

Next == Proceed \/ User \/ Surroundings

(* A call that has begun goes on; every exchange ends within its timeout.  *)
Spec == Init /\ [][Next]_vars /\ WF_vars(Proceed)

-----------------------------------------------------------------------------
(* Safety                                                                  *)

ListTypeOK ==
    /\ node \in [Names -> Devices \cup {Absent}]
    /\ backdisk \subseteq Devices /\ active \subseteq Devices
    /\ pc \in Places
    /\ todo \subseteq Names
    /\ new_usbk \in Making \cup {Null}
    /\ heap \in [Ids -> Entry \cup {Free}]
    /\ usbks \in Lists \cup {Null}
    /\ list_entry \in Ids \cup {Null}
    /\ fds \in 0 .. MaxFds
    /\ moved \subseteq Names /\ asked \subseteq Names
    /\ quiet \in BOOLEAN
    /\ lost \subseteq Ids

(* The number usbk -s prints is the number of devices it has printed: the  *)
(* counter is the length of the walk, at every step of making and of       *)
(* releasing the list.                                                     *)
CounterIsLength == usbks # Null => usbks.counter = Len(Chain)

(* A list that is returned has every device of the vendor that is plugged  *)
(* in, each once, unless something was plugged or unplugged meanwhile: a   *)
(* device that cannot be opened is never left out silently.                *)
ListIsComplete ==
    pc = "listed" /\ quiet =>
        /\ {heap[e].serial : e \in Entries} = {node[n] : n \in Names} \ {Absent}
        /\ Len(Chain) = Cardinality({n \in Names : Plugged(n)})

(* An entry is about one device, the one still under its name, although    *)
(* its parts come from a lookup by name, from reading by path and from     *)
(* refreshing, until something is plugged or unplugged there.  After that  *)
(* nothing is promised: see Refreshed.                                     *)
EntryIsOneDevice ==
    \A e \in Entries : heap[e].dev \notin moved =>
        /\ heap[e].usb_serial = heap[e].serial
        /\ heap[e].dev_label = heap[e].serial
        /\ heap[e].serial = node[heap[e].dev]

(* Of the information a refresh copies, an entry without an error shows    *)
(* what the device now under its name answers, if nothing happened there   *)
(* since GET_DEV_INFO was last sent, even if another device has taken the  *)
(* name.  usbk_list_refreshall itself always says PASS, so the entry is    *)
(* where a failure must show.  What only usbk_new copies is left out.      *)
CurrentOrMarked ==
    \A e \in Entries : heap[e].lastopr = USBK_LO_PASS /\ heap[e].dev \in asked =>
        LET info == t_UIP_DEVINFO(heap[e].dev)
        IN  heap[e].dev_label = info.devlabel /\ heap[e].dev_state = info.devstate

(* Memory is lost only with a list that is not returned: else every entry  *)
(* is reachable until it is freed, and freed when the list is.             *)
OnlyNullLoses == Live = Entries \cup lost

(* Liveness                                                                *)

(* The calls end, whatever is plugged and unplugged while they run: they   *)
(* return, or, in Find, the process ends by a fault.                       *)
ListCallsEnd == pc \in {"scan", "find", "read", "refresh", "release"} ~>
                  pc \in {"listed", "none", "faulted", "idle"}

-----------------------------------------------------------------------------
(* What the documentation says and the code does not do                    *)

(* man/usbk.1:87, `shows device list of USBKs plugged to host system', and *)
(* main.cpp:552, which prints `None' where there are none: usbk -s never   *)
(* walks a list it has not, and ends by that.                              *)
DevicesAreShown == pc # "crashed"

=============================================================================
