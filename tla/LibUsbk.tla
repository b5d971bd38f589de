------------------------------ MODULE LibUsbk -------------------------------
(***************************************************************************)
(* The library libusbk as its client processes use it on one device.       *)
(*                                                                         *)
(* A client is a process with at most one USBK handle.  Every call of the  *)
(* interface sends its command and then asks for its status: two exchanges *)
(* with the device, between which other processes reach the same device    *)
(* and the device may be unplugged.  A call is therefore two steps: the    *)
(* action named after the function checks the handle's copy of the device  *)
(* and sends the command, commandstatus reads the verdict and returns.     *)
(* Nothing is atomic beyond one exchange; the library takes no lock.       *)
(*                                                                         *)
(* The field `supported' of the handle is left out: usbk_new sets it to    *)
(* true whatever the device is, so the branches that test it never run.    *)
(***************************************************************************)
EXTENDS UsbkDevice, UsbkScsi

CONSTANTS
    Clients,        \* processes that use the library on the device
    KeyNumbers,     \* key numbers they pass as a uint8_t
    IntKeyNumbers,  \* key numbers they pass as an int
    KeySizes,       \* key sizes they ask for
    Null            \* the NULL passed for a key name

ASSUME KeyNumbersAssumption ==
    /\ KeyNumbers \subseteq 0 .. 255
    /\ IntKeyNumbers \subseteq Int
    /\ KeySizes \subseteq KEYSIZE

VARIABLES
    dev,            \* the device
    plugged,        \* is it plugged in
    handle,         \* handle[c]: the structure USBK of process c
    pc,             \* pc[c]: what process c is doing
    fds,            \* fds[c]: descriptors process c lost
    random_key,     \* random_key[c]: the buffer c passes to usbk_getrandomkey
    sent,           \* history: the command c waits for, and its fate
    fresh           \* history: nothing happened to the device since c read it

vars == <<dev, plugged, handle, pc, fds, random_key, sent, fresh>>

(* Process states: without a handle, with one, waiting for the status in a *)
(* call, and the same in a call made through usbk_setkey_decimal or _text, *)
(* which negate the result once more.                                      *)
Awaiting == {"status", "wrapped"}
PCs      == {"none", "idle"} \cup Awaiting

Codes == -15 .. 15

Handle == [lastopr       : Codes,
           dev_state     : 0 .. 5,
           current_key   : 0 .. MultiKeyCap,
           retry_num     : 0 .. MaxRetry,
           dev_label     : AllLabels,
           autoact_keyno : 0 .. MultiKeyCap,
           key_names     : [Slots -> AllNames]]

(* calloc(1, sizeof(USBK)): also what stands for the NULL pointer.         *)
NoHandle == [lastopr       |-> 0,
             dev_state     |-> 0,
             current_key   |-> 0,
             retry_num     |-> 0,
             dev_label     |-> NoLabel,
             autoact_keyno |-> 0,
             key_names     |-> [k \in Slots |-> NoName]]

Sent == [cmd : Command, verdict : OPRS, key : AllKeys, disturbed : BOOLEAN]

NothingSent == [cmd       |-> Zeroed(GENERATE_KEY),
                verdict   |-> OPRS_PASS,
                key       |-> NoKey,
                disturbed |-> FALSE]

TypeOK ==
    /\ dev \in Device
    /\ plugged \in BOOLEAN
    /\ handle \in [Clients -> Handle]
    /\ pc \in [Clients -> PCs]
    /\ fds \in [Clients -> 0 .. MaxFds]
    /\ random_key \in [Clients -> AllKeys]
    /\ sent \in [Clients -> Sent]
    /\ fresh \in [Clients -> BOOLEAN]

Init ==
    /\ dev = FactoryDevice
    /\ plugged = TRUE
    /\ handle = [c \in Clients |-> NoHandle]
    /\ pc = [c \in Clients |-> "none"]
    /\ fds = [c \in Clients |-> 0]
    /\ random_key = [c \in Clients |-> JunkKey]
    /\ sent = [c \in Clients |-> NothingSent]
    /\ fresh = [c \in Clients |-> FALSE]

-----------------------------------------------------------------------------
(* One exchange, and the way out of a call                                 *)

Nobody == [c \in Clients |-> FALSE]

(* Processes waiting for a status when something else happens to the       *)
(* device: the status they read may not be that of their command.          *)
Disturbed(others) ==
    [c \in Clients |->
        IF c \in others /\ pc[c] \in Awaiting
        THEN [sent[c] EXCEPT !.disturbed = TRUE] ELSE sent[c]]

(* lastopr of a call that ends with this code.                             *)
Outcome(call, code) == IF call = "wrapped" THEN -code ELSE code

(* An early return: nothing was sent.                                      *)
Return(c, call, code) ==
    /\ handle' = [handle EXCEPT ![c].lastopr = Outcome(call, code)]
    /\ UNCHANGED <<dev, plugged, pc, fds, random_key, sent, fresh>>

(* The answer's key field, of the one command that reads.                  *)
Answers(m, verdict) ==
    IF m.op = GENERATE_KEY THEN GeneratedKeys(verdict) ELSE {NoKey}

(* Send command m: the call goes on to commandstatus, or reports that the  *)
(* exchange failed, which does not say whether the device executed m.      *)
Send(c, call, m) ==
    \E io \in send_scsi_command(plugged, fds[c]) :
        /\ fds' = [fds EXCEPT ![c] = io.fds]
        /\ dev' \in IF io.executed THEN Executed(dev, m) ELSE {dev}
        /\ fresh' = IF io.executed THEN Nobody ELSE fresh
        /\ LET others == IF io.executed THEN Disturbed(Clients \ {c}) ELSE sent
           IN IF io.rtn < 0
              THEN /\ handle' = [handle EXCEPT
                                    ![c].lastopr = Outcome(call, USBK_LO_SCSI_ERROR)]
                   /\ sent' = others
                   /\ UNCHANGED pc
              ELSE /\ \E k \in Answers(m, dev'.lastop) :
                        sent' = [others EXCEPT ![c] =
                                   [cmd |-> m, verdict |-> dev'.lastop,
                                    key |-> k, disturbed |-> FALSE]]
                   /\ pc' = [pc EXCEPT ![c] = call]
                   /\ UNCHANGED handle
        /\ UNCHANGED <<plugged, random_key>>

(* The shape of every call that changes the device: the key number against *)
(* the capacity, the copy of the device's state, then the command.         *)
Perform(c, call, key_no, states, m) ==
    \/ /\ key_no > MultiKeyCap
       /\ Return(c, call, USBK_LO_INVALID_KEYNO)
    \/ /\ key_no <= MultiKeyCap
       /\ handle[c].dev_state \notin states
       /\ Return(c, call, USBK_LO_STATE_ERROR)
    \/ /\ key_no <= MultiKeyCap
       /\ handle[c].dev_state \in states
       /\ Send(c, call, m)

(* The process ends, by itself, by a signal or by a fault: the kernel      *)
(* closes its descriptors, and a command already sent has been executed.   *)
Gone(c) ==
    /\ handle' = [handle EXCEPT ![c] = NoHandle]
    /\ pc' = [pc EXCEPT ![c] = "none"]
    /\ fds' = [fds EXCEPT ![c] = 0]
    /\ random_key' = [random_key EXCEPT ![c] = JunkKey]
    /\ sent' = [sent EXCEPT ![c] = NothingSent]
    /\ fresh' = [fresh EXCEPT ![c] = FALSE]
    /\ UNCHANGED <<dev, plugged>>

-----------------------------------------------------------------------------
(* Handles: reading the device information, without changing the device    *)

(* Variant: the copy of the state is forgotten.                            *)
Filled_StateKept(h, info) ==
    [h EXCEPT !.lastopr       = USBK_LO_PASS,
              !.current_key   = info.current_keyno,
              !.retry_num     = info.retry_num,
              !.dev_label     = info.devlabel,
              !.autoact_keyno = info.autoactivate_keyno,
              !.key_names     = info.keyname]

(* What usbk_new and usbk_refreshusbkinfo copy out of t_UIP_DEVINFO.       *)
Filled(h, info) ==
    [h EXCEPT !.lastopr       = USBK_LO_PASS,
              !.dev_state     = info.devstate,
              !.current_key   = info.current_keyno,
              !.retry_num     = info.retry_num,
              !.dev_label     = info.devlabel,
              !.autoact_keyno = info.autoactivate_keyno,
              !.key_names     = info.keyname]

(* udev finds the node of a device that is plugged in, if it also shows    *)
(* the block device of the BackDisk slot.                                  *)
getudevinfo == IF plugged THEN {USBK_LO_PASS, -USBK_LO_UDEV_ERROR}
               ELSE {-USBK_LO_UDEV_ERROR}

usbk_new(c) ==
    /\ pc[c] = "none"
    /\ \E rtn \in getudevinfo :
          IF rtn < 0 THEN UNCHANGED vars
          ELSE \E io \in send_scsi_command(plugged, fds[c]) :
                 /\ fds' = [fds EXCEPT ![c] = io.fds]
                 /\ IF io.rtn < 0 THEN UNCHANGED <<handle, pc, fresh>>
                    ELSE /\ handle' = [handle EXCEPT ![c] = Filled(NoHandle, DevInfo(dev))]
                         /\ pc' = [pc EXCEPT ![c] = "idle"]
                         /\ fresh' = [fresh EXCEPT ![c] = TRUE]
                 /\ UNCHANGED <<dev, plugged, random_key, sent>>

usbk_refreshusbkinfo(c) ==
    /\ pc[c] = "idle"
    /\ \E io \in send_scsi_command(plugged, fds[c]) :
          /\ fds' = [fds EXCEPT ![c] = io.fds]
          /\ IF io.rtn < 0
             THEN /\ handle' = [handle EXCEPT ![c].lastopr = USBK_LO_SCSI_ERROR]
                  /\ UNCHANGED fresh
             ELSE /\ handle' = [handle EXCEPT ![c] = Filled(@, DevInfo(dev))]
                  /\ fresh' = [fresh EXCEPT ![c] = TRUE]
    /\ UNCHANGED <<dev, plugged, pc, random_key, sent>>

usbk_release(c) ==
    /\ pc[c] = "idle"
    /\ handle' = [handle EXCEPT ![c] = NoHandle]
    /\ pc' = [pc EXCEPT ![c] = "none"]
    /\ fresh' = [fresh EXCEPT ![c] = FALSE]
    /\ UNCHANGED <<dev, plugged, fds, random_key, sent>>

-----------------------------------------------------------------------------
(* Calls that change the device                                            *)

(* The structures of uip.h as the calls fill them, after memset.           *)
t_UIP_ACTIVATE(pass, key_no) ==
    [Zeroed(ACTIVATE_KEY) EXCEPT !.password = pass, !.keyno = key_no]

t_UIP_CHPASS(old_pass, new_pass) ==
    [Zeroed(CHANGE_PASS) EXCEPT !.password = old_pass, !.new_password = new_pass]

t_UIP_SETDEVICELABEL(pass, device_label) ==
    [Zeroed(SET_DEV_NAME) EXCEPT !.password = pass, !.devlabel = device_label]

t_UIP_SETAUTOACTIVATE(pass, key_no) ==
    [Zeroed(SET_AUTO_ACTIVE) EXCEPT !.password = pass, !.keyno = key_no]

t_UIP_SETKEY(pass, key_no, name, options, key) ==
    [Zeroed(SET_KEY) EXCEPT !.password = pass, !.keyno = key_no, !.keyname = name,
                            !.options = options, !.key = key]

usbk_activatekey(c, password, key_no) ==
    /\ pc[c] = "idle"
    /\ Perform(c, "status", key_no, {USBK_DS_DEACTIVATE}, t_UIP_ACTIVATE(password, key_no))

usbk_deactivatekey(c) ==
    /\ pc[c] = "idle"
    /\ Perform(c, "status", 0, {USBK_DS_ACTIVATE, USBK_DS_ACTIVATE_WITH_BACKDISK},
               Zeroed(DEACTIVATE_KEY))

(* A NULL password leaves the zeroed field: it is NoPassword here.         *)
usbk_changepassword(c, old_pass, new_pass) ==
    /\ pc[c] = "idle"
    /\ Perform(c, "status", 0, {USBK_DS_DEACTIVATE, USBK_DS_FABRIC_DEFAULT},
               t_UIP_CHPASS(old_pass, new_pass))

(* Variant: the only case label of the switch is missing.                  *)
usbk_setdevicelabel_NoCase(c, pass, device_label) ==
    /\ pc[c] = "idle"
    /\ Perform(c, "status", 0, {}, t_UIP_SETDEVICELABEL(pass, device_label))

usbk_setdevicelabel(c, pass, device_label) ==
    /\ pc[c] = "idle"
    /\ Perform(c, "status", 0, {USBK_DS_DEACTIVATE},
               t_UIP_SETDEVICELABEL(pass, device_label))

(* Variant: the key number sent as the int it is.                          *)
usbk_setautact_Int(c, pass, key_no) ==
    /\ pc[c] = "idle"
    /\ Perform(c, "status", key_no, {USBK_DS_DEACTIVATE},
               t_UIP_SETAUTOACTIVATE(pass, key_no))

usbk_setautact(c, pass, key_no) ==
    /\ pc[c] = "idle"
    /\ Perform(c, "status", key_no, {USBK_DS_DEACTIVATE},
               t_UIP_SETAUTOACTIVATE(pass, Byte(key_no)))

(* Variant: a key set without a name loses the one it had.                 *)
SetKey_Nameless(c, call, pass, key_no, key_name, key_size, key) ==
    /\ pc[c] = "idle"
    /\ Perform(c, call, key_no, {USBK_DS_DEACTIVATE},
               t_UIP_SETKEY(pass, Byte(key_no),
                            IF key_name = Null THEN NoName ELSE key_name,
                            IF key_size = KEYSIZE_NULL THEN SETKEY_NAMEONLY
                            ELSE SETKEY_NAME_AND_KEY,
                            IF key_size = KEYSIZE_NULL THEN NoKey ELSE key))

(* Without a name the copy of the name in the handle is sent again; the    *)
(* copy of a slot below the first lies outside key_names, and reading a    *)
(* name from there ends the process.  Without a size only the name goes.   *)
SetKey(c, call, pass, key_no, key_name, key_size, key) ==
    /\ pc[c] = "idle"
    /\ IF key_name = Null /\ key_no < 1 /\ handle[c].dev_state = USBK_DS_DEACTIVATE
       THEN Gone(c)
       ELSE Perform(c, call, key_no, {USBK_DS_DEACTIVATE},
              t_UIP_SETKEY(pass, Byte(key_no),
                 IF key_name = Null THEN handle[c].key_names[key_no] ELSE key_name,
                 IF key_size = KEYSIZE_NULL THEN SETKEY_NAMEONLY ELSE SETKEY_NAME_AND_KEY,
                 IF key_size = KEYSIZE_NULL THEN NoKey ELSE key))

usbk_setkey_keyname(c, pass, key_no, key_name, key_size, key) ==
    SetKey(c, "status", pass, key_no, key_name, key_size, key)

usbk_setkey_hex(c, pass, key_no, key_size, key) ==
    usbk_setkey_keyname(c, pass, key_no, Null, key_size, key)

(* usbk_setkey_decimal and usbk_setkey_text: the conversion's result is    *)
(* overwritten and never looked at, so a text that does not convert sends  *)
(* the buffer as it is, JunkKey; the result of the call inside is negated. *)
usbk_setkey_converted(c, pass, key_no, key_size, key_hex) ==
    SetKey(c, "wrapped", pass, key_no, Null, key_size, key_hex)

(* No look at the device's state; the size is checked before.              *)
usbk_getrandomkey(c, keysize) ==
    /\ pc[c] = "idle"
    /\ IF keysize = KEYSIZE_NULL
       THEN Return(c, "status", USBK_LO_INVALID_KEYSIZE)
       ELSE Send(c, "status", Zeroed(GENERATE_KEY))

(* Returning from the call with a code and a retry number.                 *)
Finish(c, io, code, retry, key) ==
    /\ fds' = [fds EXCEPT ![c] = io.fds]
    /\ handle' = [handle EXCEPT ![c].lastopr = code, ![c].retry_num = retry]
    /\ random_key' = [random_key EXCEPT ![c] = key]
    /\ pc' = [pc EXCEPT ![c] = "idle"]
    /\ sent' = [sent EXCEPT ![c] = NothingSent]
    /\ UNCHANGED <<dev, plugged, fresh>>

(* Variant: the verdict's number taken for the result's.                   *)
StatusCode_Raw(c, io) ==
    Outcome(pc[c], IF io.rtn < 0 THEN -USBK_LO_SCSI_ERROR ELSE dev.lastop)

StatusCode(c, io) ==
    Outcome(pc[c], IF io.rtn < 0 THEN -USBK_LO_SCSI_ERROR ELSE dev.lastop - 1)

StatusRetry(c, io) == IF io.rtn < 0 THEN handle[c].retry_num ELSE dev.retry

(* Variant: the answer copied out whatever the status says.                *)
StatusKey_Unchecked(c, code) ==
    IF sent[c].cmd.op = GENERATE_KEY THEN sent[c].key ELSE random_key[c]

StatusKey(c, code) ==
    IF sent[c].cmd.op = GENERATE_KEY /\ code = USBK_LO_PASS THEN sent[c].key
    ELSE random_key[c]

(* Variant: wait for a device that is gone.                                *)
commandstatus_Waits(c) ==
    /\ pc[c] \in Awaiting
    /\ plugged
    /\ \E io \in send_scsi_command(plugged, fds[c]) :
          Finish(c, io, StatusCode(c, io), StatusRetry(c, io), StatusKey(c, StatusCode(c, io)))

(* The second exchange, and the end of the call: a status that cannot be   *)
(* read returns the error negated, and the caller stores it so.  The key   *)
(* of a GENERATE_KEY is handed out when the status says PASS.              *)
commandstatus(c) ==
    /\ pc[c] \in Awaiting
    /\ \E io \in send_scsi_command(plugged, fds[c]) :
          Finish(c, io, StatusCode(c, io), StatusRetry(c, io), StatusKey(c, StatusCode(c, io)))

-----------------------------------------------------------------------------
(* The surroundings                                                        *)

Exit(c) ==
    /\ pc[c] # "none" \/ fds[c] > 0
    /\ Gone(c)

Unplug ==
    /\ plugged
    /\ plugged' = FALSE
    /\ UNCHANGED <<dev, handle, pc, fds, random_key, sent, fresh>>

(* udev creates the node again under the same name.                        *)
Replug ==
    /\ ~plugged
    /\ plugged' = TRUE
    /\ dev' = PoweredOn(dev)
    /\ sent' = Disturbed(Clients)
    /\ fresh' = Nobody
    /\ UNCHANGED <<handle, pc, fds, random_key>>

SomeSetKey(c) ==
    \/ \E p \in Passwords, k \in IntKeyNumbers, n \in KeyNames, s \in KeySizes,
          key \in UserKeys : usbk_setkey_keyname(c, p, k, n, s, key)
    \/ \E p \in Passwords, k \in KeyNumbers, s \in KeySizes,
          key \in UserKeys \cup ({random_key[c]} \ {JunkKey}) :
          usbk_setkey_hex(c, p, k, s, key)
    \/ \E p \in Passwords, k \in KeyNumbers, s \in KeySizes,
          key \in UserKeys \cup {JunkKey} : usbk_setkey_converted(c, p, k, s, key)

Call(c) ==
    \/ \E p \in Passwords, k \in KeyNumbers : usbk_activatekey(c, p, k)
    \/ usbk_deactivatekey(c)
    \/ \E old, new \in AllPasswords : usbk_changepassword(c, old, new)
    \/ \E p \in Passwords, l \in Labels : usbk_setdevicelabel(c, p, l)
    \/ \E p \in Passwords, k \in IntKeyNumbers : usbk_setautact(c, p, k)
    \/ SomeSetKey(c)
    \/ \E s \in KeySizes : usbk_getrandomkey(c, s)

(* The commands that the calls may send.                                   *)
Requests ==
    {t_UIP_ACTIVATE(p, k) : p \in Passwords, k \in KeyNumbers}
    \cup {Zeroed(DEACTIVATE_KEY), Zeroed(GENERATE_KEY)}
    \cup {t_UIP_CHPASS(old, new) : old, new \in AllPasswords}
    \cup {t_UIP_SETDEVICELABEL(p, l) : p \in Passwords, l \in Labels}
    \cup {t_UIP_SETAUTOACTIVATE(p, Byte(i)) : p \in Passwords, i \in IntKeyNumbers}
    \cup {t_UIP_SETKEY(p, Byte(i), n, o, key) :
            p \in Passwords, i \in IntKeyNumbers \cup KeyNumbers, n \in AllNames,
            o \in {SETKEY_NAMEONLY, SETKEY_NAME_AND_KEY}, key \in AllKeys}

ClientStep(c) ==
    \/ usbk_new(c)
    \/ usbk_refreshusbkinfo(c)
    \/ usbk_release(c)
    \/ Call(c)
    \/ commandstatus(c)
    \/ Exit(c)

Next == (\E c \in Clients : ClientStep(c)) \/ Unplug \/ Replug

Spec == Init /\ [][Next]_vars

(* A call that sent its command goes on to ask for the status, and both    *)
(* exchanges end: the ioctl has a timeout of one second.  Nothing is       *)
(* assumed about what a process does between its calls.                    *)
FairSpec == Spec /\ \A c \in Clients : WF_vars(commandstatus(c))

-----------------------------------------------------------------------------
(* Safety                                                                  *)

Abs(code) == IF code < 0 THEN -code ELSE code

(* What the device looks like after a command took effect.                 *)
Applied(d, m) ==
    CASE m.op = ACTIVATE_KEY ->
            /\ d.state \in {USBK_DS_ACTIVATE, USBK_DS_ACTIVATE_WITH_BACKDISK}
            /\ d.current = m.keyno
      [] m.op = DEACTIVATE_KEY  -> d.state = USBK_DS_DEACTIVATE
      [] m.op = CHANGE_PASS     -> /\ d.state = USBK_DS_DEACTIVATE
                                   /\ d.password = m.new_password
      [] m.op = SET_DEV_NAME    -> /\ d.state = USBK_DS_MUST_REMOVE
                                   /\ d.devlabel = m.devlabel
      [] m.op = SET_AUTO_ACTIVE -> d.autoact = m.keyno
      [] m.op = SET_KEY         -> /\ d.keynames[m.keyno] = m.keyname
                                   /\ m.options = SETKEY_NAME_AND_KEY =>
                                        d.keys[m.keyno] = m.key
      [] OTHER                  -> TRUE

(* While a call waits and nobody disturbed it, the status the device keeps *)
(* is still the one of its command, and a command that passed is still in  *)
(* effect: nothing else may touch the device unnoticed between the command *)
(* and commandstatus.                                                      *)
StatusStillMine ==
    \A c \in Clients :
        pc[c] \in Awaiting /\ ~sent[c].disturbed =>
            /\ dev.lastop = sent[c].verdict
            /\ dev.lastop = OPRS_PASS => Applied(dev, sent[c].cmd)

(* What a call that ends in this step may say of its own command: it asked *)
(* for the status, read one, and nobody else used the device since.        *)
Reports(c) ==
    /\ pc[c] \in Awaiting /\ pc'[c] = "idle"
    /\ ~sent[c].disturbed
    /\ Abs(handle'[c].lastopr) # USBK_LO_SCSI_ERROR

Mirrors(h, info) ==
    /\ h.dev_state     = info.devstate
    /\ h.current_key   = info.current_keyno
    /\ h.retry_num     = info.retry_num
    /\ h.dev_label     = info.devlabel
    /\ h.autoact_keyno = info.autoactivate_keyno
    /\ h.key_names     = info.keyname

(* While nothing has happened to the device since a process read its       *)
(* information (usbk_new, usbk_refreshusbkinfo), the handle tells the      *)
(* truth about it, field by field: the state the guards look at, the key   *)
(* names that are sent again, the retry number the user is shown.          *)
FreshMeansCurrent ==
    \A c \in Clients :
        fresh[c] => /\ pc[c] = "idle"
                    /\ Mirrors(handle[c], DevInfo(dev))

(* The result of a call is the verdict of the device on the command of     *)
(* that very call (commandstatus reads `the' status, whoever's it is), as  *)
(* long as no other process and no replug came between the two exchanges.  *)
OwnVerdictStep(c) ==
    Reports(c) => Abs(handle'[c].lastopr) = sent[c].verdict - 1

OwnVerdict == [][\A c \in Clients : OwnVerdictStep(c)]_vars

(* A call that returns PASS has changed the device as it was asked to, as  *)
(* long as no other process and no replug came between its two exchanges:  *)
(* no PASS for a command that was lost, refused or never sent.             *)
PassIsApplied ==
    [][\A c \in Clients :
         Reports(c) /\ handle'[c].lastopr = USBK_LO_PASS => Applied(dev, sent[c].cmd)]_vars

(* The calls with a switch over dev_state, by the command they send.       *)
Asks(c, op) ==
    \/ /\ op = ACTIVATE_KEY
       /\ \E p \in Passwords, k \in KeyNumbers : usbk_activatekey(c, p, k)
    \/ /\ op = DEACTIVATE_KEY
       /\ usbk_deactivatekey(c)
    \/ /\ op = CHANGE_PASS
       /\ \E old, new \in AllPasswords : usbk_changepassword(c, old, new)
    \/ /\ op = SET_DEV_NAME
       /\ \E p \in Passwords, l \in Labels : usbk_setdevicelabel(c, p, l)
    \/ /\ op = SET_AUTO_ACTIVE
       /\ \E p \in Passwords, k \in IntKeyNumbers : usbk_setautact(c, p, k)
    \/ /\ op = SET_KEY
       /\ SomeSetKey(c)

(* A process that has just read the device information is refused with     *)
(* STATE_ERROR, by any of the six functions with a switch over dev_state   *)
(* and whatever it passes to it, only what the device would refuse, and    *)
(* what it sends is never refused by the device for its state: each switch *)
(* admits the states of its command and no others.                         *)
StateErrorStep(c) ==
    fresh[c] =>
        /\ pc'[c] \in Awaiting /\ sent'[c].cmd.op # GENERATE_KEY =>
             dev.state \in Accepting(sent'[c].cmd.op)
        /\ pc'[c] = "idle" /\ Abs(handle'[c].lastopr) = USBK_LO_STATE_ERROR =>
             \A op \in Opcodes : dev.state \in Accepting(op) => ~Asks(c, op)

StateErrorIsTrue == [][\A c \in Clients : StateErrorStep(c)]_vars

(* A process that has just read the device information and sets a key      *)
(* without naming it (usbk_setkey_hex, _decimal, _text) leaves the names   *)
(* of all keys as they are, although the command always carries a name.    *)
NameKept ==
    [][\A c \in Clients, p \in Passwords, k \in KeyNumbers :
         /\ fresh[c]
         /\ \E key \in UserKeys : \/ usbk_setkey_hex(c, p, k, KEYSIZE_256BIT, key)
                                  \/ usbk_setkey_converted(c, p, k, KEYSIZE_256BIT, key)
         => dev'.keynames = dev.keynames]_vars

(* When usbk_getrandomkey returns PASS, the caller's buffer holds a key    *)
(* the device generated; on every other result it is left alone.  Again    *)
(* only if nobody else and no replug came between the two exchanges: PASS  *)
(* may be another command's, and the answer that is handed out empty.      *)
RandomKeyDelivered ==
    [][\A c \in Clients :
         pc[c] \in Awaiting /\ ~sent[c].disturbed /\ pc'[c] = "idle" =>
            IF sent[c].cmd.op = GENERATE_KEY /\ handle'[c].lastopr = USBK_LO_PASS
            THEN random_key'[c] \in DeviceKeys
            ELSE random_key'[c] = random_key[c]]_vars

(* send_scsi_command loses a descriptor when an exchange fails, and the    *)
(* caller always hears of it: by a SCSI error, or by no handle at all.  It *)
(* never loses more than one at a time, and never one on the good path.    *)
(* That it loses them, until none is left, is taken as it is.              *)
EveryLeakIsReported ==
    [][\A c \in Clients : fds'[c] > fds[c] =>
         /\ fds'[c] = fds[c] + 1
         /\ \/ Abs(handle'[c].lastopr) = USBK_LO_SCSI_ERROR
            \/ pc'[c] = "none"]_vars

(* Liveness                                                                *)

(* Every call returns: no process waits for a status for ever, whether the *)
(* device answers, is lost, or is unplugged between the two exchanges.     *)
CallReturns ==
    \A c \in Clients : pc[c] \in Awaiting ~> pc[c] \notin Awaiting

-----------------------------------------------------------------------------
(* What the documentation says and the code does not do                    *)

(* usbk_scsi.h:35 calls GET_STATUS `Get Status of Current Command': the    *)
(* result of a call is about that call, also when a second process uses    *)
(* the device at the same time.                                            *)
StatusOfCurrentCommand ==
    [][\A c \in Clients :
         pc[c] \in Awaiting /\ pc'[c] = "idle" /\ plugged
            /\ Abs(handle'[c].lastopr) # USBK_LO_SCSI_ERROR
            => Abs(handle'[c].lastopr) = sent[c].verdict - 1]_vars

(* libusbk.h:58-78 lists the values of lastopr; print_result prints those  *)
(* and takes any other for a memory error.                                 *)
LastoprIsCode == \A c \in Clients : handle[c].lastopr \in USBK_LO

(* libusbk.cpp:606-613 lists what a decimal key has to look like, and the  *)
(* result USBK_LO_INVALID_KEY exists for one that does not: such a text    *)
(* never becomes a key of the device.                                      *)
MalformedKeyRefused == \A k \in Slots : dev.keys[k] # JunkKey

=============================================================================
