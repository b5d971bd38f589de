----------------------------- MODULE UsbkDevice -----------------------------
(***************************************************************************)
(* The USBK device as its users know it.  The firmware is not part of this *)
(* repository: the operators below are what the protocol header uip.h, the *)
(* README (three wrong passwords erase the keys, a new password makes new  *)
(* random keys) and the manual page (a new label asks for a replug, auto   *)
(* activation) say of it, and no more than the library needs to be checked *)
(* against.  The module declares no variable: the device is a record that  *)
(* LibUsbk keeps in one.                                                   *)
(***************************************************************************)
EXTENDS UsbkProtocol

CONSTANTS
    Passwords,      \* the passwords a user may type
    NoPassword,     \* a zeroed password field, and no password assigned yet
    UserKeys,       \* keys a user may choose
    DeviceKeys,     \* keys the device's random generator may produce
    JunkKey,        \* the contents of a key buffer nobody wrote
    NoKey,          \* the key of a slot that holds none: all zeros
    KeyNames,       \* names a user may give to a key
    NoName,         \* the name of a slot nobody named
    Labels,         \* labels a user may give to the device
    NoLabel,        \* the label it has before
    MultiKeyCap,    \* number of key slots (1 in an A101, 3 in an A103)
    MaxRetry        \* wrong passwords in a row that erase the device

ASSUME CapAssumption   == MultiKeyCap \in 1 .. 255
ASSUME RetryAssumption == MaxRetry \in Nat /\ MaxRetry >= 1

AllPasswords == Passwords \cup {NoPassword}
AllKeys      == UserKeys \cup DeviceKeys \cup {JunkKey, NoKey}
AllNames     == KeyNames \cup {NoName}
AllLabels    == Labels \cup {NoLabel}
Slots        == 1 .. MultiKeyCap

Device == [state    : USBK_DS,
           password : AllPasswords,
           keys     : [Slots -> AllKeys],
           keynames : [Slots -> AllNames],
           devlabel : AllLabels,
           autoact  : 0 .. MultiKeyCap,
           current  : Slots,
           retry    : 0 .. MaxRetry,
           lastop   : OPRS]

(* A device as it leaves the factory: no password, no keys.                *)
FactoryDevice ==
    [state    |-> USBK_DS_FABRIC_DEFAULT,
     password |-> NoPassword,
     keys     |-> [k \in Slots |-> NoKey],
     keynames |-> [k \in Slots |-> NoName],
     devlabel |-> NoLabel,
     autoact  |-> 0,
     current  |-> 1,
     retry    |-> MaxRetry,
     lastop   |-> OPRS_PASS]

(* The structures t_UIP_ACTIVATE ... t_UIP_SETKEY as one record: every     *)
(* command leaves the fields it does not have zeroed.                      *)
Command == [op           : Opcodes,
            password     : AllPasswords,    \* old_password of CHANGE_PASS
            new_password : AllPasswords,
            keyno        : 0 .. 255,
            options      : {SETKEY_NAMEONLY, SETKEY_NAME_AND_KEY},
            keyname      : AllNames,
            key          : AllKeys,
            devlabel     : AllLabels]

(* memset(&structure, 0, sizeof(structure)) before the fields are filled.  *)
Zeroed(op) == [op           |-> op,
               password     |-> NoPassword,
               new_password |-> NoPassword,
               keyno        |-> 0,
               options      |-> SETKEY_NAMEONLY,
               keyname      |-> NoName,
               key          |-> NoKey,
               devlabel     |-> NoLabel]

-----------------------------------------------------------------------------
(* Verdicts                                                                *)

(* The states in which the device obeys a command.                         *)
Accepting(op) ==
    CASE op = DEACTIVATE_KEY -> {USBK_DS_ACTIVATE, USBK_DS_ACTIVATE_WITH_BACKDISK}
      [] op = CHANGE_PASS    -> {USBK_DS_DEACTIVATE, USBK_DS_FABRIC_DEFAULT}
      [] op = GENERATE_KEY   -> USBK_DS \ {USBK_DS_MUST_REMOVE}
      [] OTHER               -> {USBK_DS_DEACTIVATE}

StateRefusal(d) ==
    IF d.state = USBK_DS_MUST_REMOVE THEN OPRS_USBK_UNPLUGING ELSE OPRS_GEN_FAIL

(* A password is asked for by every change of a setting, but not when the  *)
(* first one is assigned.                                                  *)
WrongPassword(d, m) ==
    /\ m.op \notin {DEACTIVATE_KEY, GENERATE_KEY}
    /\ d.state # USBK_DS_FABRIC_DEFAULT
    /\ m.password # d.password

BadKeyNumber(m) ==
    \/ m.op \in {ACTIVATE_KEY, SET_KEY} /\ m.keyno \notin Slots
    \/ m.op = SET_AUTO_ACTIVE /\ m.keyno \notin 0 .. MultiKeyCap

BadNewPassword(m) == m.op = CHANGE_PASS /\ m.new_password = NoPassword

PasswordRefusal(d) == IF d.retry <= 1 THEN OPRS_FABRIC_RESET ELSE OPRS_FAILED_PASS

(* In which order the device looks at the password and at the rest is not  *)
(* documented: any of the complaints that apply may be its verdict.        *)
Complaints(d, m) ==
    (IF WrongPassword(d, m) THEN {PasswordRefusal(d)} ELSE {})
    \cup (IF BadKeyNumber(m) THEN {OPRS_INVALID_KEYNO} ELSE {})
    \cup (IF BadNewPassword(m) THEN {OPRS_INVALID_NEWPASS} ELSE {})

Verdicts(d, m) ==
    IF d.state \notin Accepting(m.op) THEN {StateRefusal(d)}
    ELSE IF Complaints(d, m) = {} THEN {OPRS_PASS}
    ELSE Complaints(d, m)

-----------------------------------------------------------------------------
(* Effects                                                                 *)

(* All keys and the password erased, after MaxRetry wrong passwords.       *)
Erased(d) == [d EXCEPT !.state    = USBK_DS_FABRIC_DEFAULT,
                       !.password = NoPassword,
                       !.keys     = [k \in Slots |-> NoKey],
                       !.autoact  = 0,
                       !.retry    = MaxRetry]

(* A command obeyed.                                                       *)
Obeyed(d, m) ==
    CASE m.op = ACTIVATE_KEY ->
            {[d EXCEPT !.state = s, !.current = m.keyno] :
                s \in {USBK_DS_ACTIVATE, USBK_DS_ACTIVATE_WITH_BACKDISK}}
      [] m.op = DEACTIVATE_KEY -> {[d EXCEPT !.state = USBK_DS_DEACTIVATE]}
      [] m.op = CHANGE_PASS ->
            {[d EXCEPT !.state = USBK_DS_DEACTIVATE, !.password = m.new_password,
                       !.keys = ks] : ks \in [Slots -> DeviceKeys]}
      [] m.op = SET_DEV_NAME ->
            {[d EXCEPT !.state = USBK_DS_MUST_REMOVE, !.devlabel = m.devlabel]}
      [] m.op = SET_AUTO_ACTIVE -> {[d EXCEPT !.autoact = m.keyno]}
      [] m.op = SET_KEY ->
            {[d EXCEPT !.keynames[m.keyno] = m.keyname,
                       !.keys[m.keyno] = IF m.options = SETKEY_NAME_AND_KEY
                                         THEN m.key ELSE @]}
      [] OTHER -> {d}

(* A correct password restores the retry counter.                          *)
Restored(d, m) ==
    IF m.op \in {DEACTIVATE_KEY, GENERATE_KEY} THEN d
    ELSE [d EXCEPT !.retry = MaxRetry]

Outcomes(d, m, verdict) ==
    CASE verdict = OPRS_PASS          -> Obeyed(Restored(d, m), m)
      [] verdict = OPRS_FAILED_PASS   -> {[d EXCEPT !.retry = @ - 1]}
      [] verdict = OPRS_FABRIC_RESET  -> {Erased(d)}
      [] OTHER                        -> {d}

(* The devices that may result from executing m; the verdict stays behind  *)
(* as the last operation, for GET_STATUS to read.                          *)
Executed(d, m) ==
    UNION {{[o EXCEPT !.lastop = v] : o \in Outcomes(d, m, v)} : v \in Verdicts(d, m)}

(* The key that GENERATE_KEY puts into its answer; a refusal leaves it     *)
(* blank.                                                                  *)
GeneratedKeys(verdict) == IF verdict = OPRS_PASS THEN DeviceKeys ELSE {NoKey}

(* The device after it was unplugged and plugged again: auto activation    *)
(* needs no password, a pending label takes effect.  The last operation is *)
(* forgotten; a device that answers PASS is the most misleading one.       *)
PoweredOn(d) ==
    [d EXCEPT !.state = IF @ = USBK_DS_FABRIC_DEFAULT THEN @
                        ELSE IF d.autoact = 0 THEN USBK_DS_DEACTIVATE
                        ELSE USBK_DS_ACTIVATE,
              !.current = IF d.autoact = 0 THEN @ ELSE d.autoact,
              !.lastop = OPRS_PASS]

(* The part of t_UIP_DEVINFO that can change.                              *)
DevInfo(d) == [devstate           |-> d.state,
               current_keyno      |-> d.current,
               retry_num          |-> d.retry,
               devlabel           |-> d.devlabel,
               autoactivate_keyno |-> d.autoact,
               keyname            |-> d.keynames]

=============================================================================
