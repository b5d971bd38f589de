--------------------------- MODULE LibUsbkProofs ----------------------------
(***************************************************************************)
(* Proofs about LibUsbk, for every number of processes, key slots, wrong   *)
(* passwords and descriptors, and any set of passwords, keys and names.    *)
(***************************************************************************)
EXTENDS LibUsbk, TLAPS

(* What one exchange may result in.                                        *)
ExchangeResults ==
    [rtn : {USBK_SCSI_PASS, USBK_SCSI_OPEN_FAIL, USBK_SCSI_TRANSFER_FAIL},
     executed : BOOLEAN, fds : 0 .. MaxFds]

(* An exchange never holds more descriptors than the process may have: a   *)
(* node is opened only while one is left.                                  *)
LEMMA ExchangeType ==
    ASSUME NEW p \in BOOLEAN, NEW n \in 0 .. MaxFds
    PROVE  send_scsi_command(p, n) \subseteq ExchangeResults
<1> USE FdsAssumption DEF USBK_SCSI_PASS, USBK_SCSI_OPEN_FAIL, USBK_SCSI_TRANSFER_FAIL,
        USBK_SG_PASS, USBK_SG_ERR_NOT_DEVICE, USBK_SG_ERR_IOCTL_SCSI,
        USBK_SG_ERR_COMMAND_FAIL
<1>1. CASE usbk_sg_open(p, n) < 0
  BY <1>1 DEF send_scsi_command, ExchangeResults
<1>2. CASE ~(usbk_sg_open(p, n) < 0)
  <2>1. n < MaxFds
    BY <1>2 DEF usbk_sg_open
  <2>2. \A io \in usbk_sg_tansfer : Exchange(io, n) \in ExchangeResults
    <3> SUFFICES ASSUME NEW io \in usbk_sg_tansfer
                 PROVE  Exchange(io, n) \in ExchangeResults
      OBVIOUS
    <3>1. io.executed \in BOOLEAN
      <4>1. CASE io = [rtn |-> USBK_SG_PASS, executed |-> TRUE]
        BY <4>1
      <4>2. CASE io \in [rtn : {USBK_SG_ERR_IOCTL_SCSI, USBK_SG_ERR_COMMAND_FAIL},
                         executed : BOOLEAN]
        BY <4>2
      <4> QED BY <4>1, <4>2 DEF usbk_sg_tansfer
    <3>2. CASE io.rtn < 0
      BY <2>1, <3>1, <3>2 DEF Exchange, ExchangeResults
    <3>3. CASE ~(io.rtn < 0)
      BY <3>1, <3>3 DEF Exchange, ExchangeResults
    <3> QED BY <3>2, <3>3
  <2> QED BY <1>2, <2>2 DEF send_scsi_command
<1> QED BY <1>1, <1>2

-----------------------------------------------------------------------------
(* The device                                                              *)

(* A device with one field changed is a device; the other lemmas chain     *)
(* these.                                                                  *)
LEMMA DeviceFields ==
    ASSUME NEW d \in Device
    PROVE  /\ \A x \in USBK_DS : [d EXCEPT !.state = x] \in Device
           /\ \A x \in AllPasswords : [d EXCEPT !.password = x] \in Device
           /\ \A x \in [Slots -> AllKeys] : [d EXCEPT !.keys = x] \in Device
           /\ \A x \in [Slots -> AllNames] : [d EXCEPT !.keynames = x] \in Device
           /\ \A x \in AllLabels : [d EXCEPT !.devlabel = x] \in Device
           /\ \A x \in 0 .. MultiKeyCap : [d EXCEPT !.autoact = x] \in Device
           /\ \A x \in Slots : [d EXCEPT !.current = x] \in Device
           /\ \A x \in 0 .. MaxRetry : [d EXCEPT !.retry = x] \in Device
           /\ \A x \in OPRS : [d EXCEPT !.lastop = x] \in Device
<1>1. \A x \in USBK_DS : [d EXCEPT !.state = x] \in Device
  BY DEF Device
<1>2. \A x \in AllPasswords : [d EXCEPT !.password = x] \in Device
  BY DEF Device
<1>3. \A x \in [Slots -> AllKeys] : [d EXCEPT !.keys = x] \in Device
  BY DEF Device
<1>4. \A x \in [Slots -> AllNames] : [d EXCEPT !.keynames = x] \in Device
  BY DEF Device
<1>5. \A x \in AllLabels : [d EXCEPT !.devlabel = x] \in Device
  BY DEF Device
<1>6. \A x \in 0 .. MultiKeyCap : [d EXCEPT !.autoact = x] \in Device
  BY DEF Device
<1>7. \A x \in Slots : [d EXCEPT !.current = x] \in Device
  BY DEF Device
<1>8. \A x \in 0 .. MaxRetry : [d EXCEPT !.retry = x] \in Device
  BY DEF Device
<1>9. \A x \in OPRS : [d EXCEPT !.lastop = x] \in Device
  BY DEF Device
<1> QED BY <1>1, <1>2, <1>3, <1>4, <1>5, <1>6, <1>7, <1>8, <1>9

(* A command obeyed leaves a device, if its key number is that of a slot.  *)
LEMMA ObeyedType ==
    ASSUME NEW d \in Device, NEW m \in Command, ~BadKeyNumber(m)
    PROVE  Obeyed(d, m) \subseteq Device
<1> USE DEF ACTIVATE_KEY, DEACTIVATE_KEY, CHANGE_PASS, SET_DEV_NAME, SET_AUTO_ACTIVE,
        SET_KEY, GENERATE_KEY
<1>a. m.op \in Opcodes
  BY DEF Command
<1>1. CASE m.op = ACTIVATE_KEY
  <2> DEFINE S == {USBK_DS_ACTIVATE, USBK_DS_ACTIVATE_WITH_BACKDISK}
  <2>1. Obeyed(d, m) = {[d EXCEPT !.state = s, !.current = m.keyno] : s \in S}
    BY <1>1 DEF Obeyed
  <2>2. m.keyno \in Slots
    BY <1>1 DEF BadKeyNumber
  <2>3. ASSUME NEW s \in S PROVE [d EXCEPT !.state = s, !.current = m.keyno] \in Device
    <3>1. s \in USBK_DS
      BY DEF USBK_DS, USBK_DS_ACTIVATE, USBK_DS_ACTIVATE_WITH_BACKDISK
    <3>2. [d EXCEPT !.state = s] \in Device
      BY <3>1, DeviceFields
    <3> QED BY <2>2, <3>2, DeviceFields
  <2> QED BY <2>1, <2>3
<1>2. CASE m.op = DEACTIVATE_KEY
  <2>1. Obeyed(d, m) = {[d EXCEPT !.state = USBK_DS_DEACTIVATE]}
    BY <1>2 DEF Obeyed
  <2> QED BY <2>1 DEF Device, USBK_DS, USBK_DS_DEACTIVATE
<1>3. CASE m.op = CHANGE_PASS
  <2> DEFINE After(ks) == [d EXCEPT !.state = USBK_DS_DEACTIVATE,
                                    !.password = m.new_password, !.keys = ks]
  <2>1. Obeyed(d, m) = {After(ks) : ks \in [Slots -> DeviceKeys]}
    BY <1>3 DEF Obeyed
  <2>2. ASSUME NEW ks \in [Slots -> DeviceKeys] PROVE After(ks) \in Device
    <3>1. ks \in [Slots -> AllKeys]
      BY DEF AllKeys
    <3>2. m.new_password \in AllPasswords
      BY DEF Command
    <3>a. USBK_DS_DEACTIVATE \in USBK_DS
      BY DEF USBK_DS, USBK_DS_DEACTIVATE
    <3>3. [d EXCEPT !.state = USBK_DS_DEACTIVATE] \in Device
      BY <3>a, DeviceFields
    <3>4. [[d EXCEPT !.state = USBK_DS_DEACTIVATE] EXCEPT !.password = m.new_password] \in Device
      BY <3>2, <3>3, DeviceFields
    <3> QED BY <3>1, <3>4, DeviceFields
  <2> QED BY <2>1, <2>2
<1>4. CASE m.op = SET_DEV_NAME
  <2>1. Obeyed(d, m) = {[d EXCEPT !.state = USBK_DS_MUST_REMOVE, !.devlabel = m.devlabel]}
    BY <1>4 DEF Obeyed
  <2>2. m.devlabel \in AllLabels
    BY DEF Command
  <2>a. USBK_DS_MUST_REMOVE \in USBK_DS
    BY DEF USBK_DS, USBK_DS_MUST_REMOVE
  <2>3. [d EXCEPT !.state = USBK_DS_MUST_REMOVE] \in Device
    BY <2>a, DeviceFields
  <2>4. [[d EXCEPT !.state = USBK_DS_MUST_REMOVE] EXCEPT !.devlabel = m.devlabel] \in Device
    BY <2>2, <2>3, DeviceFields
  <2> QED BY <2>1, <2>4
<1>5. CASE m.op = SET_AUTO_ACTIVE
  <2>1. Obeyed(d, m) = {[d EXCEPT !.autoact = m.keyno]}
    BY <1>5 DEF Obeyed
  <2> QED BY <1>5, <2>1 DEF Device, BadKeyNumber
<1>6. CASE m.op = SET_KEY
  <2> DEFINE After == [d EXCEPT !.keynames[m.keyno] = m.keyname,
                                !.keys[m.keyno] = IF m.options = SETKEY_NAME_AND_KEY
                                                  THEN m.key ELSE @]
  <2>1. Obeyed(d, m) = {After}
    BY <1>6 DEF Obeyed
  <2>2. m.keyno \in Slots
    BY <1>6 DEF BadKeyNumber
  <2>3. After \in Device
    BY <2>2 DEF Device, Command
  <2> QED BY <2>1, <2>3
<1>7. CASE m.op = GENERATE_KEY
  BY <1>7 DEF Obeyed
<1> QED BY <1>a, <1>1, <1>2, <1>3, <1>4, <1>5, <1>6, <1>7 DEF Opcodes

(* Each verdict has a number, and each leaves a device: a retry counter is *)
(* only counted down where a wrong password does not erase.                *)
LEMMA OutcomesType ==
    ASSUME NEW d \in Device, NEW m \in Command
    PROVE  /\ Verdicts(d, m) \subseteq OPRS
           /\ \A v \in Verdicts(d, m) : Outcomes(d, m, v) \subseteq Device
<1> USE DEF OPRS_PASS, OPRS_GEN_FAIL, OPRS_FAILED_PASS, OPRS_FABRIC_RESET,
        OPRS_USBK_UNPLUGING, OPRS_INVALID_KEYNO, OPRS_INVALID_NEWPASS
<1>1. Verdicts(d, m) \subseteq OPRS
  BY DEF Verdicts, Complaints, StateRefusal, PasswordRefusal, OPRS
<1>2. ASSUME NEW v \in Verdicts(d, m), NEW o \in Outcomes(d, m, v)
      PROVE  o \in Device
  <2>1. CASE v = OPRS_PASS
    <3>1. Complaints(d, m) = {}
      BY <2>1 DEF Verdicts, Complaints, StateRefusal, PasswordRefusal
    <3>2. ~BadKeyNumber(m)
      BY <3>1 DEF Complaints
    <3>3. Restored(d, m) \in Device
      BY RetryAssumption DEF Restored, Device
    <3>4. Obeyed(Restored(d, m), m) \subseteq Device
      BY <3>2, <3>3, ObeyedType
    <3> QED BY <2>1, <3>4 DEF Outcomes
  <2>2. CASE v = OPRS_FAILED_PASS
    <3>1. d.retry > 1
      BY <2>2 DEF Verdicts, Complaints, StateRefusal, PasswordRefusal, Device
    <3>2. o = [d EXCEPT !.retry = @ - 1]
      BY <2>2 DEF Outcomes
    <3> QED BY <3>1, <3>2, RetryAssumption DEF Device
  <2>3. CASE v = OPRS_FABRIC_RESET
    <3>1. o = Erased(d)
      BY <2>3 DEF Outcomes
    <3>2. [k \in Slots |-> NoKey] \in [Slots -> AllKeys]
      BY DEF AllKeys
    <3>3. NoPassword \in AllPasswords /\ USBK_DS_FABRIC_DEFAULT \in USBK_DS
      BY DEF AllPasswords, USBK_DS, USBK_DS_FABRIC_DEFAULT
    <3>4. 0 \in 0 .. MultiKeyCap /\ MaxRetry \in 0 .. MaxRetry
      BY RetryAssumption, CapAssumption
    <3> QED BY <3>1, <3>2, <3>3, <3>4, DeviceFields DEF Erased
  <2>4. CASE v \notin {OPRS_PASS, OPRS_FAILED_PASS, OPRS_FABRIC_RESET}
    BY <2>4 DEF Outcomes
  <2> QED BY <2>1, <2>2, <2>3, <2>4
<1> QED BY <1>1, <1>2

(* Executing a command leaves a device, whatever the verdict.              *)
LEMMA ExecutedType ==
    ASSUME NEW d \in Device, NEW m \in Command
    PROVE  Executed(d, m) \subseteq Device
<1>1. ASSUME NEW o \in Executed(d, m) PROVE o \in Device
  <2>0. PICK v \in Verdicts(d, m) : o \in {[q EXCEPT !.lastop = v] : q \in Outcomes(d, m, v)}
    BY DEF Executed
  <2>1. PICK q \in Outcomes(d, m, v) : o = [q EXCEPT !.lastop = v]
    BY <2>0
  <2>2. q \in Device /\ v \in OPRS
    BY OutcomesType
  <2> QED BY <2>1, <2>2 DEF Device
<1> QED BY <1>1

(* A device leaves the factory as a device: empty slots, all retries left. *)
LEMMA FactoryType == FactoryDevice \in Device
  BY CapAssumption, RetryAssumption
     DEF FactoryDevice, Device, USBK_DS, USBK_DS_FABRIC_DEFAULT, AllPasswords, AllKeys,
         AllNames, AllLabels, Slots, OPRS, OPRS_PASS

(* A device that is plugged in again is a device: an auto activation key   *)
(* other than 0 is the number of a slot.                                   *)
LEMMA PoweredOnType == ASSUME NEW d \in Device PROVE PoweredOn(d) \in Device
<1> DEFINE st == IF d.state = USBK_DS_FABRIC_DEFAULT THEN d.state
                 ELSE IF d.autoact = 0 THEN USBK_DS_DEACTIVATE ELSE USBK_DS_ACTIVATE
           cu == IF d.autoact = 0 THEN d.current ELSE d.autoact
<1>1. st \in USBK_DS
  BY DEF Device, USBK_DS, USBK_DS_DEACTIVATE, USBK_DS_ACTIVATE
<1>2. cu \in Slots
  BY CapAssumption DEF Device, Slots
<1>3. OPRS_PASS \in OPRS
  BY DEF OPRS, OPRS_PASS
<1>4. PoweredOn(d) = [d EXCEPT !.state = st, !.current = cu, !.lastop = OPRS_PASS]
  BY DEF PoweredOn, Device
<1> HIDE DEF st, cu
<1>5. [d EXCEPT !.state = st] \in Device
  BY <1>1, DeviceFields
<1>6. [[d EXCEPT !.state = st] EXCEPT !.current = cu] \in Device
  BY <1>2, <1>5, DeviceFields
<1>7. [[[d EXCEPT !.state = st] EXCEPT !.current = cu] EXCEPT !.lastop = OPRS_PASS] \in Device
  BY <1>3, <1>6, DeviceFields
<1> QED BY <1>4, <1>7

-----------------------------------------------------------------------------
(* Commands and handles                                                    *)

(* A command with one field changed is a command.                          *)
LEMMA CommandFields ==
    ASSUME NEW m \in Command
    PROVE  /\ \A x \in AllPasswords : [m EXCEPT !.password = x] \in Command
           /\ \A x \in AllPasswords : [m EXCEPT !.new_password = x] \in Command
           /\ \A x \in 0 .. 255 : [m EXCEPT !.keyno = x] \in Command
           /\ \A x \in {SETKEY_NAMEONLY, SETKEY_NAME_AND_KEY} :
                [m EXCEPT !.options = x] \in Command
           /\ \A x \in AllNames : [m EXCEPT !.keyname = x] \in Command
           /\ \A x \in AllKeys : [m EXCEPT !.key = x] \in Command
           /\ \A x \in AllLabels : [m EXCEPT !.devlabel = x] \in Command
<1>1. \A x \in AllPasswords : [m EXCEPT !.password = x] \in Command
  BY DEF Command
<1>2. \A x \in AllPasswords : [m EXCEPT !.new_password = x] \in Command
  BY DEF Command
<1>3. \A x \in 0 .. 255 : [m EXCEPT !.keyno = x] \in Command
  BY DEF Command
<1>4. \A x \in {SETKEY_NAMEONLY, SETKEY_NAME_AND_KEY} : [m EXCEPT !.options = x] \in Command
  BY DEF Command
<1>5. \A x \in AllNames : [m EXCEPT !.keyname = x] \in Command
  BY DEF Command
<1>6. \A x \in AllKeys : [m EXCEPT !.key = x] \in Command
  BY DEF Command
<1>7. \A x \in AllLabels : [m EXCEPT !.devlabel = x] \in Command
  BY DEF Command
<1> QED BY <1>1, <1>2, <1>3, <1>4, <1>5, <1>6, <1>7

(* What memset leaves behind is a command.                                 *)
LEMMA ZeroedType == \A op \in Opcodes : Zeroed(op) \in Command
  BY DEF Zeroed, Command, AllPasswords, AllNames, AllKeys, AllLabels

(* The two ways of storing a result keep it within the range of codes.     *)
LEMMA OutcomeType ==
    ASSUME NEW call, NEW code \in Codes
    PROVE  Outcome(call, code) \in Codes
  BY DEF Outcome, Codes

(* A handle with one field changed is a handle.                            *)
LEMMA HandleFields ==
    ASSUME NEW h \in Handle
    PROVE  /\ \A x \in Codes : [h EXCEPT !.lastopr = x] \in Handle
           /\ \A x \in 0 .. 5 : [h EXCEPT !.dev_state = x] \in Handle
           /\ \A x \in 0 .. MultiKeyCap : [h EXCEPT !.current_key = x] \in Handle
           /\ \A x \in 0 .. MaxRetry : [h EXCEPT !.retry_num = x] \in Handle
           /\ \A x \in AllLabels : [h EXCEPT !.dev_label = x] \in Handle
           /\ \A x \in 0 .. MultiKeyCap : [h EXCEPT !.autoact_keyno = x] \in Handle
           /\ \A x \in [Slots -> AllNames] : [h EXCEPT !.key_names = x] \in Handle
<1>1. \A x \in Codes : [h EXCEPT !.lastopr = x] \in Handle
  BY DEF Handle
<1>2. \A x \in 0 .. 5 : [h EXCEPT !.dev_state = x] \in Handle
  BY DEF Handle
<1>3. \A x \in 0 .. MultiKeyCap : [h EXCEPT !.current_key = x] \in Handle
  BY DEF Handle
<1>4. \A x \in 0 .. MaxRetry : [h EXCEPT !.retry_num = x] \in Handle
  BY DEF Handle
<1>5. \A x \in AllLabels : [h EXCEPT !.dev_label = x] \in Handle
  BY DEF Handle
<1>6. \A x \in 0 .. MultiKeyCap : [h EXCEPT !.autoact_keyno = x] \in Handle
  BY DEF Handle
<1>7. \A x \in [Slots -> AllNames] : [h EXCEPT !.key_names = x] \in Handle
  BY DEF Handle
<1> QED BY <1>1, <1>2, <1>3, <1>4, <1>5, <1>6, <1>7

(* What calloc leaves behind is a handle.                                  *)
LEMMA NoHandleType == NoHandle \in Handle
  BY CapAssumption, RetryAssumption DEF NoHandle, Handle, Codes, AllLabels, AllNames

(* The history before the first command has its type.                      *)
LEMMA NothingSentType == NothingSent \in Sent
<1>1. GENERATE_KEY \in Opcodes
  BY DEF GENERATE_KEY, Opcodes
<1>2. Zeroed(GENERATE_KEY) \in Command
  BY <1>1, ZeroedType
<1>3. OPRS_PASS \in OPRS /\ NoKey \in AllKeys
  BY DEF OPRS_PASS, OPRS, AllKeys
<1> QED BY <1>2, <1>3 DEF NothingSent, Sent

(* A handle filled from a device is a handle.                              *)
LEMMA FilledType ==
    ASSUME NEW h \in Handle, NEW d \in Device
    PROVE  Filled(h, DevInfo(d)) \in Handle
<1> DEFINE i  == DevInfo(d)
           h1 == [h EXCEPT !.lastopr = USBK_LO_PASS]
           h2 == [h1 EXCEPT !.dev_state = i.devstate]
           h3 == [h2 EXCEPT !.current_key = i.current_keyno]
           h4 == [h3 EXCEPT !.retry_num = i.retry_num]
           h5 == [h4 EXCEPT !.dev_label = i.devlabel]
           h6 == [h5 EXCEPT !.autoact_keyno = i.autoactivate_keyno]
           h7 == [h6 EXCEPT !.key_names = i.keyname]
<1>0. /\ i.devstate \in 0 .. 5
      /\ i.current_keyno \in 0 .. MultiKeyCap
      /\ i.retry_num \in 0 .. MaxRetry
      /\ i.devlabel \in AllLabels
      /\ i.autoactivate_keyno \in 0 .. MultiKeyCap
      /\ i.keyname \in [Slots -> AllNames]
  BY CapAssumption DEF DevInfo, Device, USBK_DS, Slots
<1>1. USBK_LO_PASS \in Codes
  BY DEF USBK_LO_PASS, Codes
<1>2. Filled(h, DevInfo(d)) = h7
  BY DEF Filled
<1> HIDE DEF i
<1>3. h1 \in Handle
  BY <1>1, HandleFields
<1>4. h2 \in Handle
  <2> HIDE DEF h1
  <2> QED BY <1>0, <1>3, HandleFields
<1>5. h3 \in Handle
  <2> HIDE DEF h2
  <2> QED BY <1>0, <1>4, HandleFields
<1>6. h4 \in Handle
  <2> HIDE DEF h3
  <2> QED BY <1>0, <1>5, HandleFields
<1>7. h5 \in Handle
  <2> HIDE DEF h4
  <2> QED BY <1>0, <1>6, HandleFields
<1>8. h6 \in Handle
  <2> HIDE DEF h5
  <2> QED BY <1>0, <1>7, HandleFields
<1>9. h7 \in Handle
  <2> HIDE DEF h6
  <2> QED BY <1>0, <1>8, HandleFields
<1> QED BY <1>2, <1>9

-----------------------------------------------------------------------------
(* Type correctness of the steps                                           *)

(* Marking the waiting processes changes nothing but the mark.             *)
LEMMA DisturbedType ==
    ASSUME TypeOK, NEW others
    PROVE  Disturbed(others) \in [Clients -> Sent]
<1>1. ASSUME NEW x \in Clients PROVE [sent[x] EXCEPT !.disturbed = TRUE] \in Sent
  <2>1. sent[x] \in Sent
    BY DEF TypeOK
  <2> QED BY <2>1 DEF Sent
<1> QED BY <1>1 DEF Disturbed, TypeOK

(* An early return stores a code in lastopr and changes nothing else.      *)
LEMMA ReturnType ==
    ASSUME TypeOK, NEW c \in Clients, NEW call, NEW code \in Codes, Return(c, call, code)
    PROVE  TypeOK'
<1>1. [handle[c] EXCEPT !.lastopr = Outcome(call, code)] \in Handle
  BY OutcomeType, HandleFields DEF TypeOK
<1> QED BY <1>1 DEF Return, TypeOK

(* The end of a process gives its descriptors back.                        *)
LEMMA GoneType ==
    ASSUME TypeOK, NEW c \in Clients, Gone(c)
    PROVE  TypeOK'
  BY NoHandleType, NothingSentType, FdsAssumption DEF Gone, TypeOK, PCs, AllKeys

(* Sending a well-formed command: whether or not the device executed it,   *)
(* device, handle, descriptors and history keep their types.               *)
LEMMA SendType ==
    ASSUME TypeOK, NEW c \in Clients, NEW call \in Awaiting, NEW m \in Command,
           Send(c, call, m)
    PROVE  TypeOK'
<1> DEFINE Others(io) == IF io.executed THEN Disturbed(Clients \ {c}) ELSE sent
<1>1. PICK io \in send_scsi_command(plugged, fds[c]) :
        /\ fds' = [fds EXCEPT ![c] = io.fds]
        /\ dev' \in IF io.executed THEN Executed(dev, m) ELSE {dev}
        /\ fresh' = IF io.executed THEN Nobody ELSE fresh
        /\ IF io.rtn < 0
           THEN /\ handle' = [handle EXCEPT
                                 ![c].lastopr = Outcome(call, USBK_LO_SCSI_ERROR)]
                /\ sent' = Others(io)
                /\ UNCHANGED pc
           ELSE /\ \E k \in Answers(m, dev'.lastop) :
                     sent' = [Others(io) EXCEPT ![c] =
                                [cmd |-> m, verdict |-> dev'.lastop,
                                 key |-> k, disturbed |-> FALSE]]
                /\ pc' = [pc EXCEPT ![c] = call]
                /\ UNCHANGED handle
        /\ UNCHANGED <<plugged, random_key>>
  BY DEF Send
<1>2. io \in ExchangeResults
  BY ExchangeType DEF TypeOK
<1>3. fds' \in [Clients -> 0 .. MaxFds]
  BY <1>1, <1>2 DEF TypeOK, ExchangeResults
<1>4. dev' \in Device
  <2>1. dev \in Device
    BY DEF TypeOK
  <2> QED BY <1>1, <2>1, ExecutedType
<1>5. fresh' \in [Clients -> BOOLEAN]
  BY <1>1 DEF TypeOK, Nobody
<1>6. Others(io) \in [Clients -> Sent]
  BY DisturbedType DEF TypeOK
<1>7. CASE io.rtn < 0
  <2>1. USBK_LO_SCSI_ERROR \in Codes
    BY DEF USBK_LO_SCSI_ERROR, Codes
  <2>2. [handle[c] EXCEPT !.lastopr = Outcome(call, USBK_LO_SCSI_ERROR)] \in Handle
    BY <2>1, OutcomeType, HandleFields DEF TypeOK
  <2>3. handle' \in [Clients -> Handle]
    BY <1>1, <1>7, <2>2 DEF TypeOK
  <2>4. sent' \in [Clients -> Sent]
    BY <1>1, <1>6, <1>7
  <2> QED BY <1>1, <1>3, <1>4, <1>5, <1>7, <2>3, <2>4 DEF TypeOK
<1>8. CASE ~(io.rtn < 0)
  <2>1. PICK k \in Answers(m, dev'.lastop) :
          sent' = [Others(io) EXCEPT ![c] =
                     [cmd |-> m, verdict |-> dev'.lastop, key |-> k, disturbed |-> FALSE]]
    BY <1>1, <1>8
  <2>2. k \in AllKeys
    BY DEF Answers, GeneratedKeys, AllKeys
  <2>3. dev'.lastop \in OPRS
    BY <1>4 DEF Device
  <2>4. [cmd |-> m, verdict |-> dev'.lastop, key |-> k, disturbed |-> FALSE] \in Sent
    BY <2>2, <2>3 DEF Sent
  <2> HIDE DEF Others
  <2>5. sent' \in [Clients -> Sent]
    BY <1>6, <2>1, <2>4
  <2>6. pc' \in [Clients -> PCs]
    BY <1>1, <1>8 DEF TypeOK, PCs
  <2> QED BY <1>1, <1>3, <1>4, <1>5, <1>8, <2>5, <2>6 DEF TypeOK
<1> QED BY <1>7, <1>8

-----------------------------------------------------------------------------
(* The commands the calls build                                            *)

(* usbk_activatekey fills a well-formed t_UIP_ACTIVATE: the key number is  *)
(* a uint8_t already.                                                      *)
LEMMA ActivateCommand ==
    ASSUME NEW p \in AllPasswords, NEW k \in 0 .. 255
    PROVE  t_UIP_ACTIVATE(p, k) \in Command
<1>1. Zeroed(ACTIVATE_KEY) \in Command
  BY ZeroedType DEF ACTIVATE_KEY, Opcodes
<1>2. [Zeroed(ACTIVATE_KEY) EXCEPT !.password = p] \in Command
  BY <1>1, CommandFields
<1> QED BY <1>2, CommandFields DEF t_UIP_ACTIVATE

(* usbk_changepassword fills a well-formed t_UIP_CHPASS.                   *)
LEMMA ChangePassCommand ==
    ASSUME NEW old \in AllPasswords, NEW new \in AllPasswords
    PROVE  t_UIP_CHPASS(old, new) \in Command
<1>1. Zeroed(CHANGE_PASS) \in Command
  BY ZeroedType DEF CHANGE_PASS, Opcodes
<1>2. [Zeroed(CHANGE_PASS) EXCEPT !.password = old] \in Command
  BY <1>1, CommandFields
<1> QED BY <1>2, CommandFields DEF t_UIP_CHPASS

(* usbk_setdevicelabel fills a well-formed t_UIP_SETDEVICELABEL.           *)
LEMMA LabelCommand ==
    ASSUME NEW p \in AllPasswords, NEW l \in AllLabels
    PROVE  t_UIP_SETDEVICELABEL(p, l) \in Command
<1>1. Zeroed(SET_DEV_NAME) \in Command
  BY ZeroedType DEF SET_DEV_NAME, Opcodes
<1>2. [Zeroed(SET_DEV_NAME) EXCEPT !.password = p] \in Command
  BY <1>1, CommandFields
<1> QED BY <1>2, CommandFields DEF t_UIP_SETDEVICELABEL

(* usbk_setautact fills a well-formed t_UIP_SETAUTOACTIVATE.               *)
LEMMA AutoCommand ==
    ASSUME NEW p \in AllPasswords, NEW k \in 0 .. 255
    PROVE  t_UIP_SETAUTOACTIVATE(p, k) \in Command
<1>1. Zeroed(SET_AUTO_ACTIVE) \in Command
  BY ZeroedType DEF SET_AUTO_ACTIVE, Opcodes
<1>2. [Zeroed(SET_AUTO_ACTIVE) EXCEPT !.password = p] \in Command
  BY <1>1, CommandFields
<1> QED BY <1>2, CommandFields DEF t_UIP_SETAUTOACTIVATE

(* usbk_setkey_keyname fills a well-formed t_UIP_SETKEY.                   *)
LEMMA SetKeyCommand ==
    ASSUME NEW p \in AllPasswords, NEW k \in 0 .. 255, NEW n \in AllNames,
           NEW o \in {SETKEY_NAMEONLY, SETKEY_NAME_AND_KEY}, NEW key \in AllKeys
    PROVE  t_UIP_SETKEY(p, k, n, o, key) \in Command
<1> DEFINE m0 == Zeroed(SET_KEY)
           m1 == [m0 EXCEPT !.password = p]
           m2 == [m1 EXCEPT !.keyno = k]
           m3 == [m2 EXCEPT !.keyname = n]
           m4 == [m3 EXCEPT !.options = o]
<1>0. m0 \in Command
  BY ZeroedType DEF SET_KEY, Opcodes
<1>1. m1 \in Command
  <2> HIDE DEF m0
  <2> QED BY <1>0, CommandFields
<1>2. m2 \in Command
  <2> HIDE DEF m1
  <2> QED BY <1>1, CommandFields
<1>3. m3 \in Command
  <2> HIDE DEF m2
  <2> QED BY <1>2, CommandFields
<1>4. m4 \in Command
  <2> HIDE DEF m3
  <2> QED BY <1>3, CommandFields
<1>5. [m4 EXCEPT !.key = key] \in Command
  <2> HIDE DEF m4
  <2> QED BY <1>4, CommandFields
<1> QED BY <1>5 DEF t_UIP_SETKEY

(* An int or uint8_t key number fits a byte once it is stored in one.      *)
LEMMA ByteType == \A n \in Int : Byte(n) \in 0 .. 255
  BY DEF Byte

(* Every command the interface may send is well formed.                    *)
LEMMA RequestsAreCommands == Requests \subseteq Command
<1> SUFFICES ASSUME NEW m \in Requests PROVE m \in Command
  OBVIOUS
<1>1. \A i \in IntKeyNumbers \cup KeyNumbers : Byte(i) \in 0 .. 255
  <2>1. \A i \in IntKeyNumbers \cup KeyNumbers : i \in Int
    BY KeyNumbersAssumption
  <2> QED BY <2>1, ByteType
<1>2. /\ KeyNumbers \subseteq 0 .. 255
      /\ Passwords \subseteq AllPasswords /\ Labels \subseteq AllLabels
  BY KeyNumbersAssumption DEF AllPasswords, AllLabels
<1>3. CASE m \in {t_UIP_ACTIVATE(p, k) : p \in Passwords, k \in KeyNumbers}
  BY <1>2, <1>3, ActivateCommand
<1>4. CASE m \in {Zeroed(DEACTIVATE_KEY), Zeroed(GENERATE_KEY)}
  BY <1>4, ZeroedType DEF DEACTIVATE_KEY, GENERATE_KEY, Opcodes
<1>5. CASE m \in {t_UIP_CHPASS(old, new) : old, new \in AllPasswords}
  BY <1>5, ChangePassCommand
<1>6. CASE m \in {t_UIP_SETDEVICELABEL(p, l) : p \in Passwords, l \in Labels}
  BY <1>2, <1>6, LabelCommand
<1>7. CASE m \in {t_UIP_SETAUTOACTIVATE(p, Byte(i)) : p \in Passwords, i \in IntKeyNumbers}
  BY <1>1, <1>2, <1>7, AutoCommand
<1>8. CASE m \in {t_UIP_SETKEY(p, Byte(i), n, o, key) :
                    p \in Passwords, i \in IntKeyNumbers \cup KeyNumbers, n \in AllNames,
                    o \in {SETKEY_NAMEONLY, SETKEY_NAME_AND_KEY}, key \in AllKeys}
  BY <1>1, <1>2, <1>8, SetKeyCommand
<1> QED BY <1>3, <1>4, <1>5, <1>6, <1>7, <1>8 DEF Requests

(* The results of a call that is refused before anything is sent.          *)
Refusals == {USBK_LO_INVALID_KEYNO, USBK_LO_INVALID_KEYSIZE, USBK_LO_STATE_ERROR}

(* They are codes that lastopr may hold.                                   *)
LEMMA RefusalsAreCodes == Refusals \subseteq Codes
  BY DEF Refusals, USBK_LO_INVALID_KEYNO, USBK_LO_INVALID_KEYSIZE, USBK_LO_STATE_ERROR, Codes

(* The three ways a call can begin: refuse, end the process, or send a     *)
(* command of the interface.                                               *)
Begins(c) ==
    \/ \E call \in Awaiting, code \in Refusals : Return(c, call, code)
    \/ Gone(c)
    \/ \E call \in Awaiting, m \in Requests : Send(c, call, m)

(* Whatever the key number and the states of a call, it is enough that the *)
(* command is one of the interface where it is sent.                       *)
LEMMA PerformBegins ==
    ASSUME TypeOK, NEW c \in Clients, NEW call \in Awaiting, NEW key_no \in Int,
           NEW states, NEW m,
           key_no <= MultiKeyCap /\ handle[c].dev_state \in states => m \in Requests,
           Perform(c, call, key_no, states, m)
    PROVE  Begins(c)
<1>1. USBK_LO_INVALID_KEYNO \in Refusals /\ USBK_LO_STATE_ERROR \in Refusals
  BY DEF Refusals
<1>2. CASE Return(c, call, USBK_LO_INVALID_KEYNO)
  BY <1>1, <1>2 DEF Begins
<1>3. CASE Return(c, call, USBK_LO_STATE_ERROR)
  BY <1>1, <1>3 DEF Begins
<1>4. CASE /\ key_no <= MultiKeyCap
           /\ handle[c].dev_state \in states
           /\ Send(c, call, m)
  BY <1>4 DEF Begins
<1> QED BY <1>2, <1>3, <1>4 DEF Perform

(* The structures SetKey may fill are among the commands of the interface. *)
LEMMA SetKeyRequest ==
    ASSUME NEW p \in Passwords, NEW i \in IntKeyNumbers \cup KeyNumbers, NEW n \in AllNames,
           NEW o \in {SETKEY_NAMEONLY, SETKEY_NAME_AND_KEY}, NEW key \in AllKeys
    PROVE  t_UIP_SETKEY(p, Byte(i), n, o, key) \in Requests
<1> DEFINE S == {t_UIP_SETKEY(p1, Byte(i1), n1, o1, key1) :
                   p1 \in Passwords, i1 \in IntKeyNumbers \cup KeyNumbers, n1 \in AllNames,
                   o1 \in {SETKEY_NAMEONLY, SETKEY_NAME_AND_KEY}, key1 \in AllKeys}
<1>1. t_UIP_SETKEY(p, Byte(i), n, o, key) \in S
  OBVIOUS
<1>2. S \subseteq Requests
  BY DEF Requests
<1> QED BY <1>1, <1>2

(* SetKey: the name it sends is the caller's or that of a slot, because a  *)
(* slot below the first ends the process and one above the last is refused.*)
LEMMA SetKeyBegins ==
    ASSUME TypeOK, NEW c \in Clients, NEW call \in Awaiting, NEW p \in Passwords,
           NEW key_no \in IntKeyNumbers \cup KeyNumbers, NEW name \in AllNames \cup {Null}, NEW size,
           NEW key \in AllKeys, SetKey(c, call, p, key_no, name, size, key)
    PROVE  Begins(c)
<1> DEFINE named   == IF name = Null THEN handle[c].key_names[key_no] ELSE name
           options == IF size = KEYSIZE_NULL THEN SETKEY_NAMEONLY ELSE SETKEY_NAME_AND_KEY
           data    == IF size = KEYSIZE_NULL THEN NoKey ELSE key
           m       == t_UIP_SETKEY(p, Byte(key_no), named, options, data)
<1>1. CASE Gone(c)
  BY <1>1 DEF Begins
<1>2. CASE /\ ~(name = Null /\ key_no < 1 /\ handle[c].dev_state = USBK_DS_DEACTIVATE)
           /\ Perform(c, call, key_no, {USBK_DS_DEACTIVATE}, m)
  <2>1. ASSUME key_no <= MultiKeyCap, handle[c].dev_state \in {USBK_DS_DEACTIVATE}
        PROVE  m \in Requests
    <3>1. named \in AllNames
      <4>1. CASE name = Null
        <5>1. key_no \in Slots
          <6>1. key_no \in Int /\ MultiKeyCap \in Int
            BY KeyNumbersAssumption, CapAssumption
          <6>2. handle[c].dev_state = USBK_DS_DEACTIVATE
            BY <2>1
          <6>3. ~(key_no < 1)
            BY <1>2, <4>1, <6>2
          <6> HIDE DEF m
          <6> QED BY <2>1, <6>1, <6>3 DEF Slots
        <5>2. handle[c].key_names \in [Slots -> AllNames]
          BY DEF TypeOK, Handle
        <5> QED BY <4>1, <5>1, <5>2
      <4>2. CASE name # Null
        BY <4>2
      <4> QED BY <4>1, <4>2
    <3>2. options \in {SETKEY_NAMEONLY, SETKEY_NAME_AND_KEY} /\ data \in AllKeys
      BY DEF AllKeys
    <3> HIDE DEF named, options, data
    <3>3. \A n \in AllNames, o \in {SETKEY_NAMEONLY, SETKEY_NAME_AND_KEY}, k \in AllKeys :
            t_UIP_SETKEY(p, Byte(key_no), n, o, k) \in Requests
      BY SetKeyRequest
    <3> QED BY <3>1, <3>2, <3>3, Zenon
  <2>2. key_no \in Int
    BY KeyNumbersAssumption
  <2> HIDE DEF m
  <2> QED BY <1>2, <2>1, <2>2, PerformBegins
<1> QED BY <1>1, <1>2 DEF SetKey

(* Every call of the interface begins in one of the three ways, and only   *)
(* when no other call of the process is under way.                         *)
LEMMA CallBegins ==
    ASSUME TypeOK, NEW c \in Clients, Call(c)
    PROVE  pc[c] = "idle" /\ Begins(c)
<1>0. /\ \A k \in KeyNumbers \cup IntKeyNumbers : k \in Int
      /\ "status" \in Awaiting /\ "wrapped" \in Awaiting
  BY KeyNumbersAssumption DEF Awaiting
<1>1. ASSUME NEW p \in Passwords, NEW k \in KeyNumbers, usbk_activatekey(c, p, k)
      PROVE  Begins(c)
  <2> DEFINE m == t_UIP_ACTIVATE(p, k)
  <2>1. m \in Requests
    BY DEF Requests
  <2>2. Perform(c, "status", k, {USBK_DS_DEACTIVATE}, m)
    BY <1>1 DEF usbk_activatekey
  <2> HIDE DEF m
  <2> QED BY <1>0, <2>1, <2>2, PerformBegins
<1>2. ASSUME usbk_deactivatekey(c)
      PROVE  Begins(c)
  <2>1. Zeroed(DEACTIVATE_KEY) \in Requests
    BY DEF Requests
  <2>2. Perform(c, "status", 0, {USBK_DS_ACTIVATE, USBK_DS_ACTIVATE_WITH_BACKDISK},
                Zeroed(DEACTIVATE_KEY))
    BY <1>2 DEF usbk_deactivatekey
  <2> QED BY <1>0, <2>1, <2>2, PerformBegins
<1>3. ASSUME NEW old \in AllPasswords, NEW new \in AllPasswords,
             usbk_changepassword(c, old, new)
      PROVE  Begins(c)
  <2> DEFINE m == t_UIP_CHPASS(old, new)
  <2>1. m \in Requests
    BY DEF Requests
  <2>2. Perform(c, "status", 0, {USBK_DS_DEACTIVATE, USBK_DS_FABRIC_DEFAULT}, m)
    BY <1>3 DEF usbk_changepassword
  <2> HIDE DEF m
  <2> QED BY <1>0, <2>1, <2>2, PerformBegins
<1>4. ASSUME NEW p \in Passwords, NEW l \in Labels, usbk_setdevicelabel(c, p, l)
      PROVE  Begins(c)
  <2> DEFINE m == t_UIP_SETDEVICELABEL(p, l)
  <2>1. m \in Requests
    BY DEF Requests
  <2>2. Perform(c, "status", 0, {USBK_DS_DEACTIVATE}, m)
    BY <1>4 DEF usbk_setdevicelabel
  <2> HIDE DEF m
  <2> QED BY <1>0, <2>1, <2>2, PerformBegins
<1>5. ASSUME NEW p \in Passwords, NEW k \in IntKeyNumbers, usbk_setautact(c, p, k)
      PROVE  Begins(c)
  <2> DEFINE m == t_UIP_SETAUTOACTIVATE(p, Byte(k))
  <2>1. m \in Requests
    BY DEF Requests
  <2>2. Perform(c, "status", k, {USBK_DS_DEACTIVATE}, m)
    BY <1>5 DEF usbk_setautact
  <2> HIDE DEF m
  <2> QED BY <1>0, <2>1, <2>2, PerformBegins
<1>6. ASSUME NEW p \in Passwords, NEW k \in IntKeyNumbers, NEW n \in KeyNames,
             NEW s \in KeySizes, NEW key \in UserKeys,
             usbk_setkey_keyname(c, p, k, n, s, key)
      PROVE  Begins(c)
  <2>1. n \in AllNames \cup {Null} /\ key \in AllKeys
    BY DEF AllNames, AllKeys
  <2> QED BY <1>0, <1>6, <2>1, SetKeyBegins DEF usbk_setkey_keyname
<1>7. ASSUME NEW p \in Passwords, NEW k \in KeyNumbers, NEW s \in KeySizes,
             NEW key \in UserKeys \cup ({random_key[c]} \ {JunkKey}),
             usbk_setkey_hex(c, p, k, s, key)
      PROVE  Begins(c)
  <2>1. key \in AllKeys
    BY DEF AllKeys, TypeOK
  <2> QED BY <1>0, <1>7, <2>1, SetKeyBegins DEF usbk_setkey_hex, usbk_setkey_keyname
<1>8. ASSUME NEW p \in Passwords, NEW k \in KeyNumbers, NEW s \in KeySizes,
             NEW key \in UserKeys \cup {JunkKey},
             usbk_setkey_converted(c, p, k, s, key)
      PROVE  Begins(c)
  <2>1. key \in AllKeys
    BY DEF AllKeys
  <2> QED BY <1>0, <1>8, <2>1, SetKeyBegins DEF usbk_setkey_converted
<1>9. ASSUME NEW s \in KeySizes, usbk_getrandomkey(c, s)
      PROVE  Begins(c)
  <2>1. USBK_LO_INVALID_KEYSIZE \in Refusals
    BY DEF Refusals
  <2>2. Zeroed(GENERATE_KEY) \in Requests
    BY DEF Requests
  <2>3. CASE Return(c, "status", USBK_LO_INVALID_KEYSIZE)
    BY <1>0, <2>1, <2>3 DEF Begins
  <2>4. CASE Send(c, "status", Zeroed(GENERATE_KEY))
    BY <1>0, <2>2, <2>4 DEF Begins
  <2> QED BY <1>9, <2>3, <2>4 DEF usbk_getrandomkey
<1>10. pc[c] = "idle"
  BY DEF Call, SomeSetKey, usbk_activatekey, usbk_deactivatekey, usbk_changepassword,
         usbk_setdevicelabel, usbk_setautact, usbk_setkey_keyname, usbk_setkey_hex,
         usbk_setkey_converted, usbk_getrandomkey, SetKey
<1>11. Begins(c)
  BY <1>1, <1>2, <1>3, <1>4, <1>5, <1>6, <1>7, <1>8, <1>9 DEF Call, SomeSetKey
<1> QED BY <1>10, <1>11

(* A call that begins keeps the types, whatever it is.                     *)
LEMMA CallType ==
    ASSUME TypeOK, NEW c \in Clients, Call(c)
    PROVE  TypeOK'
  BY CallBegins, ReturnType, GoneType, SendType, RequestsAreCommands, RefusalsAreCodes
     DEF Begins

(* commandstatus: the code it stores is a verdict less one or the SCSI     *)
(* error, negated or not.                                                  *)
LEMMA StatusType ==
    ASSUME TypeOK, NEW c \in Clients, commandstatus(c)
    PROVE  TypeOK'
<1>1. PICK io \in send_scsi_command(plugged, fds[c]) :
        Finish(c, io, StatusCode(c, io), StatusRetry(c, io), StatusKey(c, StatusCode(c, io)))
  BY DEF commandstatus
<1> DEFINE code  == StatusCode(c, io)
           retry == StatusRetry(c, io)
           key   == StatusKey(c, code)
<1>2. io \in ExchangeResults
  BY ExchangeType DEF TypeOK
<1>3. code \in Codes
  <2>1. (IF io.rtn < 0 THEN -USBK_LO_SCSI_ERROR ELSE dev.lastop - 1) \in Codes
    BY DEF TypeOK, Device, OPRS, USBK_LO_SCSI_ERROR, Codes
  <2> QED BY <2>1, OutcomeType DEF StatusCode
<1>4. retry \in 0 .. MaxRetry
  BY DEF StatusRetry, TypeOK, Device, Handle
<1>5. key \in AllKeys
  BY DEF StatusKey, TypeOK, Sent
<1> HIDE DEF code, retry, key
<1>6. [[handle[c] EXCEPT !.lastopr = code] EXCEPT !.retry_num = retry] \in Handle
  <2>1. [handle[c] EXCEPT !.lastopr = code] \in Handle
    BY <1>3, HandleFields DEF TypeOK
  <2> QED BY <1>4, <2>1, HandleFields
<1>7. handle' = [handle EXCEPT ![c] =
                   [[handle[c] EXCEPT !.lastopr = code] EXCEPT !.retry_num = retry]]
  BY <1>1 DEF Finish, TypeOK, code, retry
<1>8. handle' \in [Clients -> Handle]
  BY <1>6, <1>7 DEF TypeOK
<1>9. /\ fds' \in [Clients -> 0 .. MaxFds]
      /\ random_key' \in [Clients -> AllKeys]
      /\ pc' \in [Clients -> PCs]
      /\ sent' \in [Clients -> Sent]
  BY <1>1, <1>2, <1>5, NothingSentType DEF Finish, TypeOK, ExchangeResults, PCs, code, key
<1> QED BY <1>1, <1>8, <1>9 DEF Finish, TypeOK

(* usbk_new fills a handle or leaves none.                                 *)
LEMMA NewType ==
    ASSUME TypeOK, NEW c \in Clients, usbk_new(c)
    PROVE  TypeOK'
<1>1. CASE UNCHANGED vars
  BY <1>1 DEF vars, TypeOK
<1>2. CASE \E io \in send_scsi_command(plugged, fds[c]) :
             /\ fds' = [fds EXCEPT ![c] = io.fds]
             /\ IF io.rtn < 0 THEN UNCHANGED <<handle, pc, fresh>>
                ELSE /\ handle' = [handle EXCEPT ![c] = Filled(NoHandle, DevInfo(dev))]
                     /\ pc' = [pc EXCEPT ![c] = "idle"]
                     /\ fresh' = [fresh EXCEPT ![c] = TRUE]
             /\ UNCHANGED <<dev, plugged, random_key, sent>>
  <2>1. \A io \in send_scsi_command(plugged, fds[c]) : io \in ExchangeResults
    BY ExchangeType DEF TypeOK
  <2>2. Filled(NoHandle, DevInfo(dev)) \in Handle
    BY NoHandleType, FilledType DEF TypeOK
  <2> QED BY <1>2, <2>1, <2>2 DEF TypeOK, ExchangeResults, PCs
<1> QED BY <1>1, <1>2 DEF usbk_new

(* usbk_refreshusbkinfo refills a handle.                                  *)
LEMMA RefreshType ==
    ASSUME TypeOK, NEW c \in Clients, usbk_refreshusbkinfo(c)
    PROVE  TypeOK'
<1>1. \A io \in send_scsi_command(plugged, fds[c]) : io \in ExchangeResults
  BY ExchangeType DEF TypeOK
<1>2. Filled(handle[c], DevInfo(dev)) \in Handle
  BY FilledType DEF TypeOK
<1>3. [handle[c] EXCEPT !.lastopr = USBK_LO_SCSI_ERROR] \in Handle
  <2>1. USBK_LO_SCSI_ERROR \in Codes
    BY DEF USBK_LO_SCSI_ERROR, Codes
  <2> QED BY <2>1, HandleFields DEF TypeOK
<1> QED BY <1>1, <1>2, <1>3 DEF usbk_refreshusbkinfo, TypeOK, ExchangeResults

(* usbk_release takes the handle away.                                     *)
LEMMA ReleaseType ==
    ASSUME TypeOK, NEW c \in Clients, usbk_release(c)
    PROVE  TypeOK'
  BY NoHandleType DEF usbk_release, TypeOK, PCs

(* The state predicates of the type invariant hold in every reachable      *)
(* state: results stay within the codes, no process holds more descriptors *)
(* than it may, every field stays within its width.                        *)
LEMMA TypeStep == TypeOK /\ [Next]_vars => TypeOK'
<1> SUFFICES ASSUME TypeOK, [Next]_vars PROVE TypeOK'
  OBVIOUS
<1>1. ASSUME NEW c \in Clients, ClientStep(c) PROVE TypeOK'
  BY <1>1, NewType, RefreshType, ReleaseType, CallType, StatusType, GoneType
     DEF ClientStep, Exit
<1>2. CASE Unplug
  BY <1>2 DEF Unplug, TypeOK
<1>3. CASE Replug
  <2>1. PoweredOn(dev) \in Device
    BY PoweredOnType DEF TypeOK
  <2>2. Disturbed(Clients) \in [Clients -> Sent]
    BY DisturbedType
  <2> QED BY <1>3, <2>1, <2>2 DEF Replug, TypeOK, Nobody
<1>4. CASE UNCHANGED vars
  BY <1>4 DEF vars, TypeOK
<1> QED BY <1>1, <1>2, <1>3, <1>4 DEF Next

(* The initial state has its types.                                        *)
LEMMA TypeInit == Init => TypeOK
  BY FactoryType, NoHandleType, NothingSentType, FdsAssumption DEF Init, TypeOK, PCs, AllKeys

(* Type correctness, for every value of the constants: in particular every *)
(* number sent to the device fits the byte it is sent in, lastopr stays    *)
(* between -15 and 15, and no process holds more descriptors than it may.  *)
THEOREM TypeCorrect == Spec => []TypeOK
  BY TypeInit, TypeStep, PTL DEF Spec

-----------------------------------------------------------------------------
(* A handle that is fresh tells the truth                                  *)

(* An exchange that passed executed its command.                           *)
LEMMA PassedIsExecuted ==
    ASSUME NEW p \in BOOLEAN, NEW n \in 0 .. MaxFds, NEW io \in send_scsi_command(p, n),
           ~(io.rtn < 0)
    PROVE  io.executed
<1> USE DEF USBK_SCSI_PASS, USBK_SCSI_OPEN_FAIL, USBK_SCSI_TRANSFER_FAIL, USBK_SG_PASS,
        USBK_SG_ERR_NOT_DEVICE, USBK_SG_ERR_IOCTL_SCSI, USBK_SG_ERR_COMMAND_FAIL
<1>1. CASE usbk_sg_open(p, n) < 0
  BY <1>1 DEF send_scsi_command
<1>2. CASE ~(usbk_sg_open(p, n) < 0)
  <2>1. PICK t \in usbk_sg_tansfer : io = Exchange(t, n)
    BY <1>2 DEF send_scsi_command
  <2>2. CASE t = [rtn |-> USBK_SG_PASS, executed |-> TRUE]
    BY <2>1, <2>2 DEF Exchange
  <2>3. CASE t \in [rtn : {USBK_SG_ERR_IOCTL_SCSI, USBK_SG_ERR_COMMAND_FAIL},
                    executed : BOOLEAN]
    BY <2>1, <2>3 DEF Exchange
  <2> QED BY <2>2, <2>3 DEF usbk_sg_tansfer
<1> QED BY <1>1, <1>2

(* What usbk_new and usbk_refreshusbkinfo fill in mirrors the device.      *)
LEMMA FilledMirrors ==
    ASSUME NEW h \in Handle, NEW i
    PROVE  Mirrors(Filled(h, i), i)
  BY DEF Mirrors, Filled, Handle

(* The result of a call is not part of the copy.                           *)
LEMMA LastoprNotMirrored ==
    ASSUME NEW h \in Handle, NEW i, NEW x, Mirrors(h, i)
    PROVE  Mirrors([h EXCEPT !.lastopr = x], i)
  BY DEF Mirrors, Handle

(* Beginning a call keeps FreshMeansCurrent: either the device did not see *)
(* the command, or no handle is fresh any more.                            *)
LEMMA FreshBegins ==
    ASSUME TypeOK, FreshMeansCurrent, NEW c \in Clients, pc[c] = "idle", Begins(c)
    PROVE  FreshMeansCurrent'
<1>1. ASSUME NEW call, NEW code, Return(c, call, code)
      PROVE  FreshMeansCurrent'
  <2> SUFFICES ASSUME NEW x \in Clients, fresh[x]
               PROVE  pc[x] = "idle" /\ Mirrors(handle'[x], DevInfo(dev))
    BY <1>1 DEF Return, FreshMeansCurrent
  <2>1. pc[x] = "idle" /\ Mirrors(handle[x], DevInfo(dev))
    BY DEF FreshMeansCurrent
  <2>2. CASE x = c
    <3>1. handle'[c] = [handle[c] EXCEPT !.lastopr = Outcome(call, code)]
      BY <1>1 DEF Return, TypeOK
    <3> QED BY <2>1, <2>2, <3>1, LastoprNotMirrored DEF TypeOK
  <2>3. CASE x # c
    BY <1>1, <2>1, <2>3 DEF Return, TypeOK
  <2> QED BY <2>2, <2>3
<1>2. CASE Gone(c)
  <2> SUFFICES ASSUME NEW x \in Clients, fresh'[x]
               PROVE  pc'[x] = "idle" /\ Mirrors(handle'[x], DevInfo(dev'))
    BY DEF FreshMeansCurrent
  <2>1. x # c /\ fresh[x]
    BY <1>2 DEF Gone, TypeOK
  <2> QED BY <1>2, <2>1 DEF Gone, TypeOK, FreshMeansCurrent
<1>3. ASSUME NEW call \in Awaiting, NEW m \in Requests, Send(c, call, m)
      PROVE  FreshMeansCurrent'
  <2>1. PICK io \in send_scsi_command(plugged, fds[c]) :
          /\ dev' \in IF io.executed THEN Executed(dev, m) ELSE {dev}
          /\ fresh' = IF io.executed THEN Nobody ELSE fresh
          /\ io.rtn < 0 => /\ handle' = [handle EXCEPT ![c].lastopr =
                                            Outcome(call, USBK_LO_SCSI_ERROR)]
                           /\ pc' = pc
    BY <1>3 DEF Send
  <2>2. CASE io.executed
    BY <2>1, <2>2 DEF FreshMeansCurrent, Nobody
  <2>3. CASE ~io.executed
    <3>1. io.rtn < 0
      BY <2>3, PassedIsExecuted DEF TypeOK
    <3>2. dev' = dev /\ fresh' = fresh
      BY <2>1, <2>3
    <3> SUFFICES ASSUME NEW x \in Clients, fresh[x]
                 PROVE  pc[x] = "idle" /\ Mirrors(handle'[x], DevInfo(dev))
      BY <2>1, <3>1, <3>2 DEF FreshMeansCurrent
    <3>3. pc[x] = "idle" /\ Mirrors(handle[x], DevInfo(dev))
      BY DEF FreshMeansCurrent
    <3>4. CASE x = c
      <4>1. handle'[c] = [handle[c] EXCEPT !.lastopr = Outcome(call, USBK_LO_SCSI_ERROR)]
        BY <2>1, <3>1 DEF TypeOK
      <4> QED BY <3>3, <3>4, <4>1, LastoprNotMirrored DEF TypeOK
    <3>5. CASE x # c
      BY <2>1, <3>1, <3>3, <3>5 DEF TypeOK
    <3> QED BY <3>4, <3>5
  <2> QED BY <2>2, <2>3
<1> QED BY <1>1, <1>2, <1>3 DEF Begins

(* Every step keeps FreshMeansCurrent: what changes the device makes no    *)
(* handle fresh, what makes a handle fresh fills it from the device.       *)
LEMMA FreshStep == TypeOK /\ FreshMeansCurrent /\ [Next]_vars => FreshMeansCurrent'
<1> SUFFICES ASSUME TypeOK, FreshMeansCurrent, [Next]_vars PROVE FreshMeansCurrent'
  OBVIOUS
<1>1. ASSUME NEW c \in Clients, usbk_new(c) PROVE FreshMeansCurrent'
  <2>1. CASE UNCHANGED vars
    BY <2>1 DEF vars, FreshMeansCurrent
  <2>2. CASE fresh' = fresh /\ handle' = handle /\ pc' = pc /\ dev' = dev
    BY <2>2 DEF FreshMeansCurrent
  <2>3. CASE /\ handle' = [handle EXCEPT ![c] = Filled(NoHandle, DevInfo(dev))]
             /\ pc' = [pc EXCEPT ![c] = "idle"]
             /\ fresh' = [fresh EXCEPT ![c] = TRUE]
             /\ dev' = dev
    <3>1. Mirrors(handle'[c], DevInfo(dev))
      BY <2>3, NoHandleType, FilledMirrors DEF TypeOK
    <3> QED BY <2>3, <3>1 DEF FreshMeansCurrent, TypeOK
  <2> QED BY <1>1, <2>1, <2>2, <2>3 DEF usbk_new
<1>2. ASSUME NEW c \in Clients, usbk_refreshusbkinfo(c) PROVE FreshMeansCurrent'
  <2>1. CASE /\ handle' = [handle EXCEPT ![c].lastopr = USBK_LO_SCSI_ERROR]
             /\ fresh' = fresh
    <3>1. handle'[c] = [handle[c] EXCEPT !.lastopr = USBK_LO_SCSI_ERROR]
      BY <2>1 DEF TypeOK
    <3>2. fresh[c] => Mirrors(handle'[c], DevInfo(dev))
      BY <3>1, LastoprNotMirrored DEF FreshMeansCurrent, TypeOK
    <3> QED BY <1>2, <2>1, <3>2 DEF usbk_refreshusbkinfo, FreshMeansCurrent, TypeOK
  <2>2. CASE /\ handle' = [handle EXCEPT ![c] = Filled(@, DevInfo(dev))]
             /\ fresh' = [fresh EXCEPT ![c] = TRUE]
    <3>1. Mirrors(handle'[c], DevInfo(dev))
      BY <2>2, FilledMirrors DEF TypeOK
    <3> QED BY <1>2, <2>2, <3>1 DEF usbk_refreshusbkinfo, FreshMeansCurrent, TypeOK
  <2> QED BY <1>2, <2>1, <2>2 DEF usbk_refreshusbkinfo
<1>3. ASSUME NEW c \in Clients, usbk_release(c) PROVE FreshMeansCurrent'
  BY <1>3 DEF usbk_release, FreshMeansCurrent, TypeOK
<1>4. ASSUME NEW c \in Clients, Call(c) PROVE FreshMeansCurrent'
  BY <1>4, CallBegins, FreshBegins
<1>5. ASSUME NEW c \in Clients, commandstatus(c) PROVE FreshMeansCurrent'
  <2>1. ~fresh[c]
    BY <1>5 DEF commandstatus, FreshMeansCurrent, Awaiting
  <2>2. \A x \in Clients : x # c => handle'[x] = handle[x] /\ pc'[x] = pc[x]
    BY <1>5 DEF commandstatus, Finish, TypeOK
  <2>3. fresh' = fresh /\ dev' = dev
    BY <1>5 DEF commandstatus, Finish
  <2> QED BY <2>1, <2>2, <2>3 DEF FreshMeansCurrent
<1>6. ASSUME NEW c \in Clients, Exit(c) PROVE FreshMeansCurrent'
  BY <1>6 DEF Exit, Gone, FreshMeansCurrent, TypeOK
<1>7. CASE Unplug
  BY <1>7 DEF Unplug, FreshMeansCurrent
<1>8. CASE Replug
  BY <1>8 DEF Replug, FreshMeansCurrent, Nobody
<1>9. CASE UNCHANGED vars
  BY <1>9 DEF vars, FreshMeansCurrent
<1> QED BY <1>1, <1>2, <1>3, <1>4, <1>5, <1>6, <1>7, <1>8, <1>9 DEF Next, ClientStep

(* A process whose device nobody has touched since it read the information *)
(* holds a true copy of it, whatever the other processes do meanwhile.     *)
THEOREM FreshCurrent == Spec => []FreshMeansCurrent
<1>1. Init => FreshMeansCurrent
  BY DEF Init, FreshMeansCurrent
<1> QED BY <1>1, TypeInit, TypeStep, FreshStep, PTL DEF Spec

=============================================================================
