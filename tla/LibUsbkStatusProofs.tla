------------------------ MODULE LibUsbkStatusProofs -------------------------
(***************************************************************************)
(* What the result of a call says about its command: proofs, for every     *)
(* number of processes, that between the two exchanges of a call nothing   *)
(* changes the device without marking the call as disturbed, and that a    *)
(* call nobody disturbed reports the verdict on its own command.           *)
(***************************************************************************)
EXTENDS LibUsbkProofs

(* A command the device obeyed is in effect afterwards.                    *)
LEMMA ObeyedApplied ==
    ASSUME NEW d \in Device, NEW m \in Command, ~BadKeyNumber(m)
    PROVE  \A e \in Obeyed(d, m) : Applied(e, m)
<1> USE DEF ACTIVATE_KEY, DEACTIVATE_KEY, CHANGE_PASS, SET_DEV_NAME, SET_AUTO_ACTIVE,
        SET_KEY, GENERATE_KEY
<1>a. m.op \in Opcodes
  BY DEF Command
<1>1. CASE m.op = ACTIVATE_KEY
  <2> DEFINE S == {USBK_DS_ACTIVATE, USBK_DS_ACTIVATE_WITH_BACKDISK}
             After(s) == [d EXCEPT !.state = s, !.current = m.keyno]
  <2>1. Obeyed(d, m) = {After(s) : s \in S}
    BY <1>1 DEF Obeyed
  <2>2. ASSUME NEW s \in S, NEW e, e = After(s)
        PROVE  e.state \in S /\ e.current = m.keyno
    BY <2>2 DEF Device
  <2> HIDE DEF After, S
  <2>3. \A e \in Obeyed(d, m) : e.state \in S /\ e.current = m.keyno
    BY <2>1, <2>2
  <2> USE DEF S
  <2> QED BY <1>1, <2>3 DEF Applied
<1>2. CASE m.op = DEACTIVATE_KEY
  BY <1>2 DEF Obeyed, Applied, Device
<1>3. CASE m.op = CHANGE_PASS
  <2> DEFINE After(ks) == [d EXCEPT !.state = USBK_DS_DEACTIVATE,
                                    !.password = m.new_password, !.keys = ks]
  <2>1. Obeyed(d, m) = {After(ks) : ks \in [Slots -> DeviceKeys]}
    BY <1>3 DEF Obeyed
  <2>2. ASSUME NEW ks, NEW e, e = After(ks)
        PROVE  e.state = USBK_DS_DEACTIVATE /\ e.password = m.new_password
    BY <2>2 DEF Device
  <2> HIDE DEF After
  <2> QED BY <1>3, <2>1, <2>2 DEF Applied
<1>4. CASE m.op = SET_DEV_NAME
  <2> DEFINE After == [d EXCEPT !.state = USBK_DS_MUST_REMOVE, !.devlabel = m.devlabel]
  <2>1. Obeyed(d, m) = {After}
    BY <1>4 DEF Obeyed
  <2>2. After.state = USBK_DS_MUST_REMOVE /\ After.devlabel = m.devlabel
    BY DEF Device
  <2> HIDE DEF After
  <2> QED BY <1>4, <2>1, <2>2 DEF Applied
<1>5. CASE m.op = SET_AUTO_ACTIVE
  BY <1>5 DEF Obeyed, Applied, Device
<1>6. CASE m.op = SET_KEY
  <2>1. m.keyno \in Slots
    BY <1>6 DEF BadKeyNumber
  <2> DEFINE After == [d EXCEPT !.keynames[m.keyno] = m.keyname,
                                !.keys[m.keyno] = IF m.options = SETKEY_NAME_AND_KEY
                                                  THEN m.key ELSE @]
  <2>2. Obeyed(d, m) = {After}
    BY <1>6 DEF Obeyed
  <2>3. /\ After.keynames[m.keyno] = m.keyname
        /\ m.options = SETKEY_NAME_AND_KEY => After.keys[m.keyno] = m.key
    BY <2>1 DEF Device
  <2> HIDE DEF After
  <2> QED BY <1>6, <2>2, <2>3 DEF Applied
<1>7. CASE m.op = GENERATE_KEY
  BY <1>7 DEF Applied
<1> QED BY <1>a, <1>1, <1>2, <1>3, <1>4, <1>5, <1>6, <1>7 DEF Opcodes

(* The device in which a command passed is one it took effect in.          *)
LEMMA PassedIsApplied ==
    ASSUME NEW d \in Device, NEW m \in Command, NEW e \in Executed(d, m),
           e.lastop = OPRS_PASS
    PROVE  Applied(e, m)
<1> USE DEF OPRS_PASS, OPRS_GEN_FAIL, OPRS_FAILED_PASS, OPRS_FABRIC_RESET,
        OPRS_USBK_UNPLUGING, OPRS_INVALID_KEYNO, OPRS_INVALID_NEWPASS
<1>1. PICK v \in Verdicts(d, m) : e \in {[q EXCEPT !.lastop = v] : q \in Outcomes(d, m, v)}
  BY DEF Executed
<1>2. PICK o \in Outcomes(d, m, v) : e = [o EXCEPT !.lastop = v]
  BY <1>1
<1>3. Restored(d, m) \in Device
  BY RetryAssumption DEF Restored, Device
<1>4. o \in Device
  BY OutcomesType
<1>5. v = OPRS_PASS
  BY <1>2, <1>4 DEF Device
<1>6. ~BadKeyNumber(m)
  BY <1>5 DEF Verdicts, Complaints, StateRefusal, PasswordRefusal
<1>7. o \in Obeyed(Restored(d, m), m)
  BY <1>5 DEF Outcomes
<1>8. Applied(o, m)
  BY <1>3, <1>6, <1>7, ObeyedApplied
<1>9. /\ e.state = o.state /\ e.current = o.current /\ e.password = o.password
      /\ e.devlabel = o.devlabel /\ e.autoact = o.autoact
      /\ e.keynames = o.keynames /\ e.keys = o.keys
  BY <1>2, <1>4 DEF Device
<1> QED BY <1>8, <1>9 DEF Applied

-----------------------------------------------------------------------------
(* StatusStillMine                                                         *)

(* The part of StatusStillMine that speaks of one process.                 *)
Mine(c) ==
    pc[c] \in Awaiting /\ ~sent[c].disturbed =>
        /\ dev.lastop = sent[c].verdict
        /\ dev.lastop = OPRS_PASS => Applied(dev, sent[c].cmd)

(* A step that neither touches the device nor gives a process something    *)
(* new to wait for leaves what it may conclude.                            *)
LEMMA MineKept ==
    ASSUME NEW c \in Clients, Mine(c), dev' = dev,
           pc'[c] \in Awaiting => pc'[c] = pc[c] /\ sent'[c] = sent[c]
    PROVE  Mine(c)'
  BY DEF Mine

(* Sending a command: the sender waits for the verdict on its own command, *)
(* and whoever else was waiting is marked as soon as the device saw it.    *)
LEMMA MineSend ==
    ASSUME TypeOK, StatusStillMine, NEW c \in Clients, pc[c] = "idle",
           NEW call \in Awaiting, NEW m \in Command, Send(c, call, m)
    PROVE  StatusStillMine'
<1> DEFINE Others(io) == IF io.executed THEN Disturbed(Clients \ {c}) ELSE sent
<1>1. PICK io \in send_scsi_command(plugged, fds[c]) :
        /\ dev' \in IF io.executed THEN Executed(dev, m) ELSE {dev}
        /\ IF io.rtn < 0
           THEN /\ sent' = Others(io)
                /\ pc' = pc
           ELSE /\ \E k \in Answers(m, dev'.lastop) :
                     sent' = [Others(io) EXCEPT ![c] =
                                [cmd |-> m, verdict |-> dev'.lastop,
                                 key |-> k, disturbed |-> FALSE]]
                /\ pc' = [pc EXCEPT ![c] = call]
  BY DEF Send
<1>2. Others(io) \in [Clients -> Sent]
  BY DisturbedType DEF TypeOK
<1>3. ~(io.rtn < 0) => io.executed
  BY PassedIsExecuted DEF TypeOK
<1>4. ASSUME NEW x \in Clients, x # c PROVE Mine(x)'
  <2>1. pc'[x] = pc[x]
    BY <1>1, <1>4 DEF TypeOK
  <2>2. sent'[x] = Others(io)[x]
    <3>1. CASE io.rtn < 0
      BY <1>1, <3>1
    <3>2. CASE ~(io.rtn < 0)
      <4>1. PICK k \in Answers(m, dev'.lastop) :
              sent' = [Others(io) EXCEPT ![c] =
                         [cmd |-> m, verdict |-> dev'.lastop, key |-> k, disturbed |-> FALSE]]
        BY <1>1, <3>2
      <4> HIDE DEF Others
      <4> QED BY <1>2, <1>4, <4>1
    <3> QED BY <3>1, <3>2
  <2>3. CASE io.executed
    <3>1. pc[x] \in Awaiting => sent'[x] = [sent[x] EXCEPT !.disturbed = TRUE]
      BY <1>4, <2>2, <2>3 DEF Disturbed
    <3>2. sent[x] \in Sent
      BY DEF TypeOK
    <3>3. pc[x] \in Awaiting => sent'[x].disturbed
      BY <3>1, <3>2 DEF Sent
    <3> QED BY <2>1, <3>3 DEF Mine
  <2>4. CASE ~io.executed
    <3>1. dev' = dev /\ sent'[x] = sent[x]
      BY <1>1, <2>2, <2>4
    <3>2. Mine(x)
      BY DEF StatusStillMine, Mine
    <3> QED BY <2>1, <3>1, <3>2, MineKept
  <2> QED BY <2>3, <2>4
<1>5. Mine(c)'
  <2>1. CASE io.rtn < 0
    <3>1. pc'[c] = "idle"
      BY <1>1, <2>1
    <3> QED BY <3>1 DEF Mine, Awaiting
  <2>2. CASE ~(io.rtn < 0)
    <3>1. PICK k \in Answers(m, dev'.lastop) :
            sent' = [Others(io) EXCEPT ![c] =
                       [cmd |-> m, verdict |-> dev'.lastop, key |-> k, disturbed |-> FALSE]]
      BY <1>1, <2>2
    <3>2. dev' \in Executed(dev, m)
      BY <1>1, <1>3, <2>2
    <3>3. dev'.lastop = OPRS_PASS => Applied(dev', m)
      BY <3>2, PassedIsApplied DEF TypeOK
    <3> HIDE DEF Others
    <3>4. sent'[c] = [cmd |-> m, verdict |-> dev'.lastop, key |-> k, disturbed |-> FALSE]
      BY <1>2, <3>1
    <3> QED BY <3>3, <3>4 DEF Mine
  <2> QED BY <2>1, <2>2
<1> QED BY <1>4, <1>5 DEF StatusStillMine, Mine

(* Every step keeps StatusStillMine: a command sent marks the others, a    *)
(* replug marks everybody, and nothing else reaches the device.            *)
LEMMA MineStep == TypeOK /\ StatusStillMine /\ [Next]_vars => StatusStillMine'
<1> SUFFICES ASSUME TypeOK, StatusStillMine, [Next]_vars PROVE StatusStillMine'
  OBVIOUS
<1>0. \A x \in Clients : Mine(x)
  BY DEF StatusStillMine, Mine
<1>a. ASSUME dev' = dev,
             \A x \in Clients : pc'[x] \in Awaiting => pc'[x] = pc[x] /\ sent'[x] = sent[x]
      PROVE  StatusStillMine'
  <2>1. \A x \in Clients : Mine(x)'
    BY <1>0, <1>a, MineKept
  <2> QED BY <2>1 DEF StatusStillMine, Mine
<1>1. ASSUME NEW c \in Clients, usbk_new(c) PROVE StatusStillMine'
  <2>1. dev' = dev /\ sent' = sent
    BY <1>1 DEF usbk_new, vars
  <2>2. \A x \in Clients : pc'[x] \in Awaiting => pc'[x] = pc[x]
    BY <1>1 DEF usbk_new, vars, TypeOK, Awaiting
  <2> QED BY <1>a, <2>1, <2>2
<1>2. ASSUME NEW c \in Clients, usbk_refreshusbkinfo(c) PROVE StatusStillMine'
  BY <1>2, <1>a DEF usbk_refreshusbkinfo
<1>3. ASSUME NEW c \in Clients, usbk_release(c) PROVE StatusStillMine'
  BY <1>3, <1>a DEF usbk_release, TypeOK, Awaiting
<1>4. ASSUME NEW c \in Clients, Call(c) PROVE StatusStillMine'
  <2>1. pc[c] = "idle" /\ Begins(c)
    BY <1>4, CallBegins
  <2>2. ASSUME NEW call, NEW code, Return(c, call, code) PROVE StatusStillMine'
    BY <1>a, <2>2 DEF Return
  <2>3. CASE Gone(c)
    BY <1>a, <2>3 DEF Gone, TypeOK, Awaiting
  <2>4. ASSUME NEW call \in Awaiting, NEW m \in Requests, Send(c, call, m)
        PROVE  StatusStillMine'
    BY <2>1, <2>4, MineSend, RequestsAreCommands
  <2> QED BY <2>1, <2>2, <2>3, <2>4 DEF Begins
<1>5. ASSUME NEW c \in Clients, commandstatus(c) PROVE StatusStillMine'
  BY <1>5, <1>a DEF commandstatus, Finish, TypeOK, Awaiting
<1>6. ASSUME NEW c \in Clients, Exit(c) PROVE StatusStillMine'
  BY <1>6, <1>a DEF Exit, Gone, TypeOK, Awaiting
<1>7. CASE Unplug
  BY <1>7, <1>a DEF Unplug
<1>8. CASE Replug
  <2>1. ASSUME NEW x \in Clients, pc'[x] \in Awaiting PROVE sent'[x].disturbed
    <3>1. sent'[x] = [sent[x] EXCEPT !.disturbed = TRUE]
      BY <1>8, <2>1 DEF Replug, Disturbed
    <3> QED BY <3>1 DEF TypeOK, Sent
  <2> QED BY <2>1 DEF StatusStillMine
<1>9. CASE UNCHANGED vars
  BY <1>9, <1>a DEF vars
<1> QED BY <1>1, <1>2, <1>3, <1>4, <1>5, <1>6, <1>7, <1>8, <1>9 DEF Next, ClientStep

(* Nobody waits for a status at first.                                     *)
LEMMA MineInit == Init => StatusStillMine
  BY DEF Init, StatusStillMine, Awaiting

(* Between the two exchanges of a call the device's last verdict stays     *)
(* that of the call's own command, and a command that passed stays in      *)
(* effect, unless the call is known to be disturbed: for any number of     *)
(* processes, whatever they send and whenever the device is unplugged.     *)
THEOREM StatusMine == Spec => []StatusStillMine
<1> QED BY TypeInit, TypeStep, MineInit, MineStep, PTL DEF Spec

-----------------------------------------------------------------------------
(* What the result of a call says                                          *)

(* The only step that takes a process from waiting back to its calls is    *)
(* its own commandstatus.                                                  *)
LEMMA OnlyStatusReturns ==
    ASSUME TypeOK, [Next]_vars, NEW c \in Clients, pc[c] \in Awaiting, pc'[c] = "idle"
    PROVE  commandstatus(c)
<1>0. pc'[c] # pc[c]
  BY DEF Awaiting
<1>1. ASSUME NEW x \in Clients, x # c, ClientStep(x) PROVE FALSE
  <2>1. CASE usbk_new(x) \/ usbk_release(x) \/ Exit(x)
    BY <1>0, <1>1, <2>1 DEF usbk_new, usbk_release, Exit, Gone, vars, TypeOK
  <2>2. CASE usbk_refreshusbkinfo(x)
    BY <1>0, <2>2 DEF usbk_refreshusbkinfo
  <2>3. CASE Call(x)
    <3>1. Begins(x)
      BY <2>3, CallBegins
    <3>2. pc'[c] = pc[c]
      BY <1>1, <3>1 DEF Begins, Return, Gone, Send, TypeOK
    <3> QED BY <1>0, <3>2
  <2>4. CASE commandstatus(x)
    BY <1>0, <1>1, <2>4 DEF commandstatus, Finish, TypeOK
  <2> QED BY <1>1, <2>1, <2>2, <2>3, <2>4 DEF ClientStep
<1>2. CASE ClientStep(c)
  <2>1. pc[c] # "idle" /\ pc[c] # "none"
    BY DEF Awaiting
  <2>2. ~Call(c)
    BY <2>1, CallBegins
  <2>3. ~Exit(c)
    BY DEF Exit, Gone, TypeOK
  <2> QED BY <1>2, <2>1, <2>2, <2>3
        DEF ClientStep, usbk_new, usbk_refreshusbkinfo, usbk_release
<1>3. CASE Unplug \/ Replug \/ UNCHANGED vars
  BY <1>0, <1>3 DEF Unplug, Replug, vars
<1> QED BY <1>1, <1>2, <1>3 DEF Next

(* A call that reports a status has read it from the device: its result is *)
(* the verdict less one, up to the sign the wrappers turn.                 *)
LEMMA ReportsVerdict ==
    ASSUME TypeOK, [Next]_vars, NEW c \in Clients, Reports(c)
    PROVE  /\ dev' = dev
           /\ Abs(handle'[c].lastopr) = dev.lastop - 1
<1>1. commandstatus(c)
  BY OnlyStatusReturns DEF Reports
<1>2. PICK io \in send_scsi_command(plugged, fds[c]) :
        Finish(c, io, StatusCode(c, io), StatusRetry(c, io), StatusKey(c, StatusCode(c, io)))
  BY <1>1 DEF commandstatus
<1>3. handle'[c].lastopr = StatusCode(c, io)
  <2>1. handle[c] \in Handle
    BY DEF TypeOK
  <2>2. handle'[c] = [handle[c] EXCEPT !.lastopr = StatusCode(c, io),
                                       !.retry_num = StatusRetry(c, io)]
    BY <1>2 DEF Finish, TypeOK
  <2> QED BY <2>1, <2>2 DEF Handle
<1>4. dev.lastop \in 1 .. 10
  BY DEF TypeOK, Device, OPRS
<1>5. ~(io.rtn < 0)
  <2>1. Abs(StatusCode(c, io)) # USBK_LO_SCSI_ERROR
    BY <1>3 DEF Reports
  <2>2. io.rtn < 0 => StatusCode(c, io) \in {-USBK_LO_SCSI_ERROR, -(-USBK_LO_SCSI_ERROR)}
    BY DEF StatusCode, Outcome
  <2>3. \A n \in Nat : Abs(-n) = n /\ Abs(-(-n)) = n
    BY DEF Abs
  <2>4. USBK_LO_SCSI_ERROR \in Nat
    BY DEF USBK_LO_SCSI_ERROR
  <2> QED BY <2>1, <2>2, <2>3, <2>4
<1>6. Abs(StatusCode(c, io)) = dev.lastop - 1
  BY <1>4, <1>5 DEF StatusCode, Outcome, Abs
<1> QED BY <1>2, <1>3, <1>6 DEF Finish

(* The result of a call nobody disturbed is the verdict of the device on   *)
(* the command of that call, for any number of processes.                  *)
THEOREM OwnVerdictAlways == Spec => OwnVerdict
<1>1. ASSUME TypeOK, StatusStillMine, [Next]_vars, NEW c \in Clients
      PROVE  OwnVerdictStep(c)
  <2> SUFFICES ASSUME Reports(c)
               PROVE  Abs(handle'[c].lastopr) = sent[c].verdict - 1
    BY DEF OwnVerdictStep
  <2>1. dev.lastop = sent[c].verdict
    BY <1>1 DEF StatusStillMine, Reports
  <2> QED BY <1>1, <2>1, ReportsVerdict
<1>2. TypeOK /\ StatusStillMine /\ [Next]_vars => [\A c \in Clients : OwnVerdictStep(c)]_vars
  BY <1>1
<1> QED BY <1>2, TypeCorrect, StatusMine, PTL DEF Spec, OwnVerdict

(* A call nobody disturbed that returns PASS has changed the device as it  *)
(* was asked to, for any number of processes and slots.                    *)
THEOREM PassAlwaysApplied == Spec => PassIsApplied
<1> DEFINE Step == \A c \in Clients :
             Reports(c) /\ handle'[c].lastopr = USBK_LO_PASS => Applied(dev, sent[c].cmd)
<1>1. ASSUME TypeOK, StatusStillMine, [Next]_vars, NEW c \in Clients,
             Reports(c), handle'[c].lastopr = USBK_LO_PASS
      PROVE  Applied(dev, sent[c].cmd)
  <2>1. Abs(handle'[c].lastopr) = dev.lastop - 1
    BY <1>1, ReportsVerdict
  <2>2. dev.lastop \in 1 .. 10
    BY <1>1 DEF TypeOK, Device, OPRS
  <2>3. dev.lastop = OPRS_PASS
    BY <1>1, <2>1, <2>2 DEF Abs, USBK_LO_PASS, OPRS_PASS
  <2> QED BY <1>1, <2>3 DEF StatusStillMine, Reports
<1>2. TypeOK /\ StatusStillMine /\ [Next]_vars => [Step]_vars
  BY <1>1
<1> HIDE DEF Step
<1>3. Spec => [][Step]_vars
  BY <1>2, TypeCorrect, StatusMine, PTL DEF Spec
<1> QED BY <1>3 DEF PassIsApplied, Step

=============================================================================
