------------------------- MODULE LibUsbkCallProofs --------------------------
(***************************************************************************)
(* What a single call does to its caller: proofs that a random key is      *)
(* handed out only with PASS, that a descriptor is never lost silently,    *)
(* and that a process with a fresh copy of the device is refused only what *)
(* the device would refuse and keeps the names it does not set.            *)
(***************************************************************************)
EXTENDS LibUsbkStatusProofs

(* While a call waits it keeps the answer that came with its verdict.      *)
AnswerKept ==
    \A c \in Clients :
        pc[c] \in Awaiting => sent[c].key \in Answers(sent[c].cmd, sent[c].verdict)

(* A step in which nobody begins to wait, and nobody who waits loses more  *)
(* than the mark of being alone, keeps the answers.                        *)
LEMMA AnswersCarried ==
    ASSUME AnswerKept,
           \A c \in Clients : pc'[c] \in Awaiting =>
                /\ pc[c] \in Awaiting
                /\ sent'[c].key = sent[c].key
                /\ sent'[c].cmd = sent[c].cmd
                /\ sent'[c].verdict = sent[c].verdict
    PROVE  AnswerKept'
  BY DEF AnswerKept, Answers, GeneratedKeys

(* Marking a process leaves its command, verdict and answer alone.         *)
LEMMA DisturbedCarries ==
    ASSUME TypeOK, NEW others, NEW c \in Clients
    PROVE  /\ Disturbed(others)[c].key = sent[c].key
           /\ Disturbed(others)[c].cmd = sent[c].cmd
           /\ Disturbed(others)[c].verdict = sent[c].verdict
<1>1. sent[c] \in Sent
  BY DEF TypeOK
<1> QED BY <1>1 DEF Disturbed, Sent

(* A command that is sent brings the answer of its verdict.                *)
LEMMA AnswerSend ==
    ASSUME TypeOK, AnswerKept, NEW c \in Clients, pc[c] = "idle",
           NEW call \in Awaiting, NEW m \in Command, Send(c, call, m)
    PROVE  AnswerKept'
<1> DEFINE Others(io) == IF io.executed THEN Disturbed(Clients \ {c}) ELSE sent
<1>1. PICK io \in send_scsi_command(plugged, fds[c]) :
        IF io.rtn < 0
        THEN /\ sent' = Others(io)
             /\ pc' = pc
        ELSE /\ \E k \in Answers(m, dev'.lastop) :
                  sent' = [Others(io) EXCEPT ![c] =
                             [cmd |-> m, verdict |-> dev'.lastop,
                              key |-> k, disturbed |-> FALSE]]
             /\ pc' = [pc EXCEPT ![c] = call]
  BY DEF Send
<1>2. Others(io) \in [Clients -> Sent]
  BY DisturbedType DEF TypeOK
<1>3. \A x \in Clients : /\ Others(io)[x].key = sent[x].key
                         /\ Others(io)[x].cmd = sent[x].cmd
                         /\ Others(io)[x].verdict = sent[x].verdict
  BY DisturbedCarries
<1> HIDE DEF Others
<1>4. CASE io.rtn < 0
  BY <1>1, <1>3, <1>4, AnswersCarried
<1>5. CASE ~(io.rtn < 0)
  <2>1. PICK k \in Answers(m, dev'.lastop) :
          sent' = [Others(io) EXCEPT ![c] =
                     [cmd |-> m, verdict |-> dev'.lastop, key |-> k, disturbed |-> FALSE]]
    BY <1>1, <1>5
  <2>2. sent'[c].key \in Answers(sent'[c].cmd, sent'[c].verdict)
    BY <1>2, <2>1
  <2>3. ASSUME NEW x \in Clients, x # c, pc'[x] \in Awaiting
        PROVE  sent'[x].key \in Answers(sent'[x].cmd, sent'[x].verdict)
    <3>1. pc'[x] = pc[x] /\ sent'[x] = Others(io)[x]
      BY <1>1, <1>2, <1>5, <2>1, <2>3 DEF TypeOK
    <3>2. sent[x].key \in Answers(sent[x].cmd, sent[x].verdict)
      BY <2>3, <3>1 DEF AnswerKept
    <3> QED BY <1>3, <3>1, <3>2
  <2> QED BY <2>2, <2>3 DEF AnswerKept
<1> QED BY <1>4, <1>5

(* Every step keeps the answers.                                           *)
LEMMA AnswerStep == TypeOK /\ AnswerKept /\ [Next]_vars => AnswerKept'
<1> SUFFICES ASSUME TypeOK, AnswerKept, [Next]_vars PROVE AnswerKept'
  OBVIOUS
<1>a. ASSUME \A x \in Clients : pc'[x] \in Awaiting => pc'[x] = pc[x] /\ sent'[x] = sent[x]
      PROVE  AnswerKept'
  BY <1>a, AnswersCarried
<1>1. ASSUME NEW c \in Clients, usbk_new(c) PROVE AnswerKept'
  <2>1. sent' = sent
    BY <1>1 DEF usbk_new, vars
  <2>2. \A x \in Clients : pc'[x] \in Awaiting => pc'[x] = pc[x]
    BY <1>1 DEF usbk_new, vars, TypeOK, Awaiting
  <2> QED BY <1>a, <2>1, <2>2
<1>2. ASSUME NEW c \in Clients, usbk_refreshusbkinfo(c) PROVE AnswerKept'
  BY <1>2, <1>a DEF usbk_refreshusbkinfo
<1>3. ASSUME NEW c \in Clients, usbk_release(c) PROVE AnswerKept'
  BY <1>3, <1>a DEF usbk_release, TypeOK, Awaiting
<1>4. ASSUME NEW c \in Clients, Call(c) PROVE AnswerKept'
  <2>1. pc[c] = "idle" /\ Begins(c)
    BY <1>4, CallBegins
  <2>2. ASSUME NEW call, NEW code, Return(c, call, code) PROVE AnswerKept'
    BY <1>a, <2>2 DEF Return
  <2>3. CASE Gone(c)
    BY <1>a, <2>3 DEF Gone, TypeOK, Awaiting
  <2>4. ASSUME NEW call \in Awaiting, NEW m \in Requests, Send(c, call, m)
        PROVE  AnswerKept'
    BY <2>1, <2>4, AnswerSend, RequestsAreCommands
  <2> QED BY <2>1, <2>2, <2>3, <2>4 DEF Begins
<1>5. ASSUME NEW c \in Clients, commandstatus(c) PROVE AnswerKept'
  BY <1>5, <1>a DEF commandstatus, Finish, TypeOK, Awaiting
<1>6. ASSUME NEW c \in Clients, Exit(c) PROVE AnswerKept'
  BY <1>6, <1>a DEF Exit, Gone, TypeOK, Awaiting
<1>7. CASE Unplug
  BY <1>7, <1>a DEF Unplug
<1>8. CASE Replug
  BY <1>8, AnswersCarried, DisturbedCarries DEF Replug
<1>9. CASE UNCHANGED vars
  BY <1>9, <1>a DEF vars
<1> QED BY <1>1, <1>2, <1>3, <1>4, <1>5, <1>6, <1>7, <1>8, <1>9 DEF Next, ClientStep

(* A random key reaches its caller only together with PASS, and then it is *)
(* one the device generated; on every other result the buffer is left as   *)
(* it was: for any number of processes, whatever is lost, as long as none  *)
(* of the others and no replug came between the two exchanges.             *)
THEOREM RandomKeyAlwaysDelivered == Spec => RandomKeyDelivered
<1> DEFINE Step(c) ==
             pc[c] \in Awaiting /\ ~sent[c].disturbed /\ pc'[c] = "idle" =>
                IF sent[c].cmd.op = GENERATE_KEY /\ handle'[c].lastopr = USBK_LO_PASS
                THEN random_key'[c] \in DeviceKeys
                ELSE random_key'[c] = random_key[c]
<1>1. ASSUME TypeOK, StatusStillMine, AnswerKept, [Next]_vars, NEW c \in Clients
      PROVE  Step(c)
  <2> SUFFICES ASSUME pc[c] \in Awaiting, ~sent[c].disturbed, pc'[c] = "idle"
               PROVE  IF sent[c].cmd.op = GENERATE_KEY /\ handle'[c].lastopr = USBK_LO_PASS
                      THEN random_key'[c] \in DeviceKeys
                      ELSE random_key'[c] = random_key[c]
    OBVIOUS
  <2>1. commandstatus(c)
    BY <1>1, OnlyStatusReturns
  <2>2. PICK io \in send_scsi_command(plugged, fds[c]) :
          Finish(c, io, StatusCode(c, io), StatusRetry(c, io),
                 StatusKey(c, StatusCode(c, io)))
    BY <2>1 DEF commandstatus
  <2>3. handle'[c].lastopr = StatusCode(c, io)
    <3>1. handle[c] \in Handle
      BY <1>1 DEF TypeOK
    <3>2. handle'[c] = [handle[c] EXCEPT !.lastopr = StatusCode(c, io),
                                         !.retry_num = StatusRetry(c, io)]
      BY <1>1, <2>2 DEF Finish, TypeOK
    <3> QED BY <3>1, <3>2 DEF Handle
  <2>4. random_key'[c] = StatusKey(c, StatusCode(c, io))
    BY <1>1, <2>2 DEF Finish, TypeOK
  <2>5. ASSUME sent[c].cmd.op = GENERATE_KEY, handle'[c].lastopr = USBK_LO_PASS
        PROVE  sent[c].key \in DeviceKeys
    <3>1. Abs(handle'[c].lastopr) = 0
      BY <2>5 DEF Abs, USBK_LO_PASS
    <3>2. Reports(c)
      BY <3>1 DEF Reports, USBK_LO_SCSI_ERROR
    <3>3. dev.lastop - 1 = 0 /\ dev.lastop = sent[c].verdict
      BY <1>1, <3>1, <3>2, ReportsVerdict DEF StatusStillMine
    <3>4. dev.lastop \in 1 .. 10
      BY <1>1 DEF TypeOK, Device, OPRS
    <3>5. sent[c].verdict = OPRS_PASS
      BY <3>3, <3>4 DEF OPRS_PASS
    <3> QED BY <1>1, <2>5, <3>5 DEF AnswerKept, Answers, GeneratedKeys
  <2> QED BY <2>3, <2>4, <2>5 DEF StatusKey
<1>2. TypeOK /\ StatusStillMine /\ AnswerKept /\ [Next]_vars
        => [\A c \in Clients : Step(c)]_vars
  BY <1>1
<1>3. Init => AnswerKept
  BY DEF Init, AnswerKept, Awaiting
<1>4. Spec => []AnswerKept
  BY <1>3, AnswerStep, TypeCorrect, PTL DEF Spec
<1> HIDE DEF Step
<1>5. Spec => [][\A c \in Clients : Step(c)]_vars
  BY <1>2, <1>4, TypeCorrect, StatusMine, PTL DEF Spec
<1> QED BY <1>5 DEF RandomKeyDelivered, Step

-----------------------------------------------------------------------------
(* Descriptors                                                             *)

(* An exchange loses at most one descriptor, and none when it passes.      *)
LEMMA ExchangeLeaks ==
    ASSUME NEW p \in BOOLEAN, NEW n \in 0 .. MaxFds, NEW io \in send_scsi_command(p, n)
    PROVE  io.fds = n \/ (io.fds = n + 1 /\ io.rtn < 0)
<1> USE DEF USBK_SCSI_PASS, USBK_SCSI_OPEN_FAIL, USBK_SCSI_TRANSFER_FAIL
<1>1. CASE usbk_sg_open(p, n) < 0
  BY <1>1 DEF send_scsi_command
<1>2. CASE ~(usbk_sg_open(p, n) < 0)
  <2>1. PICK t \in usbk_sg_tansfer : io = Exchange(t, n)
    BY <1>2 DEF send_scsi_command
  <2> QED BY <2>1 DEF Exchange
<1> QED BY <1>1, <1>2

(* A descriptor is lost only by an exchange that failed, one at a time,    *)
(* and the process hears of the failure: by a SCSI error in lastopr, or by *)
(* getting no handle.                                                      *)
THEOREM LeaksAlwaysReported == Spec => EveryLeakIsReported
<1> DEFINE Step(c) ==
             fds'[c] > fds[c] =>
                /\ fds'[c] = fds[c] + 1
                /\ \/ Abs(handle'[c].lastopr) = USBK_LO_SCSI_ERROR
                   \/ pc'[c] = "none"
<1>a. /\ Abs(USBK_LO_SCSI_ERROR) = USBK_LO_SCSI_ERROR
      /\ Abs(-USBK_LO_SCSI_ERROR) = USBK_LO_SCSI_ERROR
      /\ Abs(-(-USBK_LO_SCSI_ERROR)) = USBK_LO_SCSI_ERROR
  <2>1. \A n \in Nat : Abs(n) = n /\ Abs(-n) = n /\ Abs(-(-n)) = n
    BY DEF Abs
  <2>2. USBK_LO_SCSI_ERROR \in Nat
    BY DEF USBK_LO_SCSI_ERROR
  <2> QED BY <2>1, <2>2
<1>1. ASSUME TypeOK, [Next]_vars, NEW x \in Clients
      PROVE  Step(x)
  <2>n. fds[x] \in Nat /\ handle[x] \in Handle
    BY <1>1 DEF TypeOK
  <2>1. ASSUME NEW c \in Clients, ClientStep(c) PROVE Step(x)
    <3>1. CASE usbk_new(c)
      <4>1. fds'[x] = fds[x] \/ (x = c /\ pc'[x] = "none" /\ fds'[x] = fds[x] + 1)
            \/ \E io \in send_scsi_command(plugged, fds[c]) :
                 x = c /\ ~(io.rtn < 0) /\ fds'[x] = io.fds
        BY <1>1, <3>1, ExchangeLeaks DEF usbk_new, vars, TypeOK
      <4> QED BY <1>1, <2>n, <4>1, ExchangeLeaks DEF TypeOK
    <3>2. CASE usbk_refreshusbkinfo(c)
      <4>1. PICK io \in send_scsi_command(plugged, fds[c]) :
              /\ fds' = [fds EXCEPT ![c] = io.fds]
              /\ io.rtn < 0 => handle' = [handle EXCEPT ![c].lastopr = USBK_LO_SCSI_ERROR]
        BY <3>2 DEF usbk_refreshusbkinfo
      <4>2. io.fds = fds[c] \/ (io.fds = fds[c] + 1 /\ io.rtn < 0)
        BY <1>1, ExchangeLeaks DEF TypeOK
      <4>3. io.rtn < 0 => handle'[c].lastopr = USBK_LO_SCSI_ERROR
        BY <1>1, <4>1 DEF TypeOK, Handle
      <4> QED BY <1>1, <1>a, <2>n, <4>1, <4>2, <4>3 DEF TypeOK
    <3>3. CASE usbk_release(c)
      BY <2>n, <3>3 DEF usbk_release
    <3>4. CASE Call(c)
      <4>1. Begins(c)
        BY <1>1, <3>4, CallBegins
      <4>2. CASE Gone(c)
        BY <1>1, <2>n, <4>2 DEF Gone, TypeOK
      <4>3. ASSUME NEW call, NEW code, Return(c, call, code) PROVE Step(x)
        BY <2>n, <4>3 DEF Return
      <4>4. ASSUME NEW call \in Awaiting, NEW m, Send(c, call, m) PROVE Step(x)
        <5>1. PICK io \in send_scsi_command(plugged, fds[c]) :
                /\ fds' = [fds EXCEPT ![c] = io.fds]
                /\ io.rtn < 0 => handle' = [handle EXCEPT ![c].lastopr =
                                               Outcome(call, USBK_LO_SCSI_ERROR)]
          BY <4>4 DEF Send
        <5>2. io.fds = fds[c] \/ (io.fds = fds[c] + 1 /\ io.rtn < 0)
          BY <1>1, ExchangeLeaks DEF TypeOK
        <5>3. io.rtn < 0 => handle'[c].lastopr = Outcome(call, USBK_LO_SCSI_ERROR)
          BY <1>1, <5>1 DEF TypeOK, Handle
        <5>4. Abs(Outcome(call, USBK_LO_SCSI_ERROR)) = USBK_LO_SCSI_ERROR
          BY <1>a DEF Outcome
        <5> QED BY <1>1, <2>n, <5>1, <5>2, <5>3, <5>4 DEF TypeOK
      <4> QED BY <4>1, <4>2, <4>3, <4>4 DEF Begins
    <3>5. CASE commandstatus(c)
      <4>1. PICK io \in send_scsi_command(plugged, fds[c]) :
              Finish(c, io, StatusCode(c, io), StatusRetry(c, io),
                     StatusKey(c, StatusCode(c, io)))
        BY <3>5 DEF commandstatus
      <4>2. io.fds = fds[c] \/ (io.fds = fds[c] + 1 /\ io.rtn < 0)
        BY <1>1, ExchangeLeaks DEF TypeOK
      <4>3. handle'[c].lastopr = StatusCode(c, io)
        <5>1. handle'[c] = [handle[c] EXCEPT !.lastopr = StatusCode(c, io),
                                             !.retry_num = StatusRetry(c, io)]
          BY <1>1, <4>1 DEF Finish, TypeOK
        <5>2. handle[c] \in Handle
          BY <1>1 DEF TypeOK
        <5> QED BY <5>1, <5>2 DEF Handle
      <4>4. io.rtn < 0 => Abs(handle'[c].lastopr) = USBK_LO_SCSI_ERROR
        BY <1>a, <4>3 DEF StatusCode, Outcome
      <4>5. fds' = [fds EXCEPT ![c] = io.fds]
        BY <4>1 DEF Finish
      <4> QED BY <1>1, <2>n, <4>2, <4>4, <4>5 DEF TypeOK
    <3>6. CASE Exit(c)
      BY <1>1, <2>n, <3>6 DEF Exit, Gone, TypeOK
    <3> QED BY <2>1, <3>1, <3>2, <3>3, <3>4, <3>5, <3>6 DEF ClientStep
  <2>2. CASE Unplug \/ Replug \/ UNCHANGED vars
    BY <2>2, <2>n DEF Unplug, Replug, vars
  <2> QED BY <1>1, <2>1, <2>2 DEF Next
<1>2. TypeOK /\ [Next]_vars => [\A c \in Clients : Step(c)]_vars
  BY <1>1
<1> HIDE DEF Step
<1>3. Spec => [][\A c \in Clients : Step(c)]_vars
  BY <1>2, TypeCorrect, PTL DEF Spec
<1> QED BY <1>3 DEF EveryLeakIsReported, Step

-----------------------------------------------------------------------------
(* States                                                                  *)

(* A process that begins to wait has sent the command of its call, and the *)
(* call admitted the state in its handle.                                  *)
LEMMA PerformAdmits ==
    ASSUME TypeOK, NEW c \in Clients, pc[c] = "idle", NEW call, NEW key_no, NEW states, NEW m,
           Perform(c, call, key_no, states, m), pc'[c] \in Awaiting
    PROVE  sent'[c].cmd = m /\ handle[c].dev_state \in states
<1>0. pc'[c] # pc[c]
  BY DEF Awaiting
<1>1. Send(c, call, m) /\ handle[c].dev_state \in states
  BY <1>0 DEF Perform, Return
<1>2. PICK io \in send_scsi_command(plugged, fds[c]), k \in AllKeys :
        sent' = [IF io.executed THEN Disturbed(Clients \ {c}) ELSE sent EXCEPT ![c] =
                   [cmd |-> m, verdict |-> dev'.lastop, key |-> k, disturbed |-> FALSE]]
  BY <1>0, <1>1 DEF Send, Answers, GeneratedKeys, AllKeys
<1>3. (IF io.executed THEN Disturbed(Clients \ {c}) ELSE sent) \in [Clients -> Sent]
  BY DisturbedType DEF TypeOK
<1> QED BY <1>1, <1>2, <1>3

(* A call that ends with STATE_ERROR at once did not admit the state in    *)
(* the handle: neither a bad key number nor a failed exchange says so.     *)
LEMMA PerformRefuses ==
    ASSUME TypeOK, NEW c \in Clients, NEW call \in Awaiting, NEW key_no, NEW states, NEW m,
           Perform(c, call, key_no, states, m),
           Abs(handle'[c].lastopr) = USBK_LO_STATE_ERROR, pc'[c] = "idle"
    PROVE  handle[c].dev_state \notin states
<1>1. \A code \in {USBK_LO_INVALID_KEYNO, USBK_LO_SCSI_ERROR} :
        Abs(Outcome(call, code)) # USBK_LO_STATE_ERROR
  BY DEF Outcome, Abs, USBK_LO_INVALID_KEYNO, USBK_LO_SCSI_ERROR, USBK_LO_STATE_ERROR
<1>2. ASSUME NEW code, handle' = [handle EXCEPT ![c].lastopr = Outcome(call, code)]
      PROVE  handle'[c].lastopr = Outcome(call, code)
  BY <1>2 DEF TypeOK, Handle
<1>3. ~Return(c, call, USBK_LO_INVALID_KEYNO)
  BY <1>1, <1>2 DEF Return
<1>4. ASSUME Send(c, call, m) PROVE FALSE
  <2>1. CASE handle' = [handle EXCEPT ![c].lastopr = Outcome(call, USBK_LO_SCSI_ERROR)]
    BY <1>1, <1>2, <2>1
  <2>2. CASE pc' = [pc EXCEPT ![c] = call]
    BY <2>2 DEF TypeOK, Awaiting
  <2> QED BY <1>4, <2>1, <2>2 DEF Send
<1> QED BY <1>3, <1>4 DEF Perform

(* What each structure asks for.                                           *)
LEMMA StructureOps ==
    /\ \A op \in Opcodes : Zeroed(op).op = op
    /\ \A p, k : t_UIP_ACTIVATE(p, k).op = ACTIVATE_KEY
    /\ \A p, q : t_UIP_CHPASS(p, q).op = CHANGE_PASS
    /\ \A p, l : t_UIP_SETDEVICELABEL(p, l).op = SET_DEV_NAME
    /\ \A p, k : t_UIP_SETAUTOACTIVATE(p, k).op = SET_AUTO_ACTIVE
    /\ \A p, k, n, o, key : t_UIP_SETKEY(p, k, n, o, key).op = SET_KEY
  BY DEF Zeroed, t_UIP_ACTIVATE, t_UIP_CHPASS, t_UIP_SETDEVICELABEL,
         t_UIP_SETAUTOACTIVATE, t_UIP_SETKEY

(* The states each function admits are those in which the device obeys.    *)
LEMMA AdmittedStates ==
    /\ Accepting(ACTIVATE_KEY) = {USBK_DS_DEACTIVATE}
    /\ Accepting(DEACTIVATE_KEY) = {USBK_DS_ACTIVATE, USBK_DS_ACTIVATE_WITH_BACKDISK}
    /\ Accepting(CHANGE_PASS) = {USBK_DS_DEACTIVATE, USBK_DS_FABRIC_DEFAULT}
    /\ Accepting(SET_DEV_NAME) = {USBK_DS_DEACTIVATE}
    /\ Accepting(SET_AUTO_ACTIVE) = {USBK_DS_DEACTIVATE}
    /\ Accepting(SET_KEY) = {USBK_DS_DEACTIVATE}
  BY DEF Accepting, ACTIVATE_KEY, DEACTIVATE_KEY, CHANGE_PASS, SET_DEV_NAME,
         SET_AUTO_ACTIVE, SET_KEY, GENERATE_KEY

(* Only a call of its own makes an idle process wait.                      *)
LEMMA OnlyCallSends ==
    ASSUME TypeOK, [Next]_vars, NEW c \in Clients, pc[c] = "idle", pc'[c] \in Awaiting
    PROVE  Call(c)
<1>0. pc'[c] # pc[c] /\ pc'[c] # "none" /\ pc'[c] # "idle"
  BY DEF Awaiting
<1>1. ASSUME NEW x \in Clients, x # c, ClientStep(x) PROVE FALSE
  <2>1. CASE usbk_new(x) \/ usbk_release(x) \/ Exit(x)
    BY <1>0, <1>1, <2>1 DEF usbk_new, usbk_release, Exit, Gone, vars, TypeOK
  <2>2. CASE usbk_refreshusbkinfo(x)
    BY <1>0, <2>2 DEF usbk_refreshusbkinfo
  <2>3. CASE Call(x)
    <3>1. Begins(x)
      BY <2>3, CallBegins
    <3>2. pc'[c] = pc[c]
      BY <1>1, <3>1 DEF Begins, Return, Gone, Send, TypeOK
    <3> QED BY <1>0, <3>2
  <2>4. CASE commandstatus(x)
    BY <1>0, <1>1, <2>4 DEF commandstatus, Finish, TypeOK
  <2> QED BY <1>1, <2>1, <2>2, <2>3, <2>4 DEF ClientStep
<1>2. ASSUME ClientStep(c) PROVE Call(c)
  <2>1. ~usbk_new(c) /\ ~commandstatus(c)
    BY DEF usbk_new, commandstatus, Awaiting
  <2>2. ~usbk_refreshusbkinfo(c) /\ ~usbk_release(c) /\ ~Exit(c)
    BY <1>0 DEF usbk_refreshusbkinfo, usbk_release, Exit, Gone, TypeOK
  <2> QED BY <1>2, <2>1, <2>2 DEF ClientStep
<1>3. ~Unplug /\ ~Replug /\ ~UNCHANGED vars
  BY <1>0 DEF Unplug, Replug, vars
<1> QED BY <1>1, <1>2, <1>3 DEF Next

(* What a call sends is a command the device obeys in the state that the   *)
(* handle shows, or GENERATE_KEY.                                          *)
LEMMA CallAdmits ==
    ASSUME TypeOK, NEW c \in Clients, Call(c), pc'[c] \in Awaiting,
           sent'[c].cmd.op # GENERATE_KEY
    PROVE  handle[c].dev_state \in Accepting(sent'[c].cmd.op)
<1>0. pc[c] = "idle"
  BY CallBegins
<1>1. ASSUME NEW p, NEW k, usbk_activatekey(c, p, k)
      PROVE  handle[c].dev_state \in Accepting(sent'[c].cmd.op)
  BY <1>0, <1>1, PerformAdmits, StructureOps, AdmittedStates DEF usbk_activatekey
<1>2. ASSUME usbk_deactivatekey(c)
      PROVE  handle[c].dev_state \in Accepting(sent'[c].cmd.op)
  <2>1. DEACTIVATE_KEY \in Opcodes
    BY DEF DEACTIVATE_KEY, Opcodes
  <2> QED BY <1>0, <1>2, <2>1, PerformAdmits, StructureOps, AdmittedStates
          DEF usbk_deactivatekey
<1>3. ASSUME NEW old, NEW new, usbk_changepassword(c, old, new)
      PROVE  handle[c].dev_state \in Accepting(sent'[c].cmd.op)
  BY <1>0, <1>3, PerformAdmits, StructureOps, AdmittedStates DEF usbk_changepassword
<1>4. ASSUME NEW p, NEW l, usbk_setdevicelabel(c, p, l)
      PROVE  handle[c].dev_state \in Accepting(sent'[c].cmd.op)
  BY <1>0, <1>4, PerformAdmits, StructureOps, AdmittedStates DEF usbk_setdevicelabel
<1>5. ASSUME NEW p, NEW k, usbk_setautact(c, p, k)
      PROVE  handle[c].dev_state \in Accepting(sent'[c].cmd.op)
  BY <1>0, <1>5, PerformAdmits, StructureOps, AdmittedStates DEF usbk_setautact
<1>6. ASSUME NEW call, NEW p, NEW k, NEW n, NEW s, NEW key, SetKey(c, call, p, k, n, s, key)
      PROVE  handle[c].dev_state \in Accepting(sent'[c].cmd.op)
  <2>1. CASE Gone(c)
    BY <2>1 DEF Gone, TypeOK, Awaiting
  <2>2. ASSUME NEW nm, NEW o, NEW d,
               Perform(c, call, k, {USBK_DS_DEACTIVATE}, t_UIP_SETKEY(p, Byte(k), nm, o, d))
        PROVE  handle[c].dev_state \in Accepting(sent'[c].cmd.op)
    BY <1>0, <2>2, PerformAdmits, StructureOps, AdmittedStates
  <2> QED BY <1>6, <2>1, <2>2 DEF SetKey
<1>7. ASSUME NEW s, usbk_getrandomkey(c, s) PROVE FALSE
  <2>1. ~Return(c, "status", USBK_LO_INVALID_KEYSIZE)
    BY <1>0 DEF Return, Awaiting
  <2>2. Send(c, "status", Zeroed(GENERATE_KEY))
    BY <1>7, <2>1 DEF usbk_getrandomkey
  <2>3. PICK io \in send_scsi_command(plugged, fds[c]), k \in AllKeys :
          sent' = [IF io.executed THEN Disturbed(Clients \ {c}) ELSE sent EXCEPT ![c] =
                     [cmd |-> Zeroed(GENERATE_KEY), verdict |-> dev'.lastop,
                      key |-> k, disturbed |-> FALSE]]
    BY <1>0, <2>2 DEF Send, Answers, GeneratedKeys, AllKeys, Awaiting
  <2>4. (IF io.executed THEN Disturbed(Clients \ {c}) ELSE sent) \in [Clients -> Sent]
    BY DisturbedType DEF TypeOK
  <2>5. sent'[c].cmd = Zeroed(GENERATE_KEY) /\ GENERATE_KEY \in Opcodes
    BY <2>3, <2>4 DEF GENERATE_KEY, Opcodes
  <2> QED BY <2>5, StructureOps
<1> QED BY <1>1, <1>2, <1>3, <1>4, <1>5, <1>6, <1>7
       DEF Call, SomeSetKey, usbk_setkey_keyname, usbk_setkey_hex, usbk_setkey_converted

(* What a call refuses for the state that the handle shows, the device     *)
(* would not obey in that state: one case for each function.               *)
LEMMA CallRefuses ==
    ASSUME TypeOK, NEW c \in Clients, NEW op, Asks(c, op),
           Abs(handle'[c].lastopr) = USBK_LO_STATE_ERROR, pc'[c] = "idle"
    PROVE  handle[c].dev_state \notin Accepting(op)
<1>0. "status" \in Awaiting /\ "wrapped" \in Awaiting
  BY DEF Awaiting
<1>1. CASE op = ACTIVATE_KEY /\ \E p \in Passwords, k \in KeyNumbers : usbk_activatekey(c, p, k)
  BY <1>0, <1>1, PerformRefuses, AdmittedStates DEF usbk_activatekey
<1>2. CASE op = DEACTIVATE_KEY /\ usbk_deactivatekey(c)
  BY <1>0, <1>2, PerformRefuses, AdmittedStates DEF usbk_deactivatekey
<1>3. CASE /\ op = CHANGE_PASS
           /\ \E old, new \in AllPasswords : usbk_changepassword(c, old, new)
  BY <1>0, <1>3, PerformRefuses, AdmittedStates DEF usbk_changepassword
<1>4. CASE op = SET_DEV_NAME /\ \E p \in Passwords, l \in Labels : usbk_setdevicelabel(c, p, l)
  BY <1>0, <1>4, PerformRefuses, AdmittedStates DEF usbk_setdevicelabel
<1>5. CASE /\ op = SET_AUTO_ACTIVE
           /\ \E p \in Passwords, k \in IntKeyNumbers : usbk_setautact(c, p, k)
  BY <1>0, <1>5, PerformRefuses, AdmittedStates DEF usbk_setautact
<1>6. CASE op = SET_KEY /\ SomeSetKey(c)
  <2>1. ~Gone(c)
    BY DEF Gone, TypeOK
  <2>2. ASSUME NEW call \in Awaiting, NEW p, NEW k, NEW n, NEW s, NEW key,
               SetKey(c, call, p, k, n, s, key)
        PROVE  handle[c].dev_state \notin {USBK_DS_DEACTIVATE}
    <3>1. PICK m : Perform(c, call, k, {USBK_DS_DEACTIVATE}, m)
      BY <2>1, <2>2 DEF SetKey
    <3> QED BY <3>1, PerformRefuses
  <2> QED BY <1>0, <1>6, <2>2, AdmittedStates
          DEF SomeSetKey, usbk_setkey_keyname, usbk_setkey_hex, usbk_setkey_converted
<1> QED BY <1>1, <1>2, <1>3, <1>4, <1>5, <1>6 DEF Asks

(* A process whose copy of the device is fresh sends nothing the device    *)
(* refuses for its state, and none of the six functions with a switch over *)
(* dev_state refuses it anything but what the device would refuse, for all *)
(* passwords, key numbers, names and keys: the switch of each function     *)
(* admits exactly the device's states.                                     *)
THEOREM StateErrorsAreTrue == Spec => StateErrorIsTrue
<1>1. ASSUME TypeOK, FreshMeansCurrent, [Next]_vars, NEW c \in Clients, fresh[c]
      PROVE  StateErrorStep(c)
  <2>1. pc[c] = "idle" /\ handle[c].dev_state = dev.state
    BY <1>1 DEF FreshMeansCurrent, Mirrors, DevInfo
  <2>2. ASSUME pc'[c] \in Awaiting, sent'[c].cmd.op # GENERATE_KEY
        PROVE  dev.state \in Accepting(sent'[c].cmd.op)
    BY <1>1, <2>1, <2>2, OnlyCallSends, CallAdmits
  <2>3. ASSUME NEW op \in Opcodes, Asks(c, op), pc'[c] = "idle",
               Abs(handle'[c].lastopr) = USBK_LO_STATE_ERROR
        PROVE  dev.state \notin Accepting(op)
    BY <1>1, <2>1, <2>3, CallRefuses
  <2> QED BY <2>2, <2>3 DEF StateErrorStep
<1>2. TypeOK /\ FreshMeansCurrent /\ [Next]_vars => [\A c \in Clients : StateErrorStep(c)]_vars
  BY <1>1 DEF StateErrorStep
<1> QED BY <1>2, TypeCorrect, FreshCurrent, PTL DEF Spec, StateErrorIsTrue

-----------------------------------------------------------------------------
(* Names                                                                   *)

(* The device that sets a key with the name it has keeps all names, and a  *)
(* refusal, a wrong password or an erasure does not touch them.            *)
LEMMA SameNameKept ==
    ASSUME NEW d \in Device, NEW m \in Command, m.op = SET_KEY, m.keyno \in Slots,
           m.keyname = d.keynames[m.keyno]
    PROVE  \A e \in Executed(d, m) : e.keynames = d.keynames
<1> USE DEF ACTIVATE_KEY, DEACTIVATE_KEY, CHANGE_PASS, SET_DEV_NAME, SET_AUTO_ACTIVE,
        SET_KEY, GENERATE_KEY, OPRS_PASS, OPRS_FAILED_PASS, OPRS_FABRIC_RESET
<1>1. ASSUME NEW v, NEW o \in Outcomes(d, m, v) PROVE o.keynames = d.keynames
  <2>1. CASE v = OPRS_PASS
    <3> DEFINE r == Restored(d, m)
               After == [r EXCEPT !.keynames[m.keyno] = m.keyname,
                                  !.keys[m.keyno] = IF m.options = SETKEY_NAME_AND_KEY
                                                    THEN m.key ELSE @]
    <3>1. r \in Device /\ r.keynames = d.keynames
      BY RetryAssumption DEF Restored, Device
    <3>2. Outcomes(d, m, v) = Obeyed(r, m)
      BY <2>1 DEF Outcomes
    <3> HIDE DEF r
    <3>3. Obeyed(r, m) = {After}
      <4>1. m.op = 8
        OBVIOUS
      <4> QED BY <4>1 DEF Obeyed
    <3>4. After.keynames = [r.keynames EXCEPT ![m.keyno] = m.keyname]
      BY <3>1 DEF Device
    <3>5. r.keynames \in [Slots -> AllNames]
      BY <3>1 DEF Device
    <3>6. [r.keynames EXCEPT ![m.keyno] = m.keyname] = r.keynames
      BY <3>1, <3>5
    <3> HIDE DEF After
    <3> QED BY <3>1, <3>2, <3>3, <3>4, <3>6
  <2>2. CASE v = OPRS_FAILED_PASS
    <3>1. o = [d EXCEPT !.retry = @ - 1]
      <4>1. Outcomes(d, m, v) = {[d EXCEPT !.retry = @ - 1]}
        BY <2>2 DEF Outcomes
      <4> QED BY <1>1, <4>1
    <3> QED BY <3>1 DEF Device
  <2>3. CASE v = OPRS_FABRIC_RESET
    <3>1. o = Erased(d)
      BY <1>1, <2>3 DEF Outcomes
    <3> QED BY <3>1 DEF Erased, Device
  <2>4. CASE v \notin {OPRS_PASS, OPRS_FAILED_PASS, OPRS_FABRIC_RESET}
    BY <1>1, <2>4 DEF Outcomes
  <2> QED BY <2>1, <2>2, <2>3, <2>4
<1>2. ASSUME NEW e \in Executed(d, m) PROVE e.keynames = d.keynames
  <2>1. PICK v \in Verdicts(d, m) : e \in {[q EXCEPT !.lastop = v] : q \in Outcomes(d, m, v)}
    BY DEF Executed
  <2>2. PICK q \in Outcomes(d, m, v) : e = [q EXCEPT !.lastop = v]
    BY <2>1
  <2>3. q \in Device /\ q.keynames = d.keynames
    BY <1>1, OutcomesType
  <2> QED BY <2>2, <2>3 DEF Device
<1> QED BY <1>2

(* The fields of the structure usbk_setkey_keyname sends.                  *)
LEMMA SetKeyFields ==
    ASSUME NEW p, NEW k, NEW n, NEW o, NEW key
    PROVE  /\ t_UIP_SETKEY(p, k, n, o, key).op = SET_KEY
           /\ t_UIP_SETKEY(p, k, n, o, key).keyno = k
           /\ t_UIP_SETKEY(p, k, n, o, key).keyname = n
  BY DEF t_UIP_SETKEY, Zeroed

(* A process whose copy is fresh and that sets a key without naming it     *)
(* sends the name the device has, so that all key names stay as they are,  *)
(* for any number of slots up to 255.                                      *)
THEOREM NamesAlwaysKept == Spec => NameKept
<1>1. ASSUME TypeOK, FreshMeansCurrent, NEW c \in Clients, NEW call \in Awaiting,
             NEW p \in Passwords, NEW k \in KeyNumbers, NEW key \in UserKeys, fresh[c],
             SetKey(c, call, p, k, Null, KEYSIZE_256BIT, key)
      PROVE  dev'.keynames = dev.keynames
  <2>1. handle[c].key_names = dev.keynames /\ dev \in Device
    BY <1>1 DEF FreshMeansCurrent, Mirrors, DevInfo, TypeOK
  <2>2. k \in 0 .. 255 /\ k \in Int
    BY KeyNumbersAssumption
  <2> DEFINE m == t_UIP_SETKEY(p, Byte(k), handle[c].key_names[k],
                     SETKEY_NAME_AND_KEY, key)
  <2>3. CASE Gone(c)
    BY <2>3 DEF Gone
  <2>4. CASE /\ ~(k < 1 /\ handle[c].dev_state = USBK_DS_DEACTIVATE)
             /\ Perform(c, call, k, {USBK_DS_DEACTIVATE}, m)
    <3>1. ASSUME NEW code, Return(c, call, code) PROVE dev'.keynames = dev.keynames
      BY <3>1 DEF Return
    <3>2. ASSUME k <= MultiKeyCap, handle[c].dev_state \in {USBK_DS_DEACTIVATE},
                 Send(c, call, m)
          PROVE  dev'.keynames = dev.keynames
      <4>1. k \in Slots /\ Byte(k) = k
        BY <2>2, <2>4, <3>2, CapAssumption DEF Slots, Byte
      <4>2. m.op = SET_KEY /\ m.keyno = k /\ m.keyname = dev.keynames[k]
        BY <2>1, <4>1, SetKeyFields
      <4>3. m \in Command
        <5>1. handle[c].key_names[k] \in AllNames /\ key \in AllKeys /\ p \in AllPasswords
          BY <2>1, <4>1 DEF Device, AllKeys, AllPasswords
        <5> QED BY <2>2, <4>1, <5>1, SetKeyCommand
      <4> HIDE DEF m
      <4>4. dev' \in Executed(dev, m) \/ dev' = dev
        BY <3>2 DEF Send
      <4> QED BY <2>1, <4>1, <4>2, <4>3, <4>4, SameNameKept
    <3> HIDE DEF m
    <3> QED BY <2>4, <3>1, <3>2 DEF Perform
  <2>5. KEYSIZE_256BIT # KEYSIZE_NULL
    BY DEF KEYSIZE_256BIT, KEYSIZE_NULL
  <2> QED BY <1>1, <2>3, <2>4, <2>5 DEF SetKey
<1> DEFINE Step ==
       \A c \in Clients, p \in Passwords, k \in KeyNumbers :
         /\ fresh[c]
         /\ \E key \in UserKeys : \/ usbk_setkey_hex(c, p, k, KEYSIZE_256BIT, key)
                                  \/ usbk_setkey_converted(c, p, k, KEYSIZE_256BIT, key)
         => dev'.keynames = dev.keynames
<1>2. ASSUME TypeOK, FreshMeansCurrent PROVE Step
  <2>1. "status" \in Awaiting /\ "wrapped" \in Awaiting
    BY DEF Awaiting
  <2> QED BY <1>1, <1>2, <2>1
          DEF usbk_setkey_hex, usbk_setkey_keyname, usbk_setkey_converted
<1>3. TypeOK /\ FreshMeansCurrent /\ [Next]_vars => [Step]_vars
  BY <1>2
<1> HIDE DEF Step
<1>4. Spec => [][Step]_vars
  BY <1>3, TypeCorrect, FreshCurrent, PTL DEF Spec
<1> QED BY <1>4 DEF NameKept, Step

=============================================================================
