--------------------------- MODULE UsbkCliProofs ----------------------------
(***************************************************************************)
(* The program usbk keeps to the library's interface, so that what is      *)
(* proved of the library holds of the program, in any number of terminals; *)
(* and when it prints `Pass.', what the options asked for is done.         *)
(***************************************************************************)
EXTENDS UsbkCli, UsbkOptionsProofs, LibUsbkCallProofs, LibUsbkPromiseProofs,
        FiniteSetTheorems

(* Some block is the first of those that are left.                         *)
LEMMA FirstIsLeft ==
    ASSUME NEW blocks \in SUBSET Range(Blocks), blocks # {}
    PROVE  FirstOf(blocks) \in blocks
<1> DEFINE T == {i \in DOMAIN Blocks : Blocks[i] \in blocks}
<1>1. DOMAIN Blocks \subseteq Nat
  BY DEF Blocks
<1>2. T \subseteq Nat
  BY <1>1
<1>3. T # {}
  BY DEF Range
<1>4. PICK i \in T : \A j \in T : ~(<<j, i>> \in OpToRel(<, Nat))
  BY <1>2, <1>3, NatLessThanWellFounded, WFMin
<1>5. \A j \in T : ~(j < i)
  BY <1>2, <1>4 DEF OpToRel
<1>6. /\ i \in DOMAIN Blocks /\ Blocks[i] \in blocks
      /\ \A j \in DOMAIN Blocks : j < i => Blocks[j] \notin blocks
  BY <1>4, <1>5
<1> HIDE DEF T
<1> QED BY <1>6 DEF FirstOf

(* So main is at one of them, or done.                                     *)
LEMMA BlockIsLeft ==
    ASSUME NEW c \in Clients, run[c].todo \in SUBSET Range(Blocks)
    PROVE  /\ run[c].todo # {} => Block(c) \in run[c].todo
           /\ Block(c) # "release" => Block(c) \in run[c].todo
  BY FirstIsLeft DEF Block

-----------------------------------------------------------------------------
(* What one process does leaves the others where they are                  *)

(* The parts of another process that the program in terminal x looks at.   *)
Undone(x) ==
    /\ pc'[x] = pc[x] /\ fds'[x] = fds[x] /\ random_key'[x] = random_key[x]
    /\ sent'[x].cmd = sent[x].cmd

(* A command of c is sent: another process may have been disturbed.        *)
LEMMA SendKeepsOthers ==
    ASSUME TypeOK, NEW c \in Clients, NEW x \in Clients, x # c, NEW call, NEW m,
           Send(c, call, m)
    PROVE  Undone(x)
<1> DEFINE Others(io) == IF io.executed THEN Disturbed(Clients \ {c}) ELSE sent
<1>1. PICK io \in send_scsi_command(plugged, fds[c]) :
        /\ fds' = [fds EXCEPT ![c] = io.fds]
        /\ IF io.rtn < 0
           THEN /\ sent' = Others(io)
                /\ pc' = pc
           ELSE /\ \E k \in Answers(m, dev'.lastop) :
                     sent' = [Others(io) EXCEPT ![c] =
                                [cmd |-> m, verdict |-> dev'.lastop,
                                 key |-> k, disturbed |-> FALSE]]
                /\ pc' = [pc EXCEPT ![c] = call]
        /\ UNCHANGED <<plugged, random_key>>
  BY DEF Send
<1>2. Others(io) \in [Clients -> Sent]
  BY DisturbedType DEF TypeOK
<1>3. Others(io)[x].cmd = sent[x].cmd
  BY DisturbedCarries
<1> HIDE DEF Others
<1>4. sent'[x].cmd = sent[x].cmd
  BY <1>1, <1>2, <1>3
<1> QED BY <1>1, <1>4 DEF Undone, TypeOK

(* Whatever step a process makes.                                          *)
LEMMA OthersKeep ==
    ASSUME TypeOK, NEW c \in Clients, NEW x \in Clients, x # c, ClientStep(c)
    PROVE  Undone(x)
<1>1. CASE usbk_new(c)
  BY <1>1 DEF usbk_new, Undone, vars, TypeOK
<1>2. CASE usbk_refreshusbkinfo(c)
  BY <1>2 DEF usbk_refreshusbkinfo, Undone, TypeOK
<1>3. CASE usbk_release(c)
  BY <1>3 DEF usbk_release, Undone, TypeOK
<1>4. CASE commandstatus(c)
  BY <1>4 DEF commandstatus, Finish, Undone, TypeOK
<1>5. CASE Gone(c)
  BY <1>5 DEF Gone, Undone, TypeOK
<1>6. CASE Call(c)
  <2>1. ASSUME NEW call, NEW code, Return(c, call, code) PROVE Undone(x)
    BY <2>1 DEF Return, Undone
  <2> QED BY <1>5, <1>6, <2>1, CallBegins, SendKeepsOthers DEF Begins
<1> QED BY <1>1, <1>2, <1>3, <1>4, <1>5, <1>6 DEF ClientStep, Exit

-----------------------------------------------------------------------------
(* What main hands to the library is what the library takes                *)

(* A command that serves a block, with the options of the run.             *)
Serves(o, block, m) ==
    CASE block = "activate"   -> m.op = ACTIVATE_KEY /\ m.keyno = Byte(o.key)
      [] block = "deactivate" -> m.op = DEACTIVATE_KEY
      [] block = "password"   -> m.op = CHANGE_PASS /\ m.new_password = o.new_password
      [] block = "label"      -> m.op = SET_DEV_NAME /\ m.devlabel = o.dev_label
      [] block = "key"        -> /\ m.op = SET_KEY /\ m.keyno = Byte(o.key)
                                 /\ o.key_size \in {128, 192, 256} =>
                                      m.options = SETKEY_NAME_AND_KEY /\ m.key = o.string_key
      [] block = "random"     -> m.op = GENERATE_KEY
      [] block = "setrandom"  -> m.op = SET_KEY
      [] block = "name"       -> /\ m.op = SET_KEY /\ m.keyno = Byte(o.key)
                                 /\ m.keyname = o.aes_name
      [] block = "enable"     -> m.op = SET_AUTO_ACTIVE /\ m.keyno = Byte(o.key)
      [] block = "disable"    -> m.op = SET_AUTO_ACTIVE /\ m.keyno = 0
      [] OTHER                -> FALSE

(* When such a command took effect, what the block was for is done.        *)
LEMMA ServesDone ==
    ASSUME NEW o, NEW block, NEW m, NEW d, Serves(o, block, m), Applied(d, m)
    PROVE  Served(o, block, d)
<1> USE DEF ACTIVATE_KEY, DEACTIVATE_KEY, CHANGE_PASS, SET_DEV_NAME, SET_AUTO_ACTIVE,
        SET_KEY, GENERATE_KEY
<1>1. CASE block = "activate"
  BY <1>1 DEF Serves, Applied, Served
<1>2. CASE block = "deactivate"
  BY <1>2 DEF Serves, Applied, Served
<1>3. CASE block = "password"
  BY <1>3 DEF Serves, Applied, Served
<1>4. CASE block = "label"
  BY <1>4 DEF Serves, Applied, Served
<1>5. CASE block = "key"
  BY <1>5 DEF Serves, Applied, Served
<1>6. CASE block = "name"
  BY <1>6 DEF Serves, Applied, Served
<1>7. CASE block = "enable"
  BY <1>7 DEF Serves, Applied, Served
<1>8. CASE block = "disable"
  BY <1>8 DEF Serves, Applied, Served
<1>9. CASE block \notin {"activate", "deactivate", "password", "label", "key", "name",
                        "enable", "disable"}
  BY <1>9 DEF Served
<1> QED BY <1>1, <1>2, <1>3, <1>4, <1>5, <1>6, <1>7, <1>8, <1>9

(* The command a call waits for is the one it was given.                   *)
LEMMA SendSets ==
    ASSUME TypeOK, NEW c \in Clients, pc[c] = "idle", NEW call, NEW m, Send(c, call, m),
           pc'[c] \in Awaiting
    PROVE  sent'[c].cmd = m
<1> DEFINE Others(io) == IF io.executed THEN Disturbed(Clients \ {c}) ELSE sent
<1>1. PICK io \in send_scsi_command(plugged, fds[c]) :
        IF io.rtn < 0
        THEN pc' = pc
        ELSE \E k \in Answers(m, dev'.lastop) :
               sent' = [Others(io) EXCEPT ![c] =
                          [cmd |-> m, verdict |-> dev'.lastop,
                           key |-> k, disturbed |-> FALSE]]
  BY DEF Send
<1>2. Others(io) \in [Clients -> Sent]
  BY DisturbedType DEF TypeOK
<1> HIDE DEF Others
<1>3. ~(io.rtn < 0)
  BY <1>1 DEF Awaiting
<1> QED BY <1>1, <1>2, <1>3

(* So it does when the call checked its arguments before.                  *)
LEMMA PerformSets ==
    ASSUME TypeOK, NEW c \in Clients, pc[c] = "idle", NEW call, NEW number, NEW states,
           NEW m, Perform(c, call, number, states, m), pc'[c] \in Awaiting
    PROVE  sent'[c].cmd = m
<1>1. ASSUME NEW code PROVE ~Return(c, call, code)
  BY DEF Return, Awaiting
<1> QED BY <1>1, SendSets DEF Perform

(* SetKey sends the name and the key it was given, when it was given any.  *)
LEMMA SetKeySets ==
    ASSUME TypeOK, NEW c \in Clients, NEW call, NEW pass, NEW number, NEW kname, NEW size,
           NEW kdata, SetKey(c, call, pass, number, kname, size, kdata), pc'[c] \in Awaiting
    PROVE  /\ sent'[c].cmd.op = SET_KEY
           /\ sent'[c].cmd.keyno = Byte(number)
           /\ kname # Null => sent'[c].cmd.keyname = kname
           /\ size # KEYSIZE_NULL => /\ sent'[c].cmd.options = SETKEY_NAME_AND_KEY
                                     /\ sent'[c].cmd.key = kdata
<1> DEFINE m == t_UIP_SETKEY(pass, Byte(number),
                  IF kname = Null THEN handle[c].key_names[number] ELSE kname,
                  IF size = KEYSIZE_NULL THEN SETKEY_NAMEONLY ELSE SETKEY_NAME_AND_KEY,
                  IF size = KEYSIZE_NULL THEN NoKey ELSE kdata)
<1>1. ~Gone(c)
  BY DEF Gone, TypeOK, Awaiting
<1>2. Perform(c, call, number, {USBK_DS_DEACTIVATE}, m) /\ pc[c] = "idle"
  BY <1>1 DEF SetKey
<1>3. /\ m.op = SET_KEY /\ m.keyno = Byte(number)
      /\ kname # Null => m.keyname = kname
      /\ size # KEYSIZE_NULL => m.options = SETKEY_NAME_AND_KEY /\ m.key = kdata
  BY DEF t_UIP_SETKEY, Zeroed
<1> HIDE DEF m
<1>4. sent'[c].cmd = m
  BY <1>2, PerformSets
<1> QED BY <1>3, <1>4

-----------------------------------------------------------------------------
(* Where main is, and what it waits for                                    *)

(* What keeps a terminal within the interface: there is a handle exactly   *)
(* while main works, what is left to do was asked for on the line, a key   *)
(* that is about to be set came from the device, and a command under way   *)
(* serves the block main is in.                                            *)
Line(c) ==
    /\ run[c] \in Run
    /\ run[c].at = "working" <=> pc[c] # "none"
    /\ run[c].at \in {"shell", "opening"} => fds[c] = 0
    /\ run[c].at \in {"opening", "working"} => run[c].opts \in ParsedLines
    /\ run[c].at # "working" => run[c].todo = {}
    /\ \A b \in run[c].todo : b = "setrandom" \/ Entered(run[c].opts, b)
    /\ "setrandom" \in run[c].todo =>
         /\ pc[c] # "none"
         /\ Entered(run[c].opts, "random")
         /\ random_key[c] # JunkKey
    /\ pc[c] \in Awaiting => /\ run[c].todo # {}
                             /\ Serves(run[c].opts, Block(c), sent[c].cmd)

CliInv == CliTypeOK /\ \A c \in Clients : Line(c)

(* Entered, block by block.                                                *)
LEMMA EnteredFlags ==
    ASSUME NEW o
    PROVE  /\ Entered(o, "activate") => "p" \in o.flags
           /\ Entered(o, "password") => "c" \in o.flags
           /\ Entered(o, "label")    => {"p", "n"} \subseteq o.flags
           /\ Entered(o, "key")      => {"p", "x"} \subseteq o.flags
           /\ Entered(o, "random")   => "p" \in o.flags
           /\ Entered(o, "name")     => {"p", "m"} \subseteq o.flags
           /\ Entered(o, "enable")   => "p" \in o.flags
           /\ Entered(o, "disable")  => "p" \in o.flags
  BY DEF Entered

(* The block main enters was asked for, or sets the key it has generated.  *)
LEMMA EntersLeft ==
    ASSUME NEW c \in Clients, Line(c), NEW b, b # "release", Enters(c, b)
    PROVE  /\ pc[c] = "idle" /\ Block(c) = b /\ b \in run[c].todo
           /\ run[c].opts \in ParsedLines
           /\ b # "setrandom" => Entered(run[c].opts, b)
           /\ b = "setrandom" => Entered(run[c].opts, "random") /\ random_key[c] # JunkKey
<1>1. run[c].todo \in SUBSET Range(Blocks)
  BY DEF Line, Run
<1>2. /\ run[c].at = "working" /\ pc[c] = "idle" /\ Block(c) = b
  BY DEF Enters
<1>3. b \in run[c].todo
  BY <1>1, <1>2, BlockIsLeft
<1> QED BY <1>2, <1>3 DEF Line

(* What is typed is among the values the library is called with, and so is *)
(* what main makes of it.                                                  *)
LEMMA LinesTaken ==
    ASSUME NEW o \in ParsedLines
    PROVE  /\ o.parola \in Passwords \cup {Unset}
           /\ "p" \in o.flags => o.parola \in Passwords
           /\ "c" \in o.flags => o.new_password \in AllPasswords
           /\ "n" \in o.flags => o.dev_label \in Labels
           /\ "m" \in o.flags => o.aes_name \in KeyNames
           /\ "x" \in o.flags => o.string_key \in UserKeys \cup {JunkKey}
           /\ Byte(o.key) \in KeyNumbers \cap IntKeyNumbers
           /\ parse_keysize(o.key_size) \in KeySizes
           /\ MainsCounted(o)
<1>1. PICK line \in CommandLines : o = _parse_options(line)
  BY DEF ParsedLines
<1>2. line \in Seq(Range(line))
  BY LinesAssumption
<1>3. Taken(o, line) /\ MainsCounted(o)
  BY <1>1, <1>2, LineTaken
<1>4. ASSUME NEW letter, NEW v \in Values(line, letter)
      PROVE  \E option \in Range(line) : option.letter = letter /\ option.arg = v
  <2>1. PICK i \in 1 .. Len(line) : line[i].letter = letter /\ line[i].arg = v
    BY <1>4 DEF Values
  <2>2. line[i] \in Range(line)
    BY <1>2, <2>1 DEF Range
  <2> QED BY <2>1, <2>2
<1>5. /\ Values(line, "p") \subseteq Passwords
      /\ Values(line, "c") \subseteq AllPasswords
      /\ Values(line, "n") \subseteq Labels
      /\ Values(line, "m") \subseteq KeyNames
      /\ Values(line, "x") \subseteq UserKeys \cup {JunkKey}
      /\ \A k \in Values(line, "k") : Byte(k) \in KeyNumbers \cap IntKeyNumbers
      /\ \A size \in Values(line, "F") : parse_keysize(size) \in KeySizes
  BY <1>4, LinesAssumption
<1>6. Byte(1) \in KeyNumbers \cap IntKeyNumbers
  BY PresetsAssumption DEF Byte
<1>7. parse_keysize(256) \in KeySizes
  BY PresetsAssumption DEF parse_keysize
<1> QED BY <1>3, <1>5, <1>6, <1>7 DEF Taken

(* The arguments main passes are among those of the interface.             *)
LEMMA ArgumentsTaken ==
    ASSUME NEW c \in Clients, run[c].opts \in ParsedLines
    PROVE  /\ "p" \in run[c].opts.flags => parola(c) \in Passwords
           /\ old_password(c) \in AllPasswords
           /\ "c" \in run[c].opts.flags => run[c].opts.new_password \in AllPasswords
           /\ "n" \in run[c].opts.flags => run[c].opts.dev_label \in Labels
           /\ "m" \in run[c].opts.flags => run[c].opts.aes_name \in KeyNames
           /\ "x" \in run[c].opts.flags => run[c].opts.string_key \in UserKeys \cup {JunkKey}
           /\ key_no(c) \in KeyNumbers /\ key_no(c) \in IntKeyNumbers
           /\ key_size(c) \in KeySizes
  BY LinesTaken DEF parola, old_password, key_no, key_size, AllPasswords

(* A name is set with no size, so that the key that goes with it is none.  *)
LEMMA NameNeedsNoKey ==
    ASSUME NEW c \in Clients, NEW p, NEW k, NEW n, NEW kdata
    PROVE  usbk_setkey_keyname(c, p, k, n, KEYSIZE_NULL, NoKey)
             => usbk_setkey_keyname(c, p, k, n, KEYSIZE_NULL, kdata)
  BY DEF usbk_setkey_keyname, SetKey

(* Every call main makes is one of the interface.                          *)
LEMMA CallsAreCalls ==
    ASSUME NEW c \in Clients, Line(c), Calls(c)
    PROVE  Call(c)
<1> USE DEF Call, SomeSetKey
<1>1. CASE activate(c)
  BY <1>1, EntersLeft, EnteredFlags, ArgumentsTaken DEF activate
<1>2. CASE deactivate(c)
  BY <1>2 DEF deactivate
<1>3. CASE password(c)
  BY <1>3, EntersLeft, EnteredFlags, ArgumentsTaken DEF password
<1>4. CASE label(c)
  BY <1>4, EntersLeft, EnteredFlags, ArgumentsTaken DEF label
<1>5. CASE key(c)
  BY <1>5, EntersLeft, EnteredFlags, ArgumentsTaken DEF key
<1>6. CASE random(c)
  BY <1>6, EntersLeft, EnteredFlags, ArgumentsTaken DEF random
<1>7. CASE setrandom(c)
  BY <1>7, EntersLeft, EnteredFlags, ArgumentsTaken DEF setrandom
<1>8. CASE name(c)
  <2>1. PICK k \in UserKeys : TRUE
    BY ArgumentsAssumption
  <2>2. usbk_setkey_keyname(c, parola(c), key_no(c), run[c].opts.aes_name, KEYSIZE_NULL, k)
    BY <1>8, NameNeedsNoKey DEF name
  <2>3. parola(c) \in Passwords /\ run[c].opts.aes_name \in KeyNames
        /\ key_no(c) \in IntKeyNumbers
    BY <1>8, EntersLeft, EnteredFlags, ArgumentsTaken DEF name
  <2> QED BY <2>1, <2>2, <2>3, ArgumentsAssumption
<1>9. CASE enable(c)
  BY <1>9, EntersLeft, EnteredFlags, ArgumentsTaken DEF enable
<1>10. CASE disable(c)
  BY <1>10, EntersLeft, EnteredFlags, ArgumentsTaken, ArgumentsAssumption DEF disable
<1> QED BY <1>1, <1>2, <1>3, <1>4, <1>5, <1>6, <1>7, <1>8, <1>9, <1>10 DEF Calls

(* A call that is now waiting has sent a command that serves its block.    *)
LEMMA CallsServe ==
    ASSUME TypeOK, NEW c \in Clients, Line(c), Calls(c), pc'[c] \in Awaiting
    PROVE  Serves(run[c].opts, Block(c), sent'[c].cmd)
<1> DEFINE o == run[c].opts
<1>0. \A n \in Int : Byte(n) \in 0 .. 255 /\ Byte(Byte(n)) = Byte(n)
  BY DEF Byte
<1>1. ASSUME NEW b, b # "release", Enters(c, b)
      PROVE  Block(c) = b /\ pc[c] = "idle" /\ o \in ParsedLines
  BY <1>1, EntersLeft
<1>2. ASSUME o \in ParsedLines
      PROVE  Byte(key_no(c)) = Byte(o.key) /\ key_no(c) = Byte(o.key)
  <2>1. key_no(c) \in KeyNumbers
    BY <1>2, ArgumentsTaken
  <2>2. key_no(c) \in 0 .. 255
    BY <2>1, KeyNumbersAssumption
  <2>3. \A n \in 0 .. 255 : n % 256 = n
    OBVIOUS
  <2> QED BY <2>2, <2>3 DEF Byte, key_no
<1>3. CASE activate(c)
  <2>1. Perform(c, "status", key_no(c), {USBK_DS_DEACTIVATE},
                     t_UIP_ACTIVATE(parola(c), key_no(c)))
    BY <1>3 DEF activate, usbk_activatekey
  <2>2. Block(c) = "activate" /\ pc[c] = "idle" /\ o \in ParsedLines
    BY <1>1, <1>3 DEF activate
  <2>3. sent'[c].cmd = t_UIP_ACTIVATE(parola(c), key_no(c))
    BY <2>1, <2>2, PerformSets
  <2> QED BY <1>2, <2>2, <2>3 DEF Serves, t_UIP_ACTIVATE, Zeroed
<1>4. CASE deactivate(c)
  BY <1>1, <1>4, PerformSets DEF deactivate, usbk_deactivatekey, Serves, Zeroed
<1>5. CASE password(c)
  <2>1. Perform(c, "status", 0, {USBK_DS_DEACTIVATE, USBK_DS_FABRIC_DEFAULT},
                     t_UIP_CHPASS(old_password(c), o.new_password))
    BY <1>5 DEF password, usbk_changepassword
  <2>2. Block(c) = "password" /\ pc[c] = "idle" /\ o \in ParsedLines
    BY <1>1, <1>5 DEF password
  <2>3. sent'[c].cmd = t_UIP_CHPASS(old_password(c), o.new_password)
    BY <2>1, <2>2, PerformSets
  <2> QED BY <1>2, <2>2, <2>3 DEF Serves, t_UIP_CHPASS, Zeroed
<1>6. CASE label(c)
  <2>1. Perform(c, "status", 0, {USBK_DS_DEACTIVATE},
                     t_UIP_SETDEVICELABEL(parola(c), o.dev_label))
    BY <1>6 DEF label, usbk_setdevicelabel
  <2>2. Block(c) = "label" /\ pc[c] = "idle" /\ o \in ParsedLines
    BY <1>1, <1>6 DEF label
  <2>3. sent'[c].cmd = t_UIP_SETDEVICELABEL(parola(c), o.dev_label)
    BY <2>1, <2>2, PerformSets
  <2> QED BY <1>2, <2>2, <2>3 DEF Serves, t_UIP_SETDEVICELABEL, Zeroed
<1>7. CASE key(c)
  <2>1. SetKey(c, "wrapped", parola(c), key_no(c), Null, key_size(c), o.string_key)
    BY <1>7 DEF key, usbk_setkey_converted
  <2>2. o.key_size \in {128, 192, 256} => key_size(c) # KEYSIZE_NULL
    BY DEF key_size, parse_keysize, KEYSIZE_128BIT, KEYSIZE_192BIT, KEYSIZE_256BIT, KEYSIZE_NULL
  <2>3. Block(c) = "key" /\ o \in ParsedLines
    BY <1>1, <1>7 DEF key
  <2> QED BY <1>2, <2>1, <2>2, <2>3, SetKeySets DEF Serves
<1>8. CASE random(c)
  <2>1. ASSUME NEW code PROVE ~Return(c, "status", code)
    BY <1>1, <1>8 DEF random, Return, Awaiting
  <2>2. Send(c, "status", Zeroed(GENERATE_KEY))
    BY <1>8, <2>1 DEF random, usbk_getrandomkey
  <2> QED BY <1>1, <1>8, <2>2, SendSets DEF random, Serves, Zeroed
<1>9. CASE setrandom(c)
  <2>1. SetKey(c, "status", parola(c), key_no(c), Null, key_size(c), random_key[c])
    BY <1>9 DEF setrandom, usbk_setkey_hex, usbk_setkey_keyname
  <2> QED BY <1>1, <1>9, <2>1, SetKeySets DEF setrandom, Serves
<1>10. CASE name(c)
  <2>1. SetKey(c, "status", parola(c), key_no(c), o.aes_name, KEYSIZE_NULL, NoKey)
    BY <1>10 DEF name, usbk_setkey_keyname
  <2>2. Block(c) = "name" /\ o \in ParsedLines
    BY <1>1, <1>10 DEF name
  <2>3. o.aes_name # Null
    BY <1>10, EntersLeft, EnteredFlags, ArgumentsTaken, DistinctAssumption DEF name
  <2> QED BY <1>2, <2>1, <2>2, <2>3, SetKeySets DEF Serves
<1>11. CASE enable(c)
  <2>1. Perform(c, "status", key_no(c), {USBK_DS_DEACTIVATE},
                     t_UIP_SETAUTOACTIVATE(parola(c), Byte(key_no(c))))
    BY <1>11 DEF enable, usbk_setautact
  <2>2. Block(c) = "enable" /\ pc[c] = "idle" /\ o \in ParsedLines
    BY <1>1, <1>11 DEF enable
  <2>3. sent'[c].cmd = t_UIP_SETAUTOACTIVATE(parola(c), Byte(key_no(c)))
    BY <2>1, <2>2, PerformSets
  <2> QED BY <1>2, <2>2, <2>3 DEF Serves, t_UIP_SETAUTOACTIVATE, Zeroed
<1>12. CASE disable(c)
  <2>1. Perform(c, "status", 0, {USBK_DS_DEACTIVATE},
                     t_UIP_SETAUTOACTIVATE(parola(c), Byte(0)))
    BY <1>12 DEF disable, usbk_setautact
  <2>2. Block(c) = "disable" /\ pc[c] = "idle" /\ o \in ParsedLines
    BY <1>1, <1>12 DEF disable
  <2>3. sent'[c].cmd = t_UIP_SETAUTOACTIVATE(parola(c), Byte(0))
    BY <2>1, <2>2, PerformSets
  <2> QED BY <1>2, <2>2, <2>3 DEF Serves, t_UIP_SETAUTOACTIVATE, Byte, Zeroed
<1> QED BY <1>3, <1>4, <1>5, <1>6, <1>7, <1>8, <1>9, <1>10, <1>11, <1>12 DEF Calls

(* Every step of the program and its surroundings is one of the library.   *)
LEMMA StepsFollow == CliInv /\ [CliNext]_allVars => [Next]_vars
<1> SUFFICES ASSUME CliInv, [CliNext]_allVars PROVE [Next]_vars
  OBVIOUS
<1>1. ASSUME NEW c \in Clients, Start(c) \/ Main(c) \/ Killed(c)
      PROVE  ClientStep(c) \/ UNCHANGED vars
  <2>1. Line(c)
    BY DEF CliInv
  <2>2. Calls(c) => Call(c)
    BY <2>1, CallsAreCalls
  <2>3. Start(c) => UNCHANGED vars
    BY DEF Start
  <2>4. Leave(c) \/ Killed(c) => Exit(c) \/ UNCHANGED vars
    BY DEF Leave, Killed, Ends
  <2>5. /\ Open(c) => usbk_new(c)
        /\ Status(c) => commandstatus(c)
        /\ ShowInfo(c) => usbk_refreshusbkinfo(c)
        /\ Release(c) => usbk_release(c)
    BY DEF Open, Status, ShowInfo, Release
  <2> QED BY <1>1, <2>2, <2>3, <2>4, <2>5 DEF Main, ClientStep
<1>2. CASE Surroundings
  BY <1>2 DEF Surroundings, Next
<1>3. CASE UNCHANGED allVars
  BY <1>3 DEF allVars
<1> QED BY <1>1, <1>2, <1>3 DEF CliNext, Next

(* A terminal that nobody touches stays where it is.                       *)
LEMMA LineKept ==
    ASSUME NEW c \in Clients, Line(c), run'[c] = run[c], Undone(c)
    PROVE  Line(c)'
<1>1. Block(c)' = Block(c)
  BY DEF Block
<1> QED BY <1>1 DEF Line, Undone

(* A call that begins leaves the buffer for the random key alone, unless   *)
(* it ends the process, and then no descriptor is left either.             *)
LEMMA CallKeepsKey ==
    ASSUME TypeOK, NEW c \in Clients, Call(c)
    PROVE  /\ pc'[c] # "none" => random_key'[c] = random_key[c]
           /\ pc'[c] = "none" => fds'[c] = 0
<1>1. pc[c] = "idle" /\ Begins(c)
  BY CallBegins
<1>2. CASE Gone(c)
  BY <1>2 DEF Gone, TypeOK
<1>3. ASSUME NEW call, NEW code, Return(c, call, code) PROVE pc' = pc /\ random_key' = random_key
  BY <1>3 DEF Return
<1>4. ASSUME NEW call \in Awaiting, NEW m, Send(c, call, m)
      PROVE  pc'[c] # "none" /\ random_key' = random_key
  BY <1>1, <1>4 DEF Send, TypeOK, Awaiting
<1> QED BY <1>1, <1>2, <1>3, <1>4 DEF Begins

(* No call says PASS before it has asked for the status.                   *)
LEMMA NotYetPass ==
    ASSUME TypeOK, NEW c \in Clients, Call(c), pc'[c] = "idle"
    PROVE  handle'[c].lastopr # USBK_LO_PASS
<1>1. pc[c] = "idle" /\ Begins(c)
  BY CallBegins
<1>2. ~Gone(c)
  BY DEF Gone, TypeOK
<1>3. ASSUME NEW call, NEW code \in Refusals \cup {USBK_LO_SCSI_ERROR},
             handle' = [handle EXCEPT ![c].lastopr = Outcome(call, code)]
      PROVE  handle'[c].lastopr # USBK_LO_PASS
  <2>1. handle \in [Clients -> Handle]
    BY DEF TypeOK
  <2>2. handle'[c].lastopr = Outcome(call, code)
    BY <1>3, <2>1 DEF Handle
  <2>3. code \in Int /\ code # 0
    BY DEF Refusals, USBK_LO_SCSI_ERROR, USBK_LO_INVALID_KEYNO, USBK_LO_STATE_ERROR,
           USBK_LO_INVALID_KEYSIZE
  <2>4. Outcome(call, code) # 0
    BY <2>3 DEF Outcome
  <2> QED BY <2>2, <2>4 DEF USBK_LO_PASS
<1>4. ASSUME NEW call \in Awaiting, NEW m, Send(c, call, m)
      PROVE  handle' = [handle EXCEPT ![c].lastopr = Outcome(call, USBK_LO_SCSI_ERROR)]
  <2>1. \/ pc' = [pc EXCEPT ![c] = call]
        \/ handle' = [handle EXCEPT ![c].lastopr = Outcome(call, USBK_LO_SCSI_ERROR)]
    BY <1>4 DEF Send
  <2>2. pc' # [pc EXCEPT ![c] = call]
    BY DEF TypeOK, Awaiting
  <2> QED BY <2>1, <2>2
<1> QED BY <1>1, <1>2, <1>3, <1>4 DEF Begins, Return

(* A run goes on.                                                          *)
LEMMA RunChanged ==
    ASSUME NEW r \in Run, NEW todo \in SUBSET Range(Blocks), NEW printed \in Seq(USBK_LO),
           NEW shown \in AllKeys, NEW tries \in Nat, NEW disturbed \in BOOLEAN
    PROVE  [r EXCEPT !.todo = todo, !.printed = printed, !.shown = shown, !.tries = tries,
                     !.disturbed = disturbed]
             \in Run
<1> DEFINE P == SUBSET Range(Blocks)
           S == Seq(USBK_LO)
           O == ParsedLines \cup {Defaults}
           B == BOOLEAN
<1> HIDE DEF P, S, O, B
<1>1. Run = [at : {"shell", "opening", "working", "leaving"}, opts : O, todo : P,
             printed : S, shown : AllKeys, tries : Nat, disturbed : B]
  BY DEF Run, P, S, O, B
<1>2. todo \in P /\ printed \in S /\ disturbed \in B
  BY DEF P, S, B
<1> QED BY <1>1, <1>2

(* When a call is over, what is left to do is still asked for, and a key   *)
(* that is to be set next is one the device made.                          *)
LEMMA ReturnedLine ==
    ASSUME TypeOK, TypeOK', NEW c \in Clients, run \in [Clients -> Run], Line(c),
           run[c].at = "working", Block(c) \in run[c].todo, pc'[c] = "idle", Returned(c),
           "setrandom" \in run[c].todo \/ (Block(c) = "random" /\ handle'[c].lastopr = USBK_LO_PASS)
             => random_key'[c] # JunkKey
    PROVE  Line(c)' /\ run' \in [Clients -> Run]
<1> DEFINE code == handle'[c].lastopr
           set  == Block(c) = "random" /\ code = USBK_LO_PASS
           todo == Following(run[c].todo, Block(c), code)
           printed == IF set THEN run[c].printed ELSE Append(run[c].printed, Message(code))
           shown == IF Shows(Block(c), code) THEN random_key'[c] ELSE run[c].shown
           tries == Counted(c)
           disturbed == run[c].disturbed \/ sent[c].disturbed
<1>1. run' = [run EXCEPT ![c].todo = todo, ![c].printed = printed, ![c].shown = shown,
                         ![c].tries = tries, ![c].disturbed = disturbed]
  BY DEF Returned
<1>2. todo \subseteq run[c].todo \cup {"setrandom"}
      /\ ("setrandom" \in todo => "setrandom" \in run[c].todo \/ set)
  BY DEF Following
<1>3. todo \in SUBSET Range(Blocks)
  <2>1. run[c].todo \in SUBSET Range(Blocks)
    BY DEF Run
  <2> HIDE DEF todo
  <2> QED BY <1>2, <2>1, BlocksAre
<1>4. printed \in Seq(USBK_LO)
  <2>1. Message(code) \in USBK_LO
    BY DEF Message, USBK_LO, USBK_LO_MEM_ERROR
  <2>2. run[c].printed \in Seq(USBK_LO)
    BY DEF Run
  <2> QED BY <2>1, <2>2
<1>5. shown \in AllKeys
  BY DEF Run, TypeOK
<1>6. tries \in Nat /\ disturbed \in BOOLEAN
  BY DEF Counted, Run
<1> HIDE DEF todo, printed, shown, tries, disturbed
<1>7. run' \in [Clients -> Run]
  <2> DEFINE r == [run[c] EXCEPT !.todo = todo, !.printed = printed, !.shown = shown,
                                 !.tries = tries, !.disturbed = disturbed]
  <2>1. r \in Run
    <3> HIDE DEF r
    <3>1. run[c] \in Run
      OBVIOUS
    <3> QED BY <1>3, <1>4, <1>5, <1>6, <3>1, RunChanged DEF r
  <2>2. run' = [run EXCEPT ![c] = r]
    BY <1>1
  <2> HIDE DEF r
  <2> QED BY <2>1, <2>2
<1>8. /\ run'[c].at = "working" /\ run'[c].opts = run[c].opts /\ run'[c].todo = todo
      /\ run'[c] \in Run
  BY <1>1, <1>7 DEF Run
<1>9. Block(c) = "random" => Entered(run[c].opts, "random")
  BY DEF Line
<1>10. pc'[c] # "none" /\ pc'[c] \notin Awaiting
  BY DEF Awaiting
<1> QED BY <1>2, <1>7, <1>8, <1>9, <1>10 DEF Line

(* A process that ended, or has not begun, has no handle and nothing to do.*)
LEMMA LineAtRest ==
    ASSUME NEW c \in Clients, pc'[c] = "none", CliTypeOK',
           \/ run'[c] = Shell /\ fds'[c] = 0
           \/ run'[c] = Leaving
    PROVE  Line(c)'
<1>1. run'[c].at # "working" /\ run'[c].todo = {} /\ run'[c].at # "opening"
      /\ (run'[c].at = "shell" => fds'[c] = 0)
  BY DEF Shell, Leaving
<1>2. run'[c] \in Run
  BY DEF CliTypeOK
<1> QED BY <1>1, <1>2 DEF Line, Awaiting

(* Both are runs.                                                          *)
LEMMA RestType == Shell \in Run /\ Leaving \in Run
<1>1. << >> \in Seq(USBK_LO)
  OBVIOUS
<1>2. NoKey \in AllKeys
  BY DEF AllKeys
<1> QED BY <1>1, <1>2 DEF Shell, Leaving, Run

(* Each step of a terminal, taken alone: a line is accepted.               *)
LEMMA StartKeeps ==
    ASSUME CliInv, NEW c \in Clients, Start(c)
    PROVE  Line(c)' /\ CliTypeOK'
<1>1. PICK o \in ParsedLines : run' = [run EXCEPT ![c].at = "opening", ![c].opts = o]
  BY DEF Start
<1>2. run[c] \in Run /\ Line(c) /\ run \in [Clients -> Run] /\ UNCHANGED vars
  BY DEF CliInv, CliTypeOK, Start
<1>3. [run[c] EXCEPT !.at = "opening", !.opts = o] \in Run
  BY <1>2 DEF Run
<1>4. run' \in [Clients -> Run]
  BY <1>1, <1>2, <1>3
<1>5. run'[c].at = "opening" /\ run'[c].opts = o /\ run'[c].todo = run[c].todo
  BY <1>1, <1>2 DEF Run
<1>6. run[c].at = "shell"
  BY DEF Start
<1>7. pc'[c] = "none" /\ fds'[c] = 0 /\ run[c].todo = {}
  BY <1>2, <1>6 DEF Line, vars
<1> QED BY <1>4, <1>5, <1>7 DEF Line, CliTypeOK, Awaiting

(* Without a handle main leaves; with one it has what was asked for to do. *)
LEMMA OpenKeeps ==
    ASSUME TypeOK, CliInv, NEW c \in Clients, Open(c)
    PROVE  Line(c)' /\ CliTypeOK'
<1>1. Line(c) /\ run \in [Clients -> Run] /\ run[c] \in Run /\ run[c].opts \in ParsedLines
  BY DEF CliInv, CliTypeOK, Line, Open
<1>2. CASE pc'[c] = "idle"
  <2>1. run' = [run EXCEPT ![c].at = "working", ![c].todo = Program(run[c].opts)]
    BY <1>2 DEF Open
  <2>2. Program(run[c].opts) \in SUBSET Range(Blocks)
    BY DEF Program
  <2>3. [run[c] EXCEPT !.at = "working", !.todo = Program(run[c].opts)] \in Run
    <3> HIDE DEF Program
    <3> QED BY <1>1, <2>2 DEF Run
  <2>4. run' \in [Clients -> Run]
    BY <1>1, <2>1, <2>3
  <2>5. run'[c].at = "working" /\ run'[c].opts = run[c].opts
        /\ run'[c].todo = Program(run[c].opts)
    BY <1>1, <2>1 DEF Run
  <2>6. \A b \in Program(run[c].opts) : Entered(run[c].opts, b)
    BY DEF Program
  <2>7. "setrandom" \notin Program(run[c].opts)
    BY DEF Program, Entered
  <2> QED BY <1>1, <1>2, <2>4, <2>5, <2>6, <2>7 DEF Line, CliTypeOK, Awaiting
<1>3. CASE pc'[c] # "idle"
  <2>1. run' = [run EXCEPT ![c] = Leaving]
    BY <1>3 DEF Open
  <2>2. pc'[c] = "none"
    BY <1>3 DEF Open, usbk_new, vars, TypeOK
  <2>3. run' \in [Clients -> Run] /\ run'[c] = Leaving
    BY <1>1, <2>1, RestType
  <2> QED BY <2>2, <2>3, LineAtRest DEF CliTypeOK
<1> QED BY <1>2, <1>3

(* The end of the process, by itself or by a signal.                       *)
LEMMA EndsKeeps ==
    ASSUME TypeOK, CliInv, NEW c \in Clients, Ends(c)
    PROVE  Line(c)' /\ CliTypeOK'
<1>1. run \in [Clients -> Run]
  BY DEF CliInv, CliTypeOK
<1>2. run' \in [Clients -> Run] /\ run'[c] = Shell
  BY <1>1, RestType DEF Ends
<1>3. pc'[c] = "none" /\ fds'[c] = 0
  BY DEF Ends, Exit, Gone, vars, TypeOK
<1> QED BY <1>2, <1>3, LineAtRest DEF CliTypeOK

(* Nothing is left to do.                                                  *)
LEMMA ReleaseKeeps ==
    ASSUME TypeOK, CliInv, NEW c \in Clients, Release(c)
    PROVE  Line(c)' /\ CliTypeOK'
<1>1. run \in [Clients -> Run]
  BY DEF CliInv, CliTypeOK
<1>2. run' \in [Clients -> Run] /\ run'[c] = Leaving
  BY <1>1, RestType DEF Release
<1>3. pc'[c] = "none"
  BY DEF Release, usbk_release, TypeOK
<1> QED BY <1>2, <1>3, LineAtRest DEF CliTypeOK

(* The information is read again and shown.                                *)
LEMMA ShowInfoKeeps ==
    ASSUME TypeOK, CliInv, NEW c \in Clients, ShowInfo(c)
    PROVE  Line(c)' /\ CliTypeOK'
<1>1. Line(c) /\ run \in [Clients -> Run] /\ run[c] \in Run /\ run[c].at = "working"
  BY DEF CliInv, CliTypeOK, ShowInfo, Enters
<1>2. run' = [run EXCEPT ![c].todo = run[c].todo \ {"info"}]
  BY DEF ShowInfo
<1>3. [run[c] EXCEPT !.todo = run[c].todo \ {"info"}] \in Run
  BY <1>1 DEF Run
<1>4. run' \in [Clients -> Run]
  BY <1>1, <1>2, <1>3
<1>5. run'[c].at = "working" /\ run'[c].opts = run[c].opts
      /\ run'[c].todo = run[c].todo \ {"info"}
  BY <1>1, <1>2 DEF Run
<1>6. pc'[c] = "idle" /\ random_key' = random_key
  BY DEF ShowInfo, usbk_refreshusbkinfo
<1> QED BY <1>1, <1>4, <1>5, <1>6 DEF Line, CliTypeOK, Awaiting

(* A block makes its call, which is over, waits, or ended the process.     *)
LEMMA CallsKeep ==
    ASSUME TypeOK, TypeOK', CliInv, NEW c \in Clients, Calls(c)
    PROVE  Line(c)' /\ CliTypeOK'
<1>1. Line(c) /\ run \in [Clients -> Run] /\ run[c] \in Run
  BY DEF CliInv, CliTypeOK
<1>2. PICK b \in Range(Blocks) : b # "release" /\ Enters(c, b)
  BY BlocksAre DEF Calls, activate, deactivate, password, label, key, random, setrandom,
     name, enable, disable
<1>3. run[c].at = "working" /\ pc[c] = "idle" /\ Block(c) \in run[c].todo
  BY <1>1, <1>2, EntersLeft DEF Enters
<1>4. Call(c)
  BY <1>1, CallsAreCalls
<1>5. CASE pc'[c] = "idle" /\ Returned(c)
  <2>1. random_key'[c] = random_key[c]
    BY <1>4, <1>5, CallKeepsKey
  <2>2. ~(Block(c) = "random" /\ handle'[c].lastopr = USBK_LO_PASS)
    BY <1>4, <1>5, NotYetPass
  <2>3. "setrandom" \in run[c].todo => random_key'[c] # JunkKey
    BY <1>1, <2>1 DEF Line
  <2> QED BY <1>1, <1>3, <1>5, <2>2, <2>3, ReturnedLine DEF CliTypeOK
<1>6. CASE pc'[c] \in Awaiting /\ run' = [run EXCEPT ![c].tries = Counted(c)]
  <2>1. Counted(c) \in Nat
    BY <1>1 DEF Counted, Run
  <2>2. [run[c] EXCEPT !.tries = Counted(c)] \in Run
    <3> HIDE DEF Counted
    <3> QED BY <1>1, <2>1 DEF Run
  <2>3. run' \in [Clients -> Run]
    BY <1>1, <1>6, <2>2
  <2>4. /\ run'[c].at = run[c].at /\ run'[c].opts = run[c].opts /\ run'[c].todo = run[c].todo
    BY <1>1, <1>6 DEF Run
  <2>5. Block(c)' = Block(c)
    BY <2>4 DEF Block
  <2>6. Serves(run[c].opts, Block(c), sent'[c].cmd)
    BY <1>1, <1>6, CallsServe
  <2>7. random_key'[c] = random_key[c] /\ pc'[c] # "none"
    BY <1>4, <1>6, CallKeepsKey DEF Awaiting
  <2> QED BY <1>1, <1>3, <2>3, <2>4, <2>5, <2>6, <2>7 DEF Line, CliTypeOK
<1>7. CASE pc'[c] = "none" /\ run' = [run EXCEPT ![c] = Shell]
  <2>1. run' \in [Clients -> Run] /\ run'[c] = Shell
    BY <1>1, <1>7, RestType
  <2> QED BY <1>4, <1>7, <2>1, CallKeepsKey, LineAtRest DEF CliTypeOK
<1> QED BY <1>5, <1>6, <1>7 DEF Calls, Progress

(* The status of a call is read: the key it hands out is no junk.          *)
LEMMA StatusKeeps ==
    ASSUME TypeOK, TypeOK', AnswerKept, CliInv, NEW c \in Clients, Status(c)
    PROVE  Line(c)' /\ CliTypeOK'
<1>1. Line(c) /\ run \in [Clients -> Run] /\ run[c] \in Run
  BY DEF CliInv, CliTypeOK
<1>2. run[c].at = "working" /\ commandstatus(c) /\ Returned(c) /\ pc[c] \in Awaiting
  BY DEF Status, commandstatus
<1>3. Block(c) \in run[c].todo
  BY <1>1, <1>2, BlockIsLeft DEF Line, Run
<1>4. PICK io \in send_scsi_command(plugged, fds[c]) :
        Finish(c, io, StatusCode(c, io), StatusRetry(c, io), StatusKey(c, StatusCode(c, io)))
  BY <1>2 DEF commandstatus
<1>5. handle'[c].lastopr = StatusCode(c, io)
  <2>1. handle[c] \in Handle
    BY DEF TypeOK
  <2>2. handle'[c] = [handle[c] EXCEPT !.lastopr = StatusCode(c, io),
                                       !.retry_num = StatusRetry(c, io)]
    BY <1>4 DEF Finish, TypeOK
  <2> QED BY <2>1, <2>2 DEF Handle
<1>6. pc'[c] = "idle" /\ random_key'[c] = StatusKey(c, StatusCode(c, io))
  BY <1>4 DEF Finish, TypeOK
<1>7. sent[c].key # JunkKey
  BY <1>2, DistinctAssumption DEF AnswerKept, Answers, GeneratedKeys
<1>8. "setrandom" \in run[c].todo => random_key'[c] # JunkKey
  BY <1>1, <1>6, <1>7 DEF Line, StatusKey
<1>9. Block(c) = "random" /\ handle'[c].lastopr = USBK_LO_PASS => random_key'[c] # JunkKey
  <2>1. Block(c) = "random" => sent[c].cmd.op = GENERATE_KEY
    BY <1>1, <1>2 DEF Line, Serves
  <2> QED BY <1>5, <1>6, <1>7, <2>1 DEF StatusKey
<1> QED BY <1>1, <1>2, <1>3, <1>6, <1>8, <1>9, ReturnedLine DEF CliTypeOK

(* A terminal has its own globals.                                         *)
LEMMA GlobalsApart ==
    ASSUME CliTypeOK, NEW c \in Clients, Start(c) \/ Main(c) \/ Killed(c),
           NEW x \in Clients, x # c
    PROVE  run'[x] = run[x]
<1> USE DEF CliTypeOK
<1>1. CASE Calls(c)
  BY <1>1 DEF Calls, Progress, Returned
<1>2. CASE Status(c)
  BY <1>2 DEF Status, Returned
<1>3. CASE Start(c)
  BY <1>3 DEF Start
<1>4. CASE Open(c) \/ ShowInfo(c) \/ Release(c) \/ Leave(c) \/ Killed(c)
  BY <1>4 DEF Open, ShowInfo, Release, Leave, Killed, Ends
<1> QED BY <1>1, <1>2, <1>3, <1>4 DEF Main

(* What one terminal does leaves the others where they are.                *)
LEMMA TerminalsApart ==
    ASSUME TypeOK, CliInv, NEW c \in Clients, Start(c) \/ Main(c) \/ Killed(c),
           ClientStep(c) \/ UNCHANGED vars, NEW x \in Clients, x # c
    PROVE  Line(x)'
<1>1. run \in [Clients -> Run] /\ Line(x)
  BY DEF CliInv, CliTypeOK
<1>2. run'[x] = run[x]
  BY GlobalsApart DEF CliInv
<1>3. Undone(x)
  <2>1. UNCHANGED vars => Undone(x)
    BY DEF vars, Undone
  <2> QED BY <2>1, OthersKeep
<1> QED BY <1>1, <1>2, <1>3, LineKept

(* So every step keeps the invariant.                                      *)
LEMMA CliStep ==
    TypeOK /\ TypeOK' /\ AnswerKept /\ CliInv /\ [CliNext]_allVars => CliInv'
<1> SUFFICES ASSUME TypeOK, TypeOK', AnswerKept, CliInv, [CliNext]_allVars PROVE CliInv'
  OBVIOUS
<1>1. ASSUME NEW c \in Clients, Start(c) \/ Main(c) \/ Killed(c) PROVE CliInv'
  <2>1. ClientStep(c) \/ UNCHANGED vars
    <3>1. Calls(c) => Call(c)
      BY CallsAreCalls DEF CliInv
    <3> QED BY <1>1, <3>1 DEF Main, Start, Open, Status, ShowInfo, Release, Leave, Killed,
            Ends, ClientStep
  <2>2. Line(c)' /\ CliTypeOK'
    BY <1>1, StartKeeps, OpenKeeps, CallsKeep, StatusKeeps, ShowInfoKeeps, ReleaseKeeps,
       EndsKeeps DEF Main, Leave, Killed
  <2>3. \A x \in Clients : x # c => Line(x)'
    BY <1>1, <2>1, TerminalsApart
  <2> QED BY <2>2, <2>3 DEF CliInv
<1>2. CASE Surroundings
  <2>1. \A c \in Clients : Undone(c)
    BY <1>2, DisturbedCarries DEF Surroundings, Unplug, Replug, Undone
  <2>2. run' = run
    BY <1>2 DEF Surroundings
  <2> QED BY <2>1, <2>2, LineKept DEF CliInv, CliTypeOK
<1>3. CASE UNCHANGED allVars
  <2>1. run' = run /\ \A c \in Clients : Undone(c)
    BY <1>3 DEF allVars, vars, Undone
  <2> QED BY <2>1, LineKept DEF CliInv, CliTypeOK
<1> QED BY <1>1, <1>2, <1>3 DEF CliNext

-----------------------------------------------------------------------------
(* The program in any number of terminals                                  *)

(* What holds of the library, and where every terminal is.                 *)
IInv == TypeOK /\ StatusStillMine /\ AnswerKept /\ CliInv

(* It holds when nothing runs yet.                                         *)
LEMMA CliStart == CliInit => IInv
<1> SUFFICES ASSUME CliInit PROVE IInv
  OBVIOUS
<1>1. TypeOK /\ StatusStillMine
  BY TypeInit, MineInit DEF CliInit
<1>2. AnswerKept
  BY DEF CliInit, Init, AnswerKept, Awaiting
<1>3. CliTypeOK
  BY RestType DEF CliInit, CliTypeOK
<1>4. ASSUME NEW c \in Clients PROVE Line(c)
  <2>1. /\ run[c] = Shell /\ pc[c] = "none" /\ fds[c] = 0
    BY DEF CliInit, Init
  <2> QED BY <2>1, RestType DEF Line, Shell, Awaiting
<1> QED BY <1>1, <1>2, <1>3, <1>4 DEF IInv, CliInv

(* And every step keeps it.                                                *)
LEMMA CliKeeps == IInv /\ [CliNext]_allVars => IInv'
<1> SUFFICES ASSUME IInv, [CliNext]_allVars PROVE IInv'
  OBVIOUS
<1>1. [Next]_vars
  BY StepsFollow DEF IInv
<1>2. TypeOK' /\ StatusStillMine' /\ AnswerKept'
  BY <1>1, TypeStep, MineStep, AnswerStep DEF IInv
<1>3. CliInv'
  BY <1>2, CliStep DEF IInv
<1> QED BY <1>2, <1>3 DEF IInv

(* The invariant of the program.                                           *)
LEMMA IInvAlways == CliSpec => []IInv
  BY CliStart, CliKeeps, PTL DEF CliSpec

(* The globals of main stay within their types, in any number of terminals.*)
THEOREM CliTypeCorrect == CliSpec => []CliTypeOK
<1>1. IInv => CliTypeOK
  BY DEF IInv, CliInv
<1> QED BY <1>1, IInvAlways, PTL

(* main calls the library only with a handle it got and has not released,  *)
(* also when a call ends the process, for every command line.              *)
THEOREM HandleAlwaysWhileWorking == CliSpec => []HandleWhileWorking
<1>1. IInv => HandleWhileWorking
  BY DEF IInv, CliInv, Line, HandleWhileWorking
<1> QED BY <1>1, IInvAlways, PTL

(* The program is a client as LibUsbk assumes: every step of it is one of  *)
(* the library, with arguments the library is called with.                 *)
THEOREM LibraryFollowed == CliSpec => FollowsLibrary
<1>1. CliInit => Init
  BY DEF CliInit
<1>2. IInv /\ [CliNext]_allVars => [Next]_vars
  BY StepsFollow DEF IInv
<1> QED BY <1>1, <1>2, IInvAlways, PTL DEF CliSpec, FollowsLibrary, Spec

(* So the program inherits what is proved of the library: among it, that a *)
(* command takes effect at most once and its verdict goes to its caller.   *)
COROLLARY PromiseKeptByProgram == CliSpec => KeepsPromise
  BY LibraryFollowed, PromiseKept, PTL DEF FollowsLibrary

-----------------------------------------------------------------------------
(* What the user reads                                                     *)

(* A step of the program that changes the globals of a terminal is one of  *)
(* that terminal.                                                          *)
LEMMA OwnStep ==
    ASSUME CliTypeOK, [CliNext]_allVars, NEW c \in Clients, run'[c] # run[c]
    PROVE  Start(c) \/ Main(c) \/ Killed(c)
<1>1. ~Surroundings /\ ~UNCHANGED allVars
  BY DEF Surroundings, allVars
<1>2. PICK x \in Clients : Start(x) \/ Main(x) \/ Killed(x)
  BY <1>1 DEF CliNext
<1> QED BY <1>2, GlobalsApart

(* A result is printed about a call that waited for its status only by     *)
(* reading it, and it is `Pass.' only when lastopr says so.                *)
LEMMA PrintedIsRead ==
    ASSUME CliTypeOK, [CliNext]_allVars, NEW c \in Clients, PrintsPass(c)
    PROVE  commandstatus(c) /\ handle'[c].lastopr = USBK_LO_PASS
<1>1. /\ run[c].at = "working" /\ pc[c] \in Awaiting /\ pc[c] # "idle" /\ pc[c] # "none"
      /\ run'[c].printed = Append(run[c].printed, USBK_LO_PASS)
  BY DEF PrintsPass, Awaiting
<1>2. run[c] \in Run /\ run[c].printed \in Seq(USBK_LO) /\ run \in [Clients -> Run]
  BY DEF CliTypeOK, Run
<1>3. USBK_LO_PASS \in USBK_LO
  BY DEF USBK_LO_PASS, USBK_LO
<1>4. run'[c].printed # run[c].printed /\ run'[c].printed # << >>
  BY <1>1, <1>2, <1>3
<1>5. Start(c) \/ Main(c) \/ Killed(c)
  BY <1>4, OwnStep
<1>6. ~Start(c) /\ ~Open(c)
  BY <1>1 DEF Start, Open
<1>7. ~ShowInfo(c) /\ ~Release(c) /\ ~Calls(c)
  BY <1>1 DEF ShowInfo, Release, Enters, Calls, activate, deactivate, password, label, key,
     random, setrandom, name, enable, disable
<1>8. ~Ends(c)
  <2>1. Ends(c) => run'[c] = Shell
    BY <1>2 DEF Ends
  <2> QED BY <1>4, <2>1 DEF Shell
<1>9. Status(c)
  BY <1>5, <1>6, <1>7, <1>8 DEF Main, Leave, Killed
<1> DEFINE code == handle'[c].lastopr
           set  == Block(c) = "random" /\ code = USBK_LO_PASS
<1>10. run'[c].printed = IF set THEN run[c].printed ELSE Append(run[c].printed, Message(code))
  BY <1>2, <1>9 DEF Status, Returned, Run
<1>11. Append(run[c].printed, Message(code)) = Append(run[c].printed, USBK_LO_PASS)
  BY <1>1, <1>4, <1>10
<1>12. Message(code) \in USBK_LO
  BY DEF Message, USBK_LO, USBK_LO_MEM_ERROR
<1>13. Message(code) = USBK_LO_PASS
  <2> HIDE DEF code
  <2> QED BY <1>2, <1>3, <1>11, <1>12
<1>14. code = USBK_LO_PASS
  BY <1>13 DEF Message, USBK_LO_PASS, USBK_LO_MEM_ERROR
<1> QED BY <1>9, <1>14 DEF Status

(* What it was printed about has taken effect.                             *)
LEMMA PassedTookEffect ==
    ASSUME IInv, [CliNext]_allVars, NEW c \in Clients, PrintsPass(c)
    PROVE  Applied(dev, sent[c].cmd)
<1>1. /\ TypeOK /\ StatusStillMine /\ CliTypeOK /\ [Next]_vars
  BY StepsFollow DEF IInv, CliInv
<1>2. commandstatus(c) /\ handle'[c].lastopr = USBK_LO_PASS
  BY <1>1, PrintedIsRead
<1>3. pc'[c] = "idle"
  BY <1>1, <1>2 DEF commandstatus, Finish, TypeOK
<1>4. Abs(handle'[c].lastopr) = 0
  BY <1>2 DEF Abs, USBK_LO_PASS
<1>5. Reports(c) /\ pc[c] \in Awaiting /\ ~sent[c].disturbed
  BY <1>3, <1>4 DEF PrintsPass, Reports, USBK_LO_SCSI_ERROR
<1>6. dev.lastop - 1 = 0
  BY <1>1, <1>4, <1>5, ReportsVerdict
<1>7. dev.lastop \in 1 .. 10
  BY <1>1 DEF TypeOK, Device, OPRS
<1>8. dev.lastop = OPRS_PASS
  BY <1>6, <1>7 DEF OPRS_PASS
<1> QED BY <1>1, <1>5, <1>8 DEF StatusStillMine

(* When the program prints `Pass.' about a block, the device is what the   *)
(* options that this block reads ask for in the words of the help, on      *)
(* every command line and in any number of terminals, unless another use   *)
(* of the device came in between.  Of a malformed key and of -m next to    *)
(* -x or -X, which no block reads, nothing is said.                        *)
THEOREM PassAlwaysDone == CliSpec => PassIsDone
<1> DEFINE Step == \A c \in Clients : PrintsPass(c) => Served(run[c].opts, Block(c), dev)
<1>1. ASSUME IInv, [CliNext]_allVars, NEW c \in Clients, PrintsPass(c)
      PROVE  Served(run[c].opts, Block(c), dev)
  <2>1. Applied(dev, sent[c].cmd)
    BY <1>1, PassedTookEffect
  <2>2. Serves(run[c].opts, Block(c), sent[c].cmd)
    BY <1>1 DEF IInv, CliInv, Line, PrintsPass
  <2> QED BY <2>1, <2>2, ServesDone
<1>2. IInv /\ [CliNext]_allVars => [Step]_allVars
  BY <1>1
<1> HIDE DEF Step
<1>3. CliSpec => [][Step]_allVars
  BY <1>2, IInvAlways, PTL DEF CliSpec
<1> QED BY <1>3 DEF PassIsDone, Step

(* -i shows the device as it is, unless it could not be read, in any       *)
(* number of terminals and whatever the same run has done before.          *)
THEOREM InfoAlwaysFresh == CliSpec => InfoIsFresh
<1> DEFINE Step == \A c \in Clients :
             Enters(c, "info") /\ run'[c].at = "working" /\ run'[c] # run[c] =>
               \/ Mirrors(handle'[c], DevInfo(dev))
               \/ handle'[c].lastopr = USBK_LO_SCSI_ERROR
<1>1. ASSUME IInv, [CliNext]_allVars, NEW c \in Clients, Enters(c, "info"),
             run'[c].at = "working", run'[c] # run[c]
      PROVE  \/ Mirrors(handle'[c], DevInfo(dev))
             \/ handle'[c].lastopr = USBK_LO_SCSI_ERROR
  <2>1. TypeOK /\ CliTypeOK
    BY <1>1 DEF IInv, CliInv
  <2>2. Start(c) \/ Main(c) \/ Killed(c)
    BY <1>1, <2>1, OwnStep
  <2>3. run[c].at = "working" /\ pc[c] = "idle" /\ Block(c) = "info"
    BY <1>1 DEF Enters
  <2>4. ~Ends(c)
    BY <1>1, <2>1 DEF Ends, Shell, CliTypeOK
  <2>5. ~Start(c) /\ ~Open(c) /\ ~Status(c) /\ ~Release(c) /\ ~Calls(c)
    BY <2>3 DEF Start, Open, Status, commandstatus, Awaiting, Release, Enters, Calls,
       activate, deactivate, password, label, key, random, setrandom, name, enable, disable
  <2>6. usbk_refreshusbkinfo(c)
    BY <2>2, <2>4, <2>5 DEF Main, Leave, Killed, ShowInfo
  <2>7. handle[c] \in Handle /\ handle \in [Clients -> Handle]
    BY <2>1 DEF TypeOK
  <2>8. CASE handle' = [handle EXCEPT ![c].lastopr = USBK_LO_SCSI_ERROR]
    BY <2>7, <2>8 DEF Handle
  <2>9. CASE handle' = [handle EXCEPT ![c] = Filled(@, DevInfo(dev))]
    <3>1. handle'[c] = Filled(handle[c], DevInfo(dev))
      BY <2>7, <2>9
    <3> QED BY <2>7, <3>1, FilledMirrors
  <2> QED BY <2>6, <2>8, <2>9 DEF usbk_refreshusbkinfo
<1>2. IInv /\ [CliNext]_allVars => [Step]_allVars
  BY <1>1
<1> HIDE DEF Step
<1>3. CliSpec => [][Step]_allVars
  BY <1>2, IInvAlways, PTL DEF CliSpec
<1> QED BY <1>3 DEF InfoIsFresh, Step

-----------------------------------------------------------------------------
(* How much one run does                                                   *)

(* One main operation was asked for, and a key is set after it was made.   *)
Left(c) ==
    /\ run[c].at \in {"opening", "working"} => run[c].opts.main_operation <= 1
    /\ "setrandom" \in run[c].todo => "random" \notin run[c].todo

(* No password was tried while a block is left, or while a key is made.    *)
Paid(c) ==
    /\ run[c].at # "working" => run[c].tries = 0
    /\ {"x", "X"} \subseteq run[c].opts.flags
         \/ /\ run[c].tries <= 1
            /\ run[c].todo \ {"info"} # {} /\ pc[c] \notin Awaiting => run[c].tries = 0
            /\ pc[c] \in Awaiting /\ Block(c) = "random" => run[c].tries = 0

(* No key was shown before it is set, what is set is what was made, unless *)
(* others came between, and the command that sets it carries it.           *)
Told(c) ==
    /\ run[c].at # "working" => run[c].shown = NoKey
    /\ {"random", "setrandom"} \cap run[c].todo # {} => run[c].shown = NoKey
    /\ "setrandom" \in run[c].todo =>
         /\ key_size(c) # KEYSIZE_NULL
         /\ run[c].disturbed \/ random_key[c] \in DeviceKeys
    /\ pc[c] \in Awaiting /\ Block(c) = "random" => key_size(c) # KEYSIZE_NULL
    /\ pc[c] \in Awaiting /\ Block(c) = "setrandom" =>
         /\ sent[c].cmd.keyno = Byte(run[c].opts.key)
         /\ sent[c].cmd.options = SETKEY_NAME_AND_KEY
         /\ sent[c].cmd.key = random_key[c]

Limits(c) == Left(c) /\ Paid(c) /\ Told(c)

(* A block that is left is the only one, but for the display at the end.   *)
LEMMA OneLeft ==
    ASSUME NEW c \in Clients, Line(c), Left(c), run[c].at = "working",
           ~({"m", "x", "X"} \subseteq run[c].opts.flags),
           NEW b \in run[c].todo, b # "info"
    PROVE  run[c].todo \subseteq {b, "info"}
<1> DEFINE o == run[c].opts
<1>1. o \in ParsedLines /\ o.main_operation <= 1 /\ run[c].todo \subseteq Range(Blocks)
  BY DEF Line, Left, Run
<1>2. MainsCounted(o)
  BY <1>1, LinesTaken
<1>3. PICK only : \A x \in Range(Blocks) : Entered(o, x) => x \in {only, "info"}
  BY <1>1, <1>2, OneIsAsked
<1>4. \A x \in run[c].todo : x \in {"setrandom", only, "info"}
  BY <1>1, <1>3 DEF Line
<1>5. CASE "setrandom" \in run[c].todo
  <2>1. "random" \in {only, "info"}
    BY <1>3, <1>5, BlocksAre DEF Line
  <2>2. "random" \notin run[c].todo
    BY <1>5 DEF Left
  <2> QED BY <1>4, <2>1, <2>2
<1>6. CASE "setrandom" \notin run[c].todo
  BY <1>4, <1>6
<1> QED BY <1>5, <1>6

(* A terminal that nobody touches stays within the limits.                 *)
LEMMA LimitsKept ==
    ASSUME NEW c \in Clients, Limits(c), run'[c] = run[c], Undone(c)
    PROVE  Limits(c)'
<1>1. Block(c)' = Block(c) /\ key_size(c)' = key_size(c)
  BY DEF Block, key_size
<1> QED BY <1>1 DEF Limits, Left, Paid, Told, Undone

(* So does one that has ended, or is about to.                             *)
LEMMA LimitsAtRest ==
    ASSUME NEW c \in Clients, pc'[c] = "none", run'[c] \in {Shell, Leaving}
    PROVE  Limits(c)'
<1>1. /\ run'[c].at \in {"shell", "leaving"} /\ run'[c].todo = {}
      /\ run'[c].tries = 0 /\ run'[c].shown = NoKey
  BY DEF Shell, Leaving
<1> QED BY <1>1 DEF Limits, Left, Paid, Told, Awaiting

(* What a call that is over leaves of the run.                             *)
LEMMA ReturnedIs ==
    ASSUME NEW c \in Clients, run \in [Clients -> Run], Returned(c)
    PROVE  /\ run'[c].at = run[c].at /\ run'[c].opts = run[c].opts
           /\ run'[c].todo = Following(run[c].todo, Block(c), handle'[c].lastopr)
           /\ run'[c].printed =
                IF Block(c) = "random" /\ handle'[c].lastopr = USBK_LO_PASS
                THEN run[c].printed ELSE Append(run[c].printed, Message(handle'[c].lastopr))
           /\ run'[c].shown = IF Shows(Block(c), handle'[c].lastopr)
                              THEN random_key'[c] ELSE run[c].shown
           /\ run'[c].tries = Counted(c)
           /\ run'[c].disturbed = (run[c].disturbed \/ sent[c].disturbed)
           /\ key_size(c)' = key_size(c)
<1> DEFINE todo == Following(run[c].todo, Block(c), handle'[c].lastopr)
           printed == IF Block(c) = "random" /\ handle'[c].lastopr = USBK_LO_PASS
                      THEN run[c].printed
                      ELSE Append(run[c].printed, Message(handle'[c].lastopr))
           shown == IF Shows(Block(c), handle'[c].lastopr)
                    THEN random_key'[c] ELSE run[c].shown
           tries == Counted(c)
           disturbed == run[c].disturbed \/ sent[c].disturbed
<1>1. run' = [run EXCEPT ![c].todo = todo, ![c].printed = printed, ![c].shown = shown,
                         ![c].tries = tries, ![c].disturbed = disturbed]
  BY DEF Returned
<1> HIDE DEF todo, printed, shown, tries, disturbed
<1>2. /\ run'[c].at = run[c].at /\ run'[c].opts = run[c].opts /\ run'[c].todo = todo
      /\ run'[c].printed = printed /\ run'[c].shown = shown /\ run'[c].tries = tries
      /\ run'[c].disturbed = disturbed
  BY <1>1 DEF Run
<1>3. key_size(c)' = key_size(c)
  BY <1>2 DEF key_size
<1> QED BY <1>2, <1>3 DEF todo, printed, shown, tries, disturbed

(* A call that waits only counts.                                          *)
LEMMA WaitingIs ==
    ASSUME NEW c \in Clients, run \in [Clients -> Run],
           run' = [run EXCEPT ![c].tries = Counted(c)]
    PROVE  /\ run'[c].at = run[c].at /\ run'[c].opts = run[c].opts
           /\ run'[c].todo = run[c].todo /\ run'[c].printed = run[c].printed
           /\ run'[c].shown = run[c].shown /\ run'[c].disturbed = run[c].disturbed
           /\ run'[c].tries = Counted(c)
           /\ Block(c)' = Block(c) /\ key_size(c)' = key_size(c)
<1> DEFINE tries == Counted(c)
<1>1. run' = [run EXCEPT ![c].tries = tries]
  OBVIOUS
<1> HIDE DEF tries
<1>2. /\ run'[c].at = run[c].at /\ run'[c].opts = run[c].opts
      /\ run'[c].todo = run[c].todo /\ run'[c].printed = run[c].printed
      /\ run'[c].shown = run[c].shown /\ run'[c].disturbed = run[c].disturbed
      /\ run'[c].tries = tries
  BY <1>1 DEF Run
<1> QED BY <1>2 DEF tries, Block, key_size

(* Making a key costs no password try.                                     *)
LEMMA GenerateIsFree ==
    ASSUME NEW d \in Device, NEW e \in Executed(d, Zeroed(GENERATE_KEY))
    PROVE  e.retry = d.retry /\ e.password = d.password
<1> DEFINE m == Zeroed(GENERATE_KEY)
<1>1. m.op = GENERATE_KEY
  BY DEF Zeroed
<1> HIDE DEF m
<1>2. ~WrongPassword(d, m) /\ ~BadKeyNumber(m) /\ ~BadNewPassword(m)
  BY <1>1 DEF WrongPassword, BadKeyNumber, BadNewPassword, GENERATE_KEY, ACTIVATE_KEY,
     SET_KEY, SET_AUTO_ACTIVE, CHANGE_PASS
<1>3. Complaints(d, m) = {}
  BY <1>2 DEF Complaints
<1>4. Verdicts(d, m) \subseteq {StateRefusal(d), OPRS_PASS}
  BY <1>3 DEF Verdicts
<1>5. PICK v \in Verdicts(d, m) : \E o \in Outcomes(d, m, v) : e = [o EXCEPT !.lastop = v]
  BY DEF Executed, m
<1>6. v \notin {OPRS_FAILED_PASS, OPRS_FABRIC_RESET}
  BY <1>4, <1>5 DEF StateRefusal, OPRS_PASS, OPRS_USBK_UNPLUGING, OPRS_GEN_FAIL,
     OPRS_FAILED_PASS, OPRS_FABRIC_RESET
<1>7. Obeyed(Restored(d, m), m) = {d}
  BY <1>1 DEF Obeyed, Restored, GENERATE_KEY, ACTIVATE_KEY, SET_KEY, SET_AUTO_ACTIVE,
     CHANGE_PASS, DEACTIVATE_KEY, SET_DEV_NAME
<1>8. Outcomes(d, m, v) = {d}
  BY <1>6, <1>7 DEF Outcomes
<1> QED BY <1>5, <1>8 DEF Device

(* A step counts one password try at most, and none when the device kept   *)
(* its retry number and its password.                                      *)
LEMMA CountedOnce ==
    ASSUME TypeOK, NEW c \in Clients
    PROVE  /\ Counted(c) \in {run[c].tries, run[c].tries + 1}
           /\ dev'.retry = dev.retry /\ dev'.password = dev.password
                => Counted(c) = run[c].tries
<1>1. ~(dev.retry < dev.retry)
  BY RetryAssumption DEF TypeOK, Device
<1> QED BY <1>1 DEF Counted

(* The block whose call waits is not the display.                          *)
LEMMA WaitingBlock ==
    ASSUME NEW c \in Clients, Line(c), pc[c] \in Awaiting
    PROVE  /\ Block(c) \in run[c].todo /\ Block(c) # "info"
           /\ Serves(run[c].opts, Block(c), sent[c].cmd)
           /\ Block(c) = "random" => sent[c].cmd.op = GENERATE_KEY
           /\ Block(c) # "random" => sent[c].cmd.op # GENERATE_KEY
<1>1. Serves(run[c].opts, Block(c), sent[c].cmd) /\ run[c].todo # {}
  BY DEF Line
<1>2. Block(c) \in run[c].todo
  BY <1>1, BlockIsLeft DEF Line, Run
<1>3. Block(c) # "random" => sent[c].cmd.op # GENERATE_KEY
  BY <1>1 DEF Serves, ACTIVATE_KEY, DEACTIVATE_KEY, CHANGE_PASS, SET_DEV_NAME,
     SET_AUTO_ACTIVE, SET_KEY, GENERATE_KEY
<1> QED BY <1>1, <1>2, <1>3 DEF Serves

(* A line is accepted with one main operation.                             *)
LEMMA StartLimits ==
    ASSUME CliInv, NEW c \in Clients, Limits(c), Start(c)
    PROVE  Limits(c)'
<1>1. run \in [Clients -> Run] /\ Line(c) /\ UNCHANGED vars /\ run[c].at = "shell"
  BY DEF CliInv, CliTypeOK, Start
<1>2. PICK o \in ParsedLines, superuser \in BOOLEAN :
        /\ Proceeds(o, superuser)
        /\ run' = [run EXCEPT ![c].at = "opening", ![c].opts = o]
  BY DEF Start
<1>3. /\ run'[c].at = "opening" /\ run'[c].opts = o /\ run'[c].todo = run[c].todo
      /\ run'[c].tries = run[c].tries /\ run'[c].shown = run[c].shown
  BY <1>1, <1>2 DEF Run
<1>4. o.main_operation <= 1
  BY <1>2 DEF Proceeds
<1>5. run[c].todo = {} /\ pc'[c] \notin Awaiting /\ run[c].tries = 0 /\ run[c].shown = NoKey
  BY <1>1 DEF Line, Awaiting, vars, Limits, Paid, Told
<1> QED BY <1>3, <1>4, <1>5 DEF Limits, Left, Paid, Told

(* What was asked for is to do, and no key is there yet.                   *)
LEMMA OpenLimits ==
    ASSUME TypeOK, CliInv, NEW c \in Clients, Limits(c), Open(c)
    PROVE  Limits(c)'
<1>1. run \in [Clients -> Run] /\ Line(c) /\ run[c].at = "opening"
  BY DEF CliInv, CliTypeOK, Open
<1>2. CASE pc'[c] = "idle"
  <2>1. run' = [run EXCEPT ![c].at = "working", ![c].todo = Program(run[c].opts)]
    BY <1>2 DEF Open
  <2>2. /\ run'[c].at = "working" /\ run'[c].opts = run[c].opts
        /\ run'[c].todo = Program(run[c].opts)
        /\ run'[c].tries = run[c].tries /\ run'[c].shown = run[c].shown
    BY <1>1, <2>1 DEF Run
  <2>3. "setrandom" \notin Program(run[c].opts)
    BY DEF Program, Entered
  <2>4. run[c].tries = 0 /\ run[c].shown = NoKey /\ run[c].opts.main_operation <= 1
    BY <1>1 DEF Limits, Left, Paid, Told
  <2>5. pc'[c] \notin Awaiting
    BY <1>2 DEF Awaiting
  <2> QED BY <2>2, <2>3, <2>4, <2>5 DEF Limits, Left, Paid, Told
<1>3. CASE pc'[c] # "idle"
  <2>1. pc'[c] = "none"
    BY <1>3 DEF Open, usbk_new, vars, TypeOK
  <2>2. run'[c] = Leaving
    BY <1>1, <1>3 DEF Open
  <2> QED BY <2>1, <2>2, LimitsAtRest
<1> QED BY <1>2, <1>3

(* The process ends, or is done.                                           *)
LEMMA RestLimits ==
    ASSUME TypeOK, CliInv, NEW c \in Clients, Ends(c) \/ Release(c)
    PROVE  Limits(c)'
<1>1. run'[c] \in {Shell, Leaving}
  BY DEF CliInv, CliTypeOK, Ends, Release
<1>2. Ends(c) => pc'[c] = "none"
  BY DEF Ends, Exit, Gone, vars, TypeOK
<1>3. Release(c) => pc'[c] = "none"
  BY DEF Release, usbk_release, TypeOK
<1> QED BY <1>1, <1>2, <1>3, LimitsAtRest

(* The display is the last thing a run does.                               *)
LEMMA ShowInfoLimits ==
    ASSUME CliInv, NEW c \in Clients, Limits(c), ShowInfo(c)
    PROVE  Limits(c)'
<1>1. run \in [Clients -> Run] /\ run[c].at = "working" /\ pc[c] = "idle"
  BY DEF CliInv, CliTypeOK, ShowInfo, Enters
<1>2. run' = [run EXCEPT ![c].todo = run[c].todo \ {"info"}]
  BY DEF ShowInfo
<1>3. /\ run'[c].at = "working" /\ run'[c].opts = run[c].opts
      /\ run'[c].todo = run[c].todo \ {"info"} /\ run'[c].tries = run[c].tries
      /\ run'[c].shown = run[c].shown /\ run'[c].disturbed = run[c].disturbed
  BY <1>1, <1>2 DEF Run
<1>4. pc' = pc /\ random_key' = random_key /\ pc[c] \notin Awaiting
  BY <1>1 DEF ShowInfo, usbk_refreshusbkinfo, Awaiting
<1>5. key_size(c)' = key_size(c)
  BY <1>3 DEF key_size
<1>6. Left(c)'
  BY <1>1, <1>3 DEF Limits, Left
<1>7. Paid(c)'
  <2>1. run'[c].todo \ {"info"} # {} => run[c].todo \ {"info"} # {}
    BY <1>3
  <2> QED BY <1>1, <1>3, <1>4, <2>1 DEF Limits, Paid
<1>8. Told(c)'
  <2>1. {"random", "setrandom"} \cap run'[c].todo # {}
          => {"random", "setrandom"} \cap run[c].todo # {}
    BY <1>3
  <2> QED BY <1>1, <1>3, <1>4, <1>5, <2>1 DEF Limits, Told
<1> QED BY <1>6, <1>7, <1>8 DEF Limits

(* A block that makes a call is left, and is not the display.              *)
LEMMA CallingBlock ==
    ASSUME NEW c \in Clients, Line(c), Calls(c)
    PROVE  /\ Block(c) \in run[c].todo /\ Block(c) # "info"
           /\ run[c].at = "working" /\ pc[c] = "idle"
           /\ Block(c) = "random" => random(c)
           /\ Block(c) = "setrandom" => setrandom(c)
<1>1. PICK b \in {"activate", "deactivate", "password", "label", "key", "random",
                  "setrandom", "name", "enable", "disable"} :
        /\ Enters(c, b)
        /\ b = "random" => random(c)
        /\ b = "setrandom" => setrandom(c)
  BY DEF Calls, activate, deactivate, password, label, key, random, setrandom, name,
     enable, disable
<1>2. Block(c) = b
  BY <1>1 DEF Enters
<1> QED BY <1>1, <1>2, EntersLeft DEF Enters

(* The call that makes a key costs no password try, and is not made        *)
(* without a size.                                                         *)
LEMMA RandomCall ==
    ASSUME TypeOK, NEW c \in Clients, random(c)
    PROVE  /\ Counted(c) = run[c].tries
           /\ pc'[c] \in Awaiting => key_size(c) # KEYSIZE_NULL
<1>1. CASE key_size(c) = KEYSIZE_NULL
  <2>1. Return(c, "status", USBK_LO_INVALID_KEYSIZE) /\ pc[c] = "idle"
    BY <1>1 DEF random, usbk_getrandomkey
  <2>2. dev' = dev /\ pc' = pc
    BY <2>1 DEF Return
  <2> QED BY <2>1, <2>2, CountedOnce DEF Awaiting
<1>2. CASE key_size(c) # KEYSIZE_NULL
  <2>1. Send(c, "status", Zeroed(GENERATE_KEY))
    BY <1>2 DEF random, usbk_getrandomkey
  <2>2. dev' \in Executed(dev, Zeroed(GENERATE_KEY)) \/ dev' = dev
    BY <2>1 DEF Send
  <2>3. dev'.retry = dev.retry /\ dev'.password = dev.password
    BY <2>2, GenerateIsFree DEF TypeOK
  <2> QED BY <1>2, <2>3, CountedOnce
<1> QED BY <1>1, <1>2

(* The command that sets the random key carries it.                        *)
LEMMA SetRandomCall ==
    ASSUME TypeOK, NEW c \in Clients, Line(c), key_size(c) # KEYSIZE_NULL,
           setrandom(c), pc'[c] \in Awaiting
    PROVE  /\ sent'[c].cmd.keyno = Byte(run[c].opts.key)
           /\ sent'[c].cmd.options = SETKEY_NAME_AND_KEY
           /\ sent'[c].cmd.key = random_key[c]
<1>1. SetKey(c, "status", parola(c), key_no(c), Null, key_size(c), random_key[c])
  BY DEF setrandom, usbk_setkey_hex, usbk_setkey_keyname
<1>2. key_no(c) \in KeyNumbers
  BY EntersLeft, ArgumentsTaken DEF setrandom
<1>3. key_no(c) \in 0 .. 255
  BY <1>2, KeyNumbersAssumption
<1>4. \A n \in 0 .. 255 : Byte(n) = n
  BY DEF Byte
<1>5. Byte(key_no(c)) = Byte(run[c].opts.key)
  BY <1>3, <1>4 DEF key_no
<1> QED BY <1>1, <1>5, SetKeySets

(* A call that is over at once did its block, and showed nothing.          *)
LEMMA RefusedLimits ==
    ASSUME TypeOK, CliInv, NEW c \in Clients, Limits(c), Calls(c),
           pc'[c] = "idle", Returned(c)
    PROVE  Limits(c)'
<1>1. run \in [Clients -> Run] /\ Line(c) /\ Left(c) /\ Paid(c) /\ Told(c)
  BY DEF CliInv, CliTypeOK, Limits
<1>2. /\ Block(c) \in run[c].todo /\ Block(c) # "info"
      /\ run[c].at = "working" /\ pc[c] = "idle" /\ pc[c] \notin Awaiting
  BY <1>1, CallingBlock DEF Awaiting
<1>3. handle'[c].lastopr # USBK_LO_PASS /\ random_key'[c] = random_key[c]
  BY <1>1, CallsAreCalls, NotYetPass, CallKeepsKey
<1>4. /\ run'[c].at = run[c].at /\ run'[c].opts = run[c].opts
      /\ run'[c].todo = run[c].todo \ {Block(c)}
      /\ run'[c].shown = run[c].shown /\ run'[c].tries = Counted(c)
      /\ run[c].disturbed => run'[c].disturbed
      /\ key_size(c)' = key_size(c)
  BY <1>1, <1>3, ReturnedIs DEF Following, Shows
<1>5. pc'[c] \notin Awaiting
  BY DEF Awaiting
<1>6. Left(c)'
  BY <1>1, <1>4 DEF Left
<1>7. Paid(c)'
  <2>1. CASE {"x", "X"} \subseteq run[c].opts.flags
    BY <1>2, <1>4, <2>1 DEF Paid
  <2>2. CASE ~({"x", "X"} \subseteq run[c].opts.flags)
    <3>1. run[c].todo \subseteq {Block(c), "info"}
      BY <1>1, <1>2, <2>2, OneLeft
    <3>2. run'[c].todo \ {"info"} = {}
      BY <1>4, <3>1
    <3>3. run[c].tries = 0
      BY <1>1, <1>2, <2>2 DEF Paid
    <3>4. Counted(c) <= 1
      BY <3>3, CountedOnce
    <3> QED BY <1>2, <1>4, <1>5, <3>2, <3>4 DEF Paid
  <2> QED BY <2>1, <2>2
<1>8. Told(c)'
  <2>1. {"random", "setrandom"} \cap run'[c].todo # {}
          => {"random", "setrandom"} \cap run[c].todo # {}
    BY <1>4
  <2> QED BY <1>1, <1>2, <1>3, <1>4, <1>5, <2>1 DEF Told
<1> QED BY <1>6, <1>7, <1>8 DEF Limits

(* A call that waits has cost one try at most, and none if it makes a key. *)
LEMMA WaitingLimits ==
    ASSUME TypeOK, CliInv, NEW c \in Clients, Limits(c), Calls(c),
           pc'[c] \in Awaiting, run' = [run EXCEPT ![c].tries = Counted(c)]
    PROVE  Limits(c)'
<1>1. run \in [Clients -> Run] /\ Line(c) /\ Left(c) /\ Paid(c) /\ Told(c)
  BY DEF CliInv, CliTypeOK, Limits
<1>2. /\ Block(c) \in run[c].todo /\ Block(c) # "info"
      /\ run[c].at = "working" /\ pc[c] = "idle" /\ pc[c] \notin Awaiting
  BY <1>1, CallingBlock DEF Awaiting
<1>3. random_key'[c] = random_key[c]
  BY <1>1, CallsAreCalls, CallKeepsKey DEF Awaiting
<1>4. /\ run'[c].at = run[c].at /\ run'[c].opts = run[c].opts
      /\ run'[c].todo = run[c].todo /\ run'[c].shown = run[c].shown
      /\ run'[c].disturbed = run[c].disturbed /\ run'[c].tries = Counted(c)
      /\ Block(c)' = Block(c) /\ key_size(c)' = key_size(c)
  BY <1>1, WaitingIs
<1>5. Left(c)'
  BY <1>1, <1>4 DEF Left
<1>6. Paid(c)'
  <2>1. CASE {"x", "X"} \subseteq run[c].opts.flags
    BY <1>2, <1>4, <2>1 DEF Paid
  <2>2. CASE ~({"x", "X"} \subseteq run[c].opts.flags)
    <3>1. run[c].tries = 0
      BY <1>1, <1>2, <2>2 DEF Paid
    <3>2. Counted(c) <= 1
      BY <3>1, CountedOnce
    <3>3. Block(c) = "random" => Counted(c) = 0
      BY <1>1, <3>1, CallingBlock, RandomCall
    <3> QED BY <1>2, <1>4, <3>2, <3>3 DEF Paid
  <2> QED BY <2>1, <2>2
<1>7. Told(c)'
  <2>1. Block(c) = "random" => key_size(c) # KEYSIZE_NULL
    BY <1>1, CallingBlock, RandomCall
  <2>2. Block(c) = "setrandom" =>
          /\ sent'[c].cmd.keyno = Byte(run[c].opts.key)
          /\ sent'[c].cmd.options = SETKEY_NAME_AND_KEY
          /\ sent'[c].cmd.key = random_key[c]
    BY <1>1, <1>2, CallingBlock, SetRandomCall DEF Told
  <2> QED BY <1>1, <1>2, <1>3, <1>4, <2>1, <2>2 DEF Told
<1> QED BY <1>5, <1>6, <1>7 DEF Limits

(* A block that makes its call.                                            *)
LEMMA CallsLimits ==
    ASSUME TypeOK, CliInv, NEW c \in Clients, Limits(c), Calls(c)
    PROVE  Limits(c)'
<1>1. CASE pc'[c] = "none" /\ run' = [run EXCEPT ![c] = Shell]
  BY <1>1, LimitsAtRest DEF CliInv, CliTypeOK
<1> QED BY <1>1, RefusedLimits, WaitingLimits DEF Calls, Progress

(* The status read: the buffer changes only when a key was made, and then  *)
(* it holds a key of the device, unless others came between.               *)
LEMMA StatusReads ==
    ASSUME TypeOK, StatusStillMine, AnswerKept, NEW c \in Clients, Line(c), commandstatus(c)
    PROVE  /\ pc'[c] = "idle" /\ dev' = dev
           /\ Block(c) # "random" => random_key'[c] = random_key[c]
           /\ Block(c) = "random" /\ handle'[c].lastopr = USBK_LO_PASS
                => sent[c].disturbed \/ random_key'[c] \in DeviceKeys
<1>1. PICK io \in send_scsi_command(plugged, fds[c]) :
        Finish(c, io, StatusCode(c, io), StatusRetry(c, io), StatusKey(c, StatusCode(c, io)))
  BY DEF commandstatus
<1>2. /\ pc'[c] = "idle" /\ dev' = dev
      /\ random_key'[c] = StatusKey(c, StatusCode(c, io))
  BY <1>1 DEF Finish, TypeOK
<1>3. handle'[c].lastopr = StatusCode(c, io)
  <2>1. handle[c] \in Handle
    BY DEF TypeOK
  <2>2. handle'[c] = [handle[c] EXCEPT !.lastopr = StatusCode(c, io),
                                       !.retry_num = StatusRetry(c, io)]
    BY <1>1 DEF Finish, TypeOK
  <2> QED BY <2>1, <2>2 DEF Handle
<1>4. pc[c] \in Awaiting
  BY DEF commandstatus
<1>5. ASSUME Block(c) = "random", StatusCode(c, io) = 0, ~sent[c].disturbed
      PROVE  random_key'[c] \in DeviceKeys
  <2>1. sent[c].cmd.op = GENERATE_KEY
    BY <1>4, <1>5, WaitingBlock
  <2>2. random_key'[c] = sent[c].key
    BY <1>2, <1>5, <2>1 DEF StatusKey, USBK_LO_PASS
  <2>3. dev.lastop \in 1 .. 10
    BY DEF TypeOK, Device, OPRS
  <2>4. dev.lastop = OPRS_PASS
    <3>1. CASE io.rtn < 0
      BY <1>5, <3>1 DEF StatusCode, Outcome, USBK_LO_SCSI_ERROR
    <3>2. CASE ~(io.rtn < 0)
      BY <1>5, <2>3, <3>2 DEF StatusCode, Outcome, OPRS_PASS
    <3> QED BY <3>1, <3>2
  <2>5. sent[c].verdict = OPRS_PASS
    BY <1>4, <1>5, <2>4 DEF StatusStillMine
  <2> QED BY <1>4, <2>1, <2>2, <2>5 DEF AnswerKept, Answers, GeneratedKeys
<1>6. Block(c) # "random" => random_key'[c] = random_key[c]
  BY <1>2, <1>4, WaitingBlock DEF StatusKey
<1> QED BY <1>2, <1>3, <1>5, <1>6 DEF USBK_LO_PASS

(* A key was made: setting it is left, and may cost the try of this run.   *)
LEMMA MadeLimits ==
    ASSUME TypeOK, StatusStillMine, AnswerKept, CliInv, NEW c \in Clients, Limits(c),
           Status(c), Block(c) = "random", handle'[c].lastopr = USBK_LO_PASS
    PROVE  Limits(c)'
<1>1. run \in [Clients -> Run] /\ Line(c) /\ Left(c) /\ Paid(c) /\ Told(c)
  BY DEF CliInv, CliTypeOK, Limits
<1>2. /\ commandstatus(c) /\ Returned(c) /\ run[c].at = "working" /\ pc[c] \in Awaiting
  BY DEF Status, commandstatus
<1>3. "random" \in run[c].todo
  BY <1>1, <1>2, WaitingBlock
<1>4. /\ run'[c].at = run[c].at /\ run'[c].opts = run[c].opts
      /\ run'[c].todo = (run[c].todo \ {"random"}) \cup {"setrandom"}
      /\ run'[c].shown = run[c].shown /\ run'[c].tries = Counted(c)
      /\ run'[c].disturbed = (run[c].disturbed \/ sent[c].disturbed)
      /\ key_size(c)' = key_size(c)
  BY <1>1, <1>2, ReturnedIs DEF Following, Shows
<1>5. pc'[c] \notin Awaiting /\ Counted(c) = run[c].tries
  BY <1>1, <1>2, StatusReads, CountedOnce DEF Awaiting
<1>6. Left(c)'
  BY <1>1, <1>2, <1>4 DEF Left
<1>7. Paid(c)'
  BY <1>1, <1>2, <1>4, <1>5 DEF Paid
<1>8. Told(c)'
  <2>1. sent[c].disturbed \/ random_key'[c] \in DeviceKeys
    BY <1>1, <1>2, StatusReads
  <2>2. run[c].shown = NoKey /\ key_size(c) # KEYSIZE_NULL
    BY <1>1, <1>2, <1>3 DEF Told
  <2> QED BY <1>2, <1>4, <1>5, <2>1, <2>2 DEF Told
<1> QED BY <1>6, <1>7, <1>8 DEF Limits

(* Any other result ends the block: nothing but the display is left.       *)
LEMMA DoneLimits ==
    ASSUME TypeOK, StatusStillMine, AnswerKept, CliInv, NEW c \in Clients, Limits(c),
           Status(c), ~(Block(c) = "random" /\ handle'[c].lastopr = USBK_LO_PASS)
    PROVE  Limits(c)'
<1>1. run \in [Clients -> Run] /\ Line(c) /\ Left(c) /\ Paid(c) /\ Told(c)
  BY DEF CliInv, CliTypeOK, Limits
<1>2. /\ commandstatus(c) /\ Returned(c) /\ run[c].at = "working" /\ pc[c] \in Awaiting
  BY DEF Status, commandstatus
<1>3. Block(c) \in run[c].todo /\ Block(c) # "info"
  BY <1>1, <1>2, WaitingBlock
<1>4. /\ run'[c].at = run[c].at /\ run'[c].opts = run[c].opts
      /\ run'[c].todo = run[c].todo \ {Block(c)}
      /\ Block(c) # "setrandom" => run'[c].shown = run[c].shown
      /\ run'[c].tries = Counted(c)
      /\ run[c].disturbed => run'[c].disturbed
      /\ key_size(c)' = key_size(c)
  BY <1>1, <1>2, ReturnedIs DEF Following, Shows
<1>5. pc'[c] \notin Awaiting /\ Counted(c) = run[c].tries
  BY <1>1, <1>2, StatusReads, CountedOnce DEF Awaiting
<1>6. Left(c)'
  BY <1>1, <1>4 DEF Left
<1>7. Paid(c)'
  <2>1. CASE {"x", "X"} \subseteq run[c].opts.flags
    BY <1>2, <1>4, <2>1 DEF Paid
  <2>2. CASE ~({"x", "X"} \subseteq run[c].opts.flags)
    <3>1. run[c].todo \subseteq {Block(c), "info"}
      BY <1>1, <1>2, <1>3, <2>2, OneLeft
    <3>2. run'[c].todo \ {"info"} = {}
      BY <1>4, <3>1
    <3> QED BY <1>1, <1>2, <1>4, <1>5, <2>2, <3>2 DEF Paid
  <2> QED BY <2>1, <2>2
<1>8. Told(c)'
  <2>1. CASE Block(c) = "setrandom"
    <3>1. {"random", "setrandom"} \cap run'[c].todo = {}
      BY <1>1, <1>3, <1>4, <2>1 DEF Left
    <3> QED BY <1>2, <1>4, <1>5, <3>1 DEF Told
  <2>2. CASE Block(c) # "setrandom"
    <3>1. {"random", "setrandom"} \cap run'[c].todo # {}
            => {"random", "setrandom"} \cap run[c].todo # {}
      BY <1>4
    <3>2. "setrandom" \in run'[c].todo => Block(c) # "random" /\ "setrandom" \in run[c].todo
      BY <1>1, <1>3, <1>4 DEF Left
    <3>3. Block(c) # "random" => random_key'[c] = random_key[c]
      BY <1>1, <1>2, StatusReads
    <3> QED BY <1>1, <1>2, <1>4, <1>5, <2>2, <3>1, <3>2, <3>3 DEF Told
  <2> QED BY <2>1, <2>2
<1> QED BY <1>6, <1>7, <1>8 DEF Limits

(* So every step keeps the limits of every terminal.                       *)
AllLimits == \A c \in Clients : Limits(c)

LEMMA LimitsStep == IInv /\ AllLimits /\ [CliNext]_allVars => AllLimits'
<1> SUFFICES ASSUME IInv, AllLimits, [CliNext]_allVars PROVE AllLimits'
  OBVIOUS
<1>1. TypeOK /\ StatusStillMine /\ AnswerKept /\ CliInv /\ CliTypeOK
  BY DEF IInv, CliInv
<1>2. ASSUME NEW c \in Clients, Start(c) \/ Main(c) \/ Killed(c) PROVE AllLimits'
  <2>1. Limits(c)
    BY DEF AllLimits
  <2>2. Limits(c)'
    BY <1>1, <1>2, <2>1, StartLimits, OpenLimits, RestLimits, ShowInfoLimits, CallsLimits,
       MadeLimits, DoneLimits DEF Main, Leave, Killed
  <2>3. ClientStep(c) \/ UNCHANGED vars
    <3>1. Calls(c) => Call(c)
      BY <1>1, CallsAreCalls DEF CliInv
    <3> QED BY <1>2, <3>1 DEF Main, Start, Open, Status, ShowInfo, Release, Leave, Killed,
            Ends, ClientStep
  <2>4. ASSUME NEW x \in Clients, x # c PROVE Limits(x)'
    <3>1. run'[x] = run[x]
      BY <1>1, <1>2, <2>4, GlobalsApart
    <3>2. UNCHANGED vars => Undone(x)
      BY DEF vars, Undone
    <3>3. Undone(x)
      BY <1>1, <2>3, <2>4, <3>2, OthersKeep
    <3> QED BY <3>1, <3>3, LimitsKept DEF AllLimits
  <2> QED BY <2>2, <2>4 DEF AllLimits
<1>3. CASE Surroundings
  <2>1. \A c \in Clients : Undone(c)
    BY <1>1, <1>3, DisturbedCarries DEF Surroundings, Unplug, Replug, Undone
  <2>2. run' = run
    BY <1>3 DEF Surroundings
  <2> QED BY <2>1, <2>2, LimitsKept DEF AllLimits
<1>4. CASE UNCHANGED allVars
  <2>1. run' = run /\ \A c \in Clients : Undone(c)
    BY <1>4 DEF allVars, vars, Undone
  <2> QED BY <2>1, LimitsKept DEF AllLimits
<1> QED BY <1>2, <1>3, <1>4 DEF CliNext

(* They hold before anything runs, and so always.                          *)
LEMMA LimitsAlways == CliSpec => [](IInv /\ AllLimits)
<1>1. CliInit => AllLimits
  <2> SUFFICES ASSUME CliInit, NEW c \in Clients PROVE Limits(c)
    BY DEF AllLimits
  <2>1. run[c] = Shell /\ pc[c] = "none"
    BY DEF CliInit, Init
  <2>2. /\ run[c].at = "shell" /\ run[c].todo = {} /\ run[c].tries = 0
        /\ run[c].shown = NoKey
    BY <2>1 DEF Shell
  <2> QED BY <2>1, <2>2 DEF Limits, Left, Paid, Told, Awaiting
<1>2. CliSpec => []AllLimits
  BY <1>1, IInvAlways, LimitsStep, PTL DEF CliSpec
<1> QED BY <1>2, IInvAlways, PTL

(* One run performs one main operation at most, for every command line but *)
(* one with -x, -X and -m all on it.                                       *)
THEOREM OneMainOperationAlways == CliSpec => []OneMainOperation
<1>1. IInv /\ AllLimits => OneMainOperation
  <2> SUFFICES ASSUME IInv, AllLimits, NEW c \in Clients,
                      ~({"m", "x", "X"} \subseteq run[c].opts.flags)
               PROVE  Cardinality(run[c].todo \ {"info"}) <= 1
    BY DEF OneMainOperation
  <2>1. Line(c) /\ Left(c)
    BY DEF IInv, CliInv, AllLimits, Limits
  <2>2. CASE run[c].todo \ {"info"} = {}
    <3>1. Cardinality({}) = 0
      BY FS_EmptySet
    <3> QED BY <2>2, <3>1
  <2>3. CASE run[c].todo \ {"info"} # {}
    <3>1. PICK b \in run[c].todo : b # "info"
      BY <2>3
    <3>2. run[c].at = "working"
      BY <2>1, <2>3 DEF Line
    <3>3. run[c].todo \subseteq {b, "info"}
      BY <2>1, <3>1, <3>2, OneLeft
    <3>4. run[c].todo \ {"info"} = {b}
      BY <3>1, <3>3
    <3>5. Cardinality({b}) = 1
      BY FS_Singleton
    <3> QED BY <3>4, <3>5
  <2> QED BY <2>2, <2>3
<1> QED BY <1>1, LimitsAlways, PTL

(* One run costs one password try at most, whatever fails in it, for every *)
(* command line but one that has both -x and -X.                           *)
THEOREM OneTryAlways == CliSpec => []OneTry
<1>1. AllLimits => OneTry
  BY DEF AllLimits, Limits, Paid, OneTry
<1> QED BY <1>1, LimitsAlways, PTL

(* The key that -X prints is the new key of the device, and one it made    *)
(* unless others came between; without `Pass.' none is shown.              *)
THEOREM RandomKeyAlwaysTold == CliSpec => RandomKeyTold
<1> DEFINE Prints(c) == /\ run[c].at = "working" /\ run'[c].at = "working"
                        /\ Block(c) \in {"random", "setrandom"}
                        /\ run'[c].printed # run[c].printed
           Tells(c) == IF PrintsPass(c)
                       THEN /\ run'[c].shown = dev.keys[Byte(run[c].opts.key)]
                            /\ run'[c].disturbed \/ run'[c].shown \in DeviceKeys
                       ELSE sent[c].disturbed \/ run'[c].shown = NoKey
           Step == \A c \in Clients :
             run[c].at = "working" /\ run'[c].at = "working"
               /\ Block(c) \in {"random", "setrandom"} /\ run'[c].printed # run[c].printed
             => IF PrintsPass(c)
                THEN /\ run'[c].shown = dev.keys[Byte(run[c].opts.key)]
                     /\ run'[c].disturbed \/ run'[c].shown \in DeviceKeys
                ELSE sent[c].disturbed \/ run'[c].shown = NoKey
<1>1. ASSUME IInv, AllLimits, [CliNext]_allVars, NEW c \in Clients, Prints(c)
      PROVE  Tells(c)
  <2>1. /\ TypeOK /\ StatusStillMine /\ AnswerKept /\ CliTypeOK /\ Line(c)
        /\ run \in [Clients -> Run] /\ Left(c) /\ Told(c)
    BY <1>1 DEF IInv, CliInv, CliTypeOK, AllLimits, Limits
  <2>2. Start(c) \/ Main(c) \/ Killed(c)
    BY <1>1, <2>1, OwnStep
  <2>3. Calls(c) \/ Status(c)
    <3>1. ~Ends(c)
      BY <1>1, <2>1 DEF Ends, Shell
    <3>2. ~Start(c) /\ ~Open(c) /\ ~ShowInfo(c) /\ ~Release(c)
      BY <1>1 DEF Start, Open, ShowInfo, Release, Enters
    <3> QED BY <2>2, <3>1, <3>2 DEF Main, Leave, Killed
  <2>4. CASE Calls(c)
    <3>1. Block(c) \in run[c].todo /\ pc[c] = "idle"
      BY <2>1, <2>4, CallingBlock
    <3>2. ~PrintsPass(c)
      BY <3>1 DEF PrintsPass, Awaiting
    <3>3. pc'[c] = "idle" /\ Returned(c)
      <4>1. run' # [run EXCEPT ![c] = Shell]
        BY <1>1, <2>1 DEF Shell
      <4>2. run' # [run EXCEPT ![c].tries = Counted(c)]
        BY <1>1, <2>1, WaitingIs
      <4> QED BY <2>4, <4>1, <4>2 DEF Calls, Progress
    <3>4. handle'[c].lastopr # USBK_LO_PASS
      BY <2>1, <2>4, <3>3, CallsAreCalls, NotYetPass
    <3>5. run'[c].shown = run[c].shown
      BY <2>1, <3>3, <3>4, ReturnedIs DEF Shows
    <3>6. run[c].shown = NoKey
      BY <1>1, <2>1, <3>1 DEF Told
    <3> QED BY <3>2, <3>5, <3>6
  <2>5. CASE Status(c)
    <3>1. commandstatus(c) /\ Returned(c) /\ pc[c] \in Awaiting
      BY <2>5 DEF Status, commandstatus
    <3>2. Block(c) \in run[c].todo
      BY <2>1, <3>1, WaitingBlock
    <3>3. run[c].shown = NoKey
      BY <1>1, <2>1, <3>2 DEF Told
    <3>4. ~(Block(c) = "random" /\ handle'[c].lastopr = USBK_LO_PASS)
      BY <1>1, <2>1, <3>1, ReturnedIs
    <3>5. CASE PrintsPass(c)
      <4>1. handle'[c].lastopr = USBK_LO_PASS /\ Block(c) = "setrandom"
        BY <1>1, <2>1, <3>4, <3>5, PrintedIsRead
      <4>2. random_key'[c] = random_key[c] /\ run'[c].shown = random_key'[c]
            /\ (run[c].disturbed => run'[c].disturbed)
        BY <2>1, <3>1, <4>1, StatusReads, ReturnedIs DEF Shows
      <4>3. Applied(dev, sent[c].cmd)
        BY <1>1, <3>5, PassedTookEffect
      <4>4. /\ sent[c].cmd.op = SET_KEY /\ sent[c].cmd.keyno = Byte(run[c].opts.key)
            /\ sent[c].cmd.options = SETKEY_NAME_AND_KEY
            /\ sent[c].cmd.key = random_key[c]
        BY <2>1, <3>1, <4>1, WaitingBlock DEF Serves, Told
      <4>5. dev.keys[Byte(run[c].opts.key)] = random_key[c]
        BY <4>3, <4>4 DEF Applied, ACTIVATE_KEY, DEACTIVATE_KEY, CHANGE_PASS, SET_DEV_NAME,
           SET_AUTO_ACTIVE, SET_KEY, GENERATE_KEY
      <4>6. run[c].disturbed \/ random_key[c] \in DeviceKeys
        BY <2>1, <3>2, <4>1 DEF Told
      <4> QED BY <3>5, <4>2, <4>5, <4>6
    <3>6. CASE ~PrintsPass(c) /\ ~sent[c].disturbed
      <4>1. run'[c].printed # Append(run[c].printed, USBK_LO_PASS)
        BY <1>1, <3>1, <3>6 DEF PrintsPass
      <4>2. handle'[c].lastopr # USBK_LO_PASS
        <5>1. Message(USBK_LO_PASS) = USBK_LO_PASS
          BY DEF Message, USBK_LO, USBK_LO_PASS, USBK_LO_INVALID_PASS
        <5>2. run'[c].printed = Append(run[c].printed, Message(handle'[c].lastopr))
          BY <2>1, <3>1, <3>4, ReturnedIs
        <5> QED BY <4>1, <5>1, <5>2
      <4>3. run'[c].shown = run[c].shown
        BY <2>1, <3>1, <4>2, ReturnedIs DEF Shows
      <4> QED BY <3>3, <3>6, <4>3
    <3> QED BY <3>5, <3>6
  <2> QED BY <2>3, <2>4, <2>5
<1>2. IInv /\ AllLimits /\ [CliNext]_allVars => [Step]_allVars
  BY <1>1
<1> HIDE DEF Step
<1>3. CliSpec => [][Step]_allVars
  BY <1>2, LimitsAlways, PTL DEF CliSpec
<1> QED BY <1>3 DEF RandomKeyTold, Step

=============================================================================
