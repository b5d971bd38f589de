------------------------------ MODULE UsbkCli -------------------------------
(***************************************************************************)
(* The program usbk as a client of the library: main and print_result of   *)
(* usbk_cli/src/main.cpp over the calls of LibUsbk.                        *)
(*                                                                         *)
(* Every client is a terminal in which usbk is run again and again.  One   *)
(* run parses its command line, may end at once, opens the device, enters  *)
(* the blocks its options ask for one after the other, and ends; every     *)
(* block makes one call or, for a random key, two, and prints the result.  *)
(* Runs in several terminals meet at the device, which may be unplugged at *)
(* any time.  Each step that touches the device is a step of LibUsbk.      *)
(***************************************************************************)
EXTENDS LibUsbk, UsbkOptions

CONSTANT CommandLines   \* the command lines that may be typed

ParsedLines == {_parse_options(line) : line \in CommandLines}

(* What is typed is among the values the library is called with: a line is *)
(* a sequence of options, with an argument of its own kind where an option *)
(* takes one.                                                              *)
ASSUME LinesAssumption ==
    \A line \in CommandLines :
        /\ line \in Seq(Range(line))
        /\ \A option \in Range(line) :
              /\ option.letter = "p" => option.arg \in Passwords
              /\ option.letter = "c" => option.arg \in AllPasswords
              /\ option.letter = "n" => option.arg \in Labels
              /\ option.letter = "m" => option.arg \in KeyNames
              /\ option.letter = "x" => option.arg \in UserKeys \cup {JunkKey}
              /\ option.letter = "k" => Byte(option.arg) \in KeyNumbers \cap IntKeyNumbers
              /\ option.letter = "F" => parse_keysize(option.arg) \in KeySizes

(* So are the presets of -k and -F.                                        *)
ASSUME PresetsAssumption ==
    1 \in KeyNumbers \cap IntKeyNumbers /\ KEYSIZE_256BIT \in KeySizes

(* -T asks for key number 0, a name is set with no size and some key.      *)
ASSUME ArgumentsAssumption ==
    0 \in IntKeyNumbers /\ KEYSIZE_NULL \in KeySizes /\ UserKeys # {}

(* No name is the NULL pointer, and no key that the device makes is the    *)
(* one that stands for a buffer nobody wrote.                              *)
ASSUME DistinctAssumption ==
    Null \notin KeyNames /\ JunkKey \notin DeviceKeys \cup {NoKey}

VARIABLE run        \* run[c]: the globals and the place of main in terminal c

allVars == <<vars, run>>

(* at:        "shell": not running; else where main is;                    *)
(* opts:      what the options said;                                       *)
(* todo:      blocks of main still to enter;                               *)
(* printed:   the results print_result printed in this run;                *)
(* shown:     the random key printed in this run, or NoKey;                *)
(* tries:     history, wrong passwords the device counted in this run;     *)
(* disturbed: history, the device was used by others, or plugged again,    *)
(*            between the two exchanges of a call of this run.             *)
Shell == [at        |-> "shell",
          opts      |-> Defaults,
          todo      |-> {},
          printed   |-> << >>,
          shown     |-> NoKey,
          tries     |-> 0,
          disturbed |-> FALSE]

(* Nothing is left to do or to say.                                        *)
Leaving == [Shell EXCEPT !.at = "leaving"]

CliInit == Init /\ run = [c \in Clients |-> Shell]

-----------------------------------------------------------------------------
(* What main hands to the library                                          *)

(* Every call main makes takes the key number as a uint8_t.                *)
key_no(c)   == Byte(run[c].opts.key)
key_size(c) == parse_keysize(run[c].opts.key_size)
parola(c)   == run[c].opts.parola

(* A password that was not given is NULL, and a zeroed field of CHANGE_PASS. *)
old_password(c) == IF parola(c) = Unset THEN NoPassword ELSE parola(c)

-----------------------------------------------------------------------------
(* Starting and leaving                                                    *)

(* Options are parsed and checked before the device is touched; a line     *)
(* that is not accepted ends the run with a message.                       *)
Start(c) ==
    /\ run[c].at = "shell"
    /\ \E o \in ParsedLines, superuser \in BOOLEAN :
          /\ Proceeds(o, superuser)
          /\ run' = [run EXCEPT ![c].at = "opening", ![c].opts = o]
    /\ UNCHANGED vars

(* Variant: the result of usbk_new not looked at.                          *)
Open_Unchecked(c) ==
    /\ run[c].at = "opening"
    /\ usbk_new(c)
    /\ run' = [run EXCEPT ![c].at = "working", ![c].todo = Program(run[c].opts)]

(* usbk_new; without a handle the program says so and ends.                *)
Open(c) ==
    /\ run[c].at = "opening"
    /\ usbk_new(c)
    /\ run' = IF pc'[c] = "idle"
              THEN [run EXCEPT ![c].at = "working", ![c].todo = Program(run[c].opts)]
              ELSE [run EXCEPT ![c] = Leaving]

(* What main does next: the first of the blocks that are left.             *)
FirstOf(blocks) ==
    Blocks[CHOOSE i \in DOMAIN Blocks :
             /\ Blocks[i] \in blocks
             /\ \A j \in DOMAIN Blocks : j < i => Blocks[j] \notin blocks]

Block(c) == IF run[c].todo = {} THEN "release" ELSE FirstOf(run[c].todo)

Enters(c, block) ==
    run[c].at = "working" /\ pc[c] = "idle" /\ Block(c) = block

Release(c) ==
    /\ Enters(c, "release")
    /\ usbk_release(c)
    /\ run' = [run EXCEPT ![c] = Leaving]

(* exit, and a signal, which ends the program anywhere: the kernel closes  *)
(* what send_scsi_command left open.                                       *)
Ends(c) ==
    /\ IF pc[c] # "none" \/ fds[c] > 0 THEN Exit(c) ELSE UNCHANGED vars
    /\ run' = [run EXCEPT ![c] = Shell]

Leave(c)  == run[c].at = "leaving" /\ Ends(c)
Killed(c) == run[c].at \notin {"shell", "leaving"} /\ Ends(c)

-----------------------------------------------------------------------------
(* The blocks                                                              *)

(* Variant: the code as it is.                                             *)
Message_Raw(code) == code

(* What print_result makes of lastopr: a code it has no message for is     *)
(* called a memory error.                                                  *)
Message(code) ==
    IF code \in USBK_LO \ {USBK_LO_INVALID_PASS} THEN code ELSE USBK_LO_MEM_ERROR

(* Variant: the key is shown as soon as the device has made it.            *)
Shows_Generated(block, code) ==
    block \in {"random", "setrandom"} /\ code = USBK_LO_PASS

(* The random key is printed once it is set.                               *)
Shows(block, code) == block = "setrandom" /\ code = USBK_LO_PASS

(* Variant: a block whose exchange failed is entered again.                *)
Following_Retry(todo, block, code) ==
    IF block = "random" /\ code = USBK_LO_PASS THEN (todo \ {block}) \cup {"setrandom"}
    ELSE IF code = USBK_LO_SCSI_ERROR THEN todo
    ELSE todo \ {block}

(* Variant: the result of the generation not looked at.                    *)
Following_Ignored(todo, block, code) ==
    IF block = "random" THEN (todo \ {block}) \cup {"setrandom"} ELSE todo \ {block}

(* What is left to do when a call of the block has returned: a random key  *)
(* has to be set, everything else is done.                                 *)
Following(todo, block, code) ==
    IF block = "random" /\ code = USBK_LO_PASS THEN (todo \ {block}) \cup {"setrandom"}
    ELSE todo \ {block}

(* The device counted a wrong password in this step: its retry number went *)
(* down, or it is erased.                                                  *)
Counted(c) ==
    IF dev'.retry < dev.retry \/ (dev.password # NoPassword /\ dev'.password = NoPassword)
    THEN run[c].tries + 1 ELSE run[c].tries

(* A call of the block is over, with its result in lastopr.                *)
Returned(c) ==
    LET code == handle'[c].lastopr
        set  == Block(c) = "random" /\ code = USBK_LO_PASS
    IN  run' = [run EXCEPT
                  ![c].todo      = Following(@, Block(c), code),
                  ![c].printed   = IF set THEN @ ELSE Append(@, Message(code)),
                  ![c].shown     = IF Shows(Block(c), code) THEN random_key'[c] ELSE @,
                  ![c].tries     = Counted(c),
                  ![c].disturbed = @ \/ sent[c].disturbed]

(* A call is made: it returns at once, or is now waiting for its status,   *)
(* or the process has ended by a fault in it.                              *)
Progress(c) ==
    \/ pc'[c] = "idle" /\ Returned(c)
    \/ pc'[c] \in Awaiting /\ run' = [run EXCEPT ![c].tries = Counted(c)]
    \/ pc'[c] = "none" /\ run' = [run EXCEPT ![c] = Shell]

activate(c)   == Enters(c, "activate")   /\ usbk_activatekey(c, parola(c), key_no(c))
deactivate(c) == Enters(c, "deactivate") /\ usbk_deactivatekey(c)

(* Variant: the arguments the other way round.                             *)
password_Swapped(c) ==
    Enters(c, "password") /\ usbk_changepassword(c, run[c].opts.new_password, old_password(c))

password(c) ==
    Enters(c, "password") /\ usbk_changepassword(c, old_password(c), run[c].opts.new_password)

label(c) ==
    Enters(c, "label") /\ usbk_setdevicelabel(c, parola(c), run[c].opts.dev_label)

(* Both formats; the text is known here by what it converts to, which is   *)
(* JunkKey when it is no key of the format and the size on the line.       *)
key(c) ==
    /\ Enters(c, "key")
    /\ usbk_setkey_converted(c, parola(c), key_no(c), key_size(c), run[c].opts.string_key)

random(c) == Enters(c, "random") /\ usbk_getrandomkey(c, key_size(c))

setrandom(c) ==
    /\ Enters(c, "setrandom")
    /\ usbk_setkey_hex(c, parola(c), key_no(c), key_size(c), random_key[c])

(* usbk_setkeyname: a name, no size and no key.                            *)
name(c) ==
    /\ Enters(c, "name")
    /\ usbk_setkey_keyname(c, parola(c), key_no(c), run[c].opts.aes_name, KEYSIZE_NULL, NoKey)

enable(c)  == Enters(c, "enable")  /\ usbk_setautact(c, parola(c), key_no(c))
disable(c) == Enters(c, "disable") /\ usbk_setautact(c, parola(c), 0)

Calls(c) ==
    /\ \/ activate(c) \/ deactivate(c) \/ password(c) \/ label(c) \/ key(c)
       \/ random(c) \/ setrandom(c) \/ name(c) \/ enable(c) \/ disable(c)
    /\ Progress(c)

Status(c) == run[c].at = "working" /\ commandstatus(c) /\ Returned(c)

(* Variant: what the handle says is displayed, without reading it again.   *)
ShowInfo_Cached(c) ==
    /\ Enters(c, "info")
    /\ run' = [run EXCEPT ![c].todo = @ \ {"info"}]
    /\ UNCHANGED vars

(* linuxcli_show_dev_info: the refresh may fail, and the handle is         *)
(* displayed all the same.                                                 *)
ShowInfo(c) ==
    /\ Enters(c, "info")
    /\ usbk_refreshusbkinfo(c)
    /\ run' = [run EXCEPT ![c].todo = @ \ {"info"}]

Main(c) == Open(c) \/ Calls(c) \/ Status(c) \/ ShowInfo(c) \/ Release(c) \/ Leave(c)

Surroundings == (Unplug \/ Replug) /\ UNCHANGED run

CliNext == (\E c \in Clients : Start(c) \/ Main(c) \/ Killed(c)) \/ Surroundings

CliSpec == CliInit /\ [][CliNext]_allVars

(* The program is sequential and every exchange it waits for ends within   *)
(* its timeout; the user need not start it, and nothing else is assumed.   *)
FairCliSpec == CliSpec /\ \A c \in Clients : WF_allVars(Main(c))

-----------------------------------------------------------------------------
(* Safety                                                                  *)

Run == [at        : {"shell", "opening", "working", "leaving"},
        opts      : ParsedLines \cup {Defaults},
        todo      : SUBSET Range(Blocks),
        printed   : Seq(USBK_LO),
        shown     : AllKeys,
        tries     : Nat,
        disturbed : BOOLEAN]

CliTypeOK == run \in [Clients -> Run]

(* The program calls the library only with a handle it got and has not     *)
(* released: main looks at the result of usbk_new once, and a call that    *)
(* ends the process leaves neither a handle nor a descriptor behind.       *)
HandleWhileWorking ==
    \A c \in Clients :
        /\ run[c].at = "working" <=> pc[c] # "none"
        /\ pc[c] \in Awaiting => run[c].todo # {}
        /\ run[c].at \in {"shell", "opening"} => fds[c] = 0

(* `Pass.' is printed in this step, about a call nobody disturbed.         *)
PrintsPass(c) ==
    /\ run[c].at = "working" /\ pc[c] \in Awaiting
    /\ ~sent[c].disturbed
    /\ run'[c].printed = Append(run[c].printed, USBK_LO_PASS)

(* What the device is when a block has done what the options that it reads *)
(* ask for, in the words of the program's own help (main.cpp:725-745).     *)
(* The key number is the last byte of the one typed.  Nothing is asked of  *)
(* -x with a size that is none, which sends the name alone, or with a text *)
(* that is no key, which is not refused: MalformedKeyRefused.              *)
Served(o, block, d) ==
    LET slot == Byte(o.key)
    IN  CASE block = "activate"   -> /\ d.state \in {USBK_DS_ACTIVATE,
                                                     USBK_DS_ACTIVATE_WITH_BACKDISK}
                                     /\ d.current = slot
          [] block = "deactivate" -> d.state = USBK_DS_DEACTIVATE
          [] block = "password"   -> d.password = o.new_password
          [] block = "label"      -> /\ d.devlabel = o.dev_label
                                     /\ d.state = USBK_DS_MUST_REMOVE
          [] block = "key"        -> o.key_size \in {128, 192, 256} /\ o.string_key # JunkKey =>
                                       d.keys[slot] = o.string_key
          [] block = "name"       -> d.keynames[slot] = o.aes_name
          [] block = "enable"     -> d.autoact = slot
          [] block = "disable"    -> d.autoact = 0
          [] OTHER                -> TRUE

(* When the program prints `Pass.' about a block, and nobody else used the *)
(* device meanwhile, the device is what the options this block reads ask   *)
(* for: their values reach the right argument of the right call, and the   *)
(* result printed belongs to that call.  It is not all that is on a line:  *)
(* -m next to -x or -X is read by no block (NameSetWithKey), and -t and -T *)
(* are taken as the help has them, not as the manual (AutoAsManual).       *)
PassIsDone ==
    [][\A c \in Clients : PrintsPass(c) => Served(run[c].opts, Block(c), dev)]_allVars

(* -X: the key shown to the user is the device's new key, and a run that   *)
(* shows none has not said `Pass.' of it: no key the user cannot know is   *)
(* set without an error being printed.  The key is one the device made if  *)
(* nobody came between the exchanges that made it; else the status of the  *)
(* generation may be another command's, and the answer blank.              *)
RandomKeyTold ==
    [][\A c \in Clients :
         run[c].at = "working" /\ run'[c].at = "working"
           /\ Block(c) \in {"random", "setrandom"} /\ run'[c].printed # run[c].printed
         => IF PrintsPass(c)
            THEN /\ run'[c].shown = dev.keys[Byte(run[c].opts.key)]
                 /\ run'[c].disturbed \/ run'[c].shown \in DeviceKeys
            ELSE sent[c].disturbed \/ run'[c].shown = NoKey]_allVars

(* One run costs at most one password try, whatever fails in it: the third *)
(* wrong password erases all keys.  The exception is a line that reaches   *)
(* both -x and -X, which the count of main operations lets through.        *)
OneTry ==
    \A c \in Clients : run[c].tries <= 1 \/ {"x", "X"} \subseteq run[c].opts.flags

(* At most one main operation is performed in a run, in whatever order the *)
(* options are given, except when -x, -X and -m are all there: one of them *)
(* before the others hides them from the count.                            *)
OneMainOperation ==
    \A c \in Clients :
        \/ Cardinality(run[c].todo \ {"info"}) <= 1
        \/ {"m", "x", "X"} \subseteq run[c].opts.flags

(* -i displays the device as it is, also right after a command of the same *)
(* run changed it, unless the device could not be read.                    *)
InfoIsFresh ==
    [][\A c \in Clients : Enters(c, "info") /\ run'[c].at = "working" /\ run'[c] # run[c] =>
         \/ Mirrors(handle'[c], DevInfo(dev))
         \/ handle'[c].lastopr = USBK_LO_SCSI_ERROR]_allVars

(* Every step of the program and its surroundings is a step of LibUsbk:    *)
(* the program keeps to what LibUsbk assumes of a client, so what is shown *)
(* of the library holds of the program.                                    *)
FollowsLibrary == Spec

(* Liveness                                                                *)

(* A run ends, whatever happens to the device while it lasts.              *)
ProgramEnds == \A c \in Clients : run[c].at # "shell" ~> run[c].at = "shell"

-----------------------------------------------------------------------------
(* What the documentation says and the code does not do                    *)

(* man/usbk.1:137-138, `To set encrption key and key name', gives -m and   *)
(* -x together: when such a run says `Pass.', the key has its new name.    *)
NameSetWithKey ==
    [][\A c \in Clients :
         PrintsPass(c) /\ {"m", "x"} \subseteq run[c].opts.flags =>
           dev.keynames[Byte(run[c].opts.key)] = run[c].opts.aes_name]_allVars

(* man/usbk.1:93-97: -t `disables autoactivation feature of USBK' and -T   *)
(* `enables' it, so that after a `Pass.' about them it is off and on.      *)
AutoAsManual ==
    [][\A c \in Clients : PrintsPass(c) =>
         /\ Block(c) = "enable"  => dev.autoact = 0
         /\ Block(c) = "disable" => dev.autoact # 0]_allVars

=============================================================================
