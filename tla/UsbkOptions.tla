---------------------------- MODULE UsbkOptions -----------------------------
(***************************************************************************)
(* The command line of the program usbk: _parse_options of main.cpp and    *)
(* what main makes of its result.  The program keeps one flag for every    *)
(* option letter; here they are the set of the letters seen.  A long       *)
(* option counts as its letter, an option getopt_long does not know or     *)
(* whose argument is missing as `?'.                                       *)
(***************************************************************************)
EXTENDS UsbkProtocol, Sequences, SequencesExt

CONSTANT Unset      \* a char pointer that is still NULL

(* An option with its argument; 0 where it takes none.                     *)
Opt(letter, arg) == [letter |-> letter, arg |-> arg]

(* -f: 'd' and 't' as the characters they are.                             *)
FormatDecimal == 100
FormatText    == 116

(* Before the first option: main presets -k, -f and -F.                    *)
Defaults ==
    [flags          |-> {"k", "f", "F"},
     main_operation |-> 0,
     usage_error    |-> FALSE,
     key            |-> 1,
     key_format     |-> FormatDecimal,
     key_size       |-> 256,
     parola         |-> Unset,
     new_password   |-> Unset,
     dev_label      |-> Unset,
     aes_name       |-> Unset,
     string_key     |-> Unset]

(* Options that are a main operation wherever they stand.                  *)
AlwaysMain == {"a", "d", "c", "n", "t", "T", "l", "s"}

(* Variant: -x and -X look at each other, as -m does at both.              *)
Counts_Hidden(o, letter) ==
    \/ letter \in AlwaysMain
    \/ letter \in {"m", "x", "X"} /\ {"m", "x", "X"} \cap o.flags = {}

(* Whether main_operation is incremented: -m belongs to an -x or -X before *)
(* it, an -x or -X to an -m before it.                                     *)
Counts(o, letter) ==
    \/ letter \in AlwaysMain
    \/ letter = "m" /\ {"x", "X"} \cap o.flags = {}
    \/ letter \in {"x", "X"} /\ "m" \notin o.flags

(* The option's value, where it takes one.                                 *)
Valued(o, letter, arg) ==
    CASE letter = "c" -> [o EXCEPT !.new_password = arg]
      [] letter = "n" -> [o EXCEPT !.dev_label = arg]
      [] letter = "m" -> [o EXCEPT !.aes_name = arg]
      [] letter = "x" -> [o EXCEPT !.string_key = arg]
      [] letter = "k" -> [o EXCEPT !.key = arg]
      [] letter = "p" -> [o EXCEPT !.parola = arg]
      [] letter = "f" -> [o EXCEPT !.key_format = arg]
      [] letter = "F" -> [o EXCEPT !.key_size = arg]
      [] OTHER        -> o

(* The option's flag, and whether it counts.                               *)
Flagged(o, letter) ==
    [o EXCEPT !.flags = @ \cup {letter},
              !.main_operation = IF Counts(o, letter) THEN @ + 1 ELSE @]

(* One turn of the option loop.  A wrong format ends the program, so that  *)
(* no later option is looked at.                                           *)
Parsed(o, option) ==
    CASE o.usage_error -> o
      [] option.letter = "f" /\ option.arg \notin {FormatDecimal, FormatText} ->
            [o EXCEPT !.usage_error = TRUE]
      [] OTHER ->
            Valued(Flagged(o, option.letter), option.letter, option.arg)

(* The options after so many turns of the loop.                            *)
Turns(line) ==
    LET turns[n \in 0 .. Len(line)] ==
          IF n = 0 THEN Defaults ELSE Parsed(turns[n - 1], line[n])
    IN  turns

(* The whole loop; without any option the program shows its help.          *)
_parse_options(line) ==
    IF line = << >> THEN [Defaults EXCEPT !.flags = @ \cup {"?"}]
    ELSE Turns(line)[Len(line)]

parse_keysize(size) ==
    CASE size = 128 -> KEYSIZE_128BIT
      [] size = 192 -> KEYSIZE_192BIT
      [] size = 256 -> KEYSIZE_256BIT
      [] OTHER      -> KEYSIZE_NULL

(* main goes on to open the device: every early exit before usbk_new is    *)
(* one of these not holding.  -s ends there too, after listing devices.    *)
Proceeds(o, superuser) ==
    /\ ~o.usage_error
    /\ {"?", "v"} \cap o.flags = {}
    /\ o.main_operation <= 1
    /\ "i" \in o.flags \/ o.main_operation # 0
    /\ superuser
    /\ "s" \notin o.flags
    /\ "u" \in o.flags

(* The blocks of main after usbk_new in their order, and the flags that    *)
(* each of them tests.  The block of a random key makes a second call,     *)
(* which sets the key, after the first one only.  Nothing tests -l.        *)
Blocks == <<"activate", "deactivate", "password", "label", "key", "random",
            "setrandom", "name", "enable", "disable", "info">>

Entered(o, block) ==
    LET given(letters) == letters \subseteq o.flags
    IN  CASE block = "activate"   -> given({"p", "a", "k"})
          [] block = "deactivate" -> given({"d"})
          [] block = "password"   -> given({"c"})
          [] block = "label"      -> given({"p", "n"})
          [] block = "key"        -> given({"p", "x", "k", "F"})
          [] block = "random"     -> given({"p", "X", "k", "F"})
          [] block = "setrandom"  -> FALSE
          [] block = "name"       -> given({"m", "p", "k"}) /\ {"x", "X"} \cap o.flags = {}
          [] block = "enable"     -> given({"p", "t", "k"})
          [] block = "disable"    -> given({"p", "T"})
          [] block = "info"       -> given({"i"})

Program(o) == {b \in Range(Blocks) : Entered(o, b)}

=============================================================================
