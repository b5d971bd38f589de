------------------------- MODULE UsbkOptionsProofs --------------------------
(***************************************************************************)
(* What main knows after its option loop, for every command line: its      *)
(* values are values of the line, and its count of main operations lets at *)
(* most one of them through, but for the options that hide each other.     *)
(***************************************************************************)
EXTENDS UsbkOptions, SequenceTheorems, WellFoundedInduction, TLAPS

(* Induction over the natural numbers, for a set.                          *)
LEMMA NatSet ==
    ASSUME NEW S, 0 \in S, \A n \in Nat : n \in S => n + 1 \in S
    PROVE  \A n \in Nat : n \in S
<1> DEFINE T == Nat \ S
<1>1. SUFFICES ASSUME T # {} PROVE FALSE
  OBVIOUS
<1>2. PICK m \in T : \A j \in T : ~(<<j, m>> \in OpToRel(<, Nat))
  BY <1>1, NatLessThanWellFounded, WFMin
<1>3. m \in Nat /\ m # 0 /\ m \notin S
  BY <1>2
<1>4. m - 1 \in Nat /\ m - 1 < m /\ (m - 1) + 1 = m
  BY <1>3
<1>5. m - 1 \notin T
  BY <1>2, <1>3, <1>4 DEF OpToRel
<1> QED
  BY <1>3, <1>4, <1>5

(* The turns of the option loop, one after the other.                      *)
LEMMA TurnsTaken ==
    ASSUME NEW S, NEW line \in Seq(S)
    PROVE  /\ Turns(line)[0] = Defaults
           /\ \A n \in 1 .. Len(line) : Turns(line)[n] = Parsed(Turns(line)[n - 1], line[n])
<1> DEFINE Loop(t, m) ==
             t = [n \in 0 .. m |-> IF n = 0 THEN Defaults ELSE Parsed(t[n - 1], line[n])]
           Taken == {m \in Nat : \E t : Loop(t, m)}
<1>1. 0 \in Taken
  <2> DEFINE t == [n \in 0 .. 0 |-> Defaults]
  <2>1. Loop(t, 0)
    OBVIOUS
  <2> QED BY <2>1
<1>2. ASSUME NEW m \in Nat, m \in Taken PROVE m + 1 \in Taken
  <2>1. PICK t : Loop(t, m)
    BY <1>2
  <2> DEFINE u == [n \in 0 .. m + 1 |->
                     IF n = 0 THEN Defaults ELSE Parsed(t[n - 1], line[n])]
  <2>2. \A n \in 0 .. m : u[n] = t[n]
    <3>1. \A n \in 0 .. m : t[n] = IF n = 0 THEN Defaults ELSE Parsed(t[n - 1], line[n])
      BY <2>1
    <3> QED BY <3>1
  <2>3. \A n \in 0 .. m + 1 : n # 0 => n - 1 \in 0 .. m
    OBVIOUS
  <2>4. Loop(u, m + 1)
    BY <2>2, <2>3
  <2>5. \E t_1 : Loop(t_1, m + 1)
    BY <2>4
  <2> HIDE DEF Loop, u
  <2> QED BY <2>5
<1>3. Len(line) \in Nat
  OBVIOUS
<1>4. PICK t : Loop(t, Len(line))
  <2> HIDE DEF Taken, Loop
  <2>1. Len(line) \in Taken
    BY <1>1, <1>2, <1>3, NatSet
  <2> QED BY <2>1 DEF Taken
<1>5. Loop(Turns(line), Len(line))
  BY <1>4 DEF Turns
<1>6. \A n \in 0 .. Len(line) :
        Turns(line)[n] = IF n = 0 THEN Defaults ELSE Parsed(Turns(line)[n - 1], line[n])
  BY <1>5
<1> QED
  BY <1>3, <1>6

-----------------------------------------------------------------------------
(* The values                                                              *)

(* The arguments that the line gives with an option.                       *)
Values(line, letter) ==
    {line[i].arg : i \in {j \in 1 .. Len(line) : line[j].letter = letter}}

(* The globals of main: there are no others.                               *)
Globals(o) ==
    o = [flags          |-> o.flags,
         main_operation |-> o.main_operation,
         usage_error    |-> o.usage_error,
         key            |-> o.key,
         key_format     |-> o.key_format,
         key_size       |-> o.key_size,
         parola         |-> o.parola,
         new_password   |-> o.new_password,
         dev_label      |-> o.dev_label,
         aes_name       |-> o.aes_name,
         string_key     |-> o.string_key]

(* They have the values of the line or the presets, and a flag is up only  *)
(* when the value of its option has been taken.                            *)
Taken(o, line) ==
    /\ o.key \in Values(line, "k") \cup {1}
    /\ o.key_size \in Values(line, "F") \cup {256}
    /\ o.parola \in Values(line, "p") \cup {Unset}
    /\ "p" \in o.flags => o.parola \in Values(line, "p")
    /\ "c" \in o.flags => o.new_password \in Values(line, "c")
    /\ "n" \in o.flags => o.dev_label \in Values(line, "n")
    /\ "m" \in o.flags => o.aes_name \in Values(line, "m")
    /\ "x" \in o.flags => o.string_key \in Values(line, "x")

(* The letters of main operations.                                         *)
MainLetters == AlwaysMain \cup {"m", "x", "X"}

(* What the count says: no main operation was seen, or one was, or several *)
(* that hide each other; -x and -X do so only with an -m between them.     *)
MainsCounted(o) ==
    /\ o.main_operation \in Nat
    /\ o.main_operation = 0 => o.flags \cap MainLetters = {}
    /\ o.main_operation = 1 =>
         \/ \E letter \in AlwaysMain : o.flags \cap MainLetters = {letter}
         \/ /\ o.flags \cap AlwaysMain = {}
            /\ {"x", "X"} \subseteq o.flags => "m" \in o.flags

(* What an option adds to them.                                            *)
LEMMA FlaggedIs ==
    ASSUME NEW o, Globals(o), NEW letter
    PROVE  /\ Globals(Flagged(o, letter))
           /\ Flagged(o, letter).flags = o.flags \cup {letter}
           /\ Flagged(o, letter).main_operation
                = IF Counts(o, letter) THEN o.main_operation + 1 ELSE o.main_operation
           /\ Flagged(o, letter).key = o.key
           /\ Flagged(o, letter).key_size = o.key_size
           /\ Flagged(o, letter).parola = o.parola
           /\ Flagged(o, letter).new_password = o.new_password
           /\ Flagged(o, letter).dev_label = o.dev_label
           /\ Flagged(o, letter).aes_name = o.aes_name
           /\ Flagged(o, letter).string_key = o.string_key
<1> DEFINE flags == o.flags \cup {letter}
           count == IF Counts(o, letter) THEN o.main_operation + 1 ELSE o.main_operation
           f     == Flagged(o, letter)
<1>1. f = [o EXCEPT !.flags = flags, !.main_operation = count]
  BY DEF Flagged
<1> HIDE DEF flags, count, f
<1>2. f = [flags          |-> flags,
           main_operation |-> count,
           usage_error    |-> o.usage_error,
           key            |-> o.key,
           key_format     |-> o.key_format,
           key_size       |-> o.key_size,
           parola         |-> o.parola,
           new_password   |-> o.new_password,
           dev_label      |-> o.dev_label,
           aes_name       |-> o.aes_name,
           string_key     |-> o.string_key]
  BY <1>1 DEF Globals
<1>3. Globals(f)
  BY <1>2 DEF Globals
<1>4. /\ f.flags = flags /\ f.main_operation = count /\ f.key = o.key
      /\ f.key_size = o.key_size /\ f.parola = o.parola
      /\ f.new_password = o.new_password /\ f.dev_label = o.dev_label
      /\ f.aes_name = o.aes_name /\ f.string_key = o.string_key
  BY <1>2
<1> QED BY <1>3, <1>4 DEF f, flags, count

(* And its value.                                                          *)
LEMMA ValuedIs ==
    ASSUME NEW o, Globals(o), NEW letter, NEW arg
    PROVE  LET v == Valued(o, letter, arg)
           IN  /\ Globals(v)
               /\ v.flags = o.flags
               /\ v.main_operation = o.main_operation
               /\ v.key          = IF letter = "k" THEN arg ELSE o.key
               /\ v.key_size     = IF letter = "F" THEN arg ELSE o.key_size
               /\ v.parola       = IF letter = "p" THEN arg ELSE o.parola
               /\ v.new_password = IF letter = "c" THEN arg ELSE o.new_password
               /\ v.dev_label    = IF letter = "n" THEN arg ELSE o.dev_label
               /\ v.aes_name     = IF letter = "m" THEN arg ELSE o.aes_name
               /\ v.string_key   = IF letter = "x" THEN arg ELSE o.string_key
<1> DEFINE v == Valued(o, letter, arg)
<1>1. CASE letter = "c"
  <2>1. v = [o EXCEPT !.new_password = arg]
    BY <1>1 DEF Valued
  <2> HIDE DEF v
  <2> QED BY <1>1, <2>1 DEF Globals, v
<1>2. CASE letter = "n"
  <2>1. v = [o EXCEPT !.dev_label = arg]
    BY <1>2 DEF Valued
  <2> HIDE DEF v
  <2> QED BY <1>2, <2>1 DEF Globals, v
<1>3. CASE letter = "m"
  <2>1. v = [o EXCEPT !.aes_name = arg]
    BY <1>3 DEF Valued
  <2> HIDE DEF v
  <2> QED BY <1>3, <2>1 DEF Globals, v
<1>4. CASE letter = "x"
  <2>1. v = [o EXCEPT !.string_key = arg]
    BY <1>4 DEF Valued
  <2> HIDE DEF v
  <2> QED BY <1>4, <2>1 DEF Globals, v
<1>5. CASE letter = "k"
  <2>1. v = [o EXCEPT !.key = arg]
    BY <1>5 DEF Valued
  <2> HIDE DEF v
  <2> QED BY <1>5, <2>1 DEF Globals, v
<1>6. CASE letter = "p"
  <2>1. v = [o EXCEPT !.parola = arg]
    BY <1>6 DEF Valued
  <2> HIDE DEF v
  <2> QED BY <1>6, <2>1 DEF Globals, v
<1>7. CASE letter = "f"
  <2>1. v = [o EXCEPT !.key_format = arg]
    BY <1>7 DEF Valued
  <2> HIDE DEF v
  <2> QED BY <1>7, <2>1 DEF Globals, v
<1>8. CASE letter = "F"
  <2>1. v = [o EXCEPT !.key_size = arg]
    BY <1>8 DEF Valued
  <2> HIDE DEF v
  <2> QED BY <1>8, <2>1 DEF Globals, v
<1>9. CASE letter \notin {"c", "n", "m", "x", "k", "p", "f", "F"}
  <2>1. v = o
    BY <1>9 DEF Valued
  <2> HIDE DEF v
  <2> QED BY <1>9, <2>1 DEF Globals, v
<1> QED BY <1>1, <1>2, <1>3, <1>4, <1>5, <1>6, <1>7, <1>8, <1>9

(* A format that is wrong changes nothing else.                            *)
LEMMA ComplainedIs ==
    ASSUME NEW o, Globals(o)
    PROVE  LET e == [o EXCEPT !.usage_error = TRUE]
           IN  /\ Globals(e)
               /\ e.flags = o.flags /\ e.main_operation = o.main_operation
               /\ e.key = o.key /\ e.key_size = o.key_size /\ e.parola = o.parola
               /\ e.new_password = o.new_password /\ e.dev_label = o.dev_label
               /\ e.aes_name = o.aes_name /\ e.string_key = o.string_key
<1> DEFINE e == [o EXCEPT !.usage_error = TRUE]
           yes == TRUE
<1>1. e = [o EXCEPT !.usage_error = yes]
  OBVIOUS
<1> HIDE DEF e, yes
<1>2. e = [flags          |-> o.flags,
           main_operation |-> o.main_operation,
           usage_error    |-> yes,
           key            |-> o.key,
           key_format     |-> o.key_format,
           key_size       |-> o.key_size,
           parola         |-> o.parola,
           new_password   |-> o.new_password,
           dev_label      |-> o.dev_label,
           aes_name       |-> o.aes_name,
           string_key     |-> o.string_key]
  BY <1>1 DEF Globals
<1>3. Globals(e)
  BY <1>2 DEF Globals
<1>4. /\ e.flags = o.flags /\ e.main_operation = o.main_operation
      /\ e.key = o.key /\ e.key_size = o.key_size /\ e.parola = o.parola
      /\ e.new_password = o.new_password /\ e.dev_label = o.dev_label
      /\ e.aes_name = o.aes_name /\ e.string_key = o.string_key
  BY <1>2
<1> QED BY <1>3, <1>4 DEF e

(* One more option, or none, leaves the count in order.                    *)
LEMMA OptionCounted ==
    ASSUME NEW o, MainsCounted(o), NEW letter, NEW p,
           p.flags = o.flags \cup {letter},
           p.main_operation
             = IF Counts(o, letter) THEN o.main_operation + 1 ELSE o.main_operation
    PROVE  MainsCounted(p)
<1> USE DEF MainsCounted
<1>1. CASE letter \in AlwaysMain
  <2>1. p.main_operation = o.main_operation + 1
    BY <1>1 DEF Counts
  <2>2. p.main_operation = 1 => p.flags \cap MainLetters = {letter}
    BY <1>1, <2>1 DEF MainLetters
  <2> QED BY <1>1, <2>1, <2>2
<1>2. CASE letter = "m"
  <2>1. "m" \notin AlwaysMain /\ "m" \in MainLetters
    BY DEF AlwaysMain, MainLetters
  <2>2. CASE {"x", "X"} \cap o.flags = {}
    <3>1. p.main_operation = o.main_operation + 1
      BY <1>2, <2>2 DEF Counts
    <3>2. p.main_operation = 1 => o.flags \cap MainLetters = {}
      BY <3>1
    <3>3. p.main_operation = 1 =>
            p.flags \cap AlwaysMain = {} /\ ({"x", "X"} \subseteq p.flags => "m" \in p.flags)
      BY <1>2, <2>1, <3>2 DEF MainLetters
    <3> QED BY <3>1, <3>3
  <2>3. CASE {"x", "X"} \cap o.flags # {}
    <3>1. p.main_operation = o.main_operation
      BY <1>2, <2>1, <2>3 DEF Counts
    <3>2. o.flags \cap MainLetters # {} /\ o.main_operation # 0
      BY <2>3 DEF MainLetters
    <3>3. ~\E l \in AlwaysMain : o.flags \cap MainLetters = {l}
      BY <2>3 DEF MainLetters, AlwaysMain
    <3>4. p.main_operation = 1 =>
            p.flags \cap AlwaysMain = {} /\ ({"x", "X"} \subseteq p.flags => "m" \in p.flags)
      BY <1>2, <2>1, <3>1, <3>3
    <3> QED BY <3>1, <3>2, <3>4
  <2> QED BY <2>2, <2>3
<1>3. CASE letter \in {"x", "X"}
  <2>1. letter \notin AlwaysMain /\ letter # "m" /\ letter \in MainLetters /\ "m" \in MainLetters
    BY <1>3 DEF AlwaysMain, MainLetters
  <2>2. CASE "m" \notin o.flags
    <3>1. p.main_operation = o.main_operation + 1
      BY <1>3, <2>2 DEF Counts
    <3>2. p.main_operation = 1 => o.flags \cap MainLetters = {}
      BY <3>1
    <3>3. p.main_operation = 1 =>
            p.flags \cap AlwaysMain = {} /\ ~({"x", "X"} \subseteq p.flags)
      BY <1>3, <2>1, <3>2 DEF MainLetters
    <3> QED BY <3>1, <3>3
  <2>3. CASE "m" \in o.flags
    <3>1. p.main_operation = o.main_operation
      BY <1>3, <2>1, <2>3 DEF Counts
    <3>2. o.flags \cap MainLetters # {} /\ o.main_operation # 0
      BY <2>1, <2>3
    <3>3. ~\E l \in AlwaysMain : o.flags \cap MainLetters = {l}
      BY <2>3 DEF MainLetters, AlwaysMain
    <3>4. p.main_operation = 1 => p.flags \cap AlwaysMain = {} /\ "m" \in p.flags
      BY <2>1, <2>3, <3>1, <3>3
    <3> QED BY <3>1, <3>2, <3>4
  <2> QED BY <2>2, <2>3
<1>4. CASE letter \notin MainLetters
  <2>1. p.main_operation = o.main_operation
    BY <1>4 DEF Counts, MainLetters
  <2>2. p.flags \cap MainLetters = o.flags \cap MainLetters
    BY <1>4
  <2>3. p.flags \cap AlwaysMain = o.flags \cap AlwaysMain
    BY <1>4 DEF MainLetters
  <2>4. \A l \in {"m", "x", "X"} : l \in p.flags <=> l \in o.flags
    BY <1>4 DEF MainLetters
  <2> QED BY <2>1, <2>2, <2>3, <2>4
<1> QED BY <1>1, <1>2, <1>3, <1>4 DEF MainLetters

(* One turn of the loop takes one option of the line.                      *)
LEMMA ParsedTakes ==
    ASSUME NEW line, NEW i \in 1 .. Len(line), NEW o,
           Globals(o), Taken(o, line), MainsCounted(o)
    PROVE  LET p == Parsed(o, line[i])
           IN  Globals(p) /\ Taken(p, line) /\ MainsCounted(p)
<1> DEFINE letter == line[i].letter
           arg    == line[i].arg
           e      == [o EXCEPT !.usage_error = TRUE]
           f      == Flagged(o, letter)
           v      == Valued(f, letter, arg)
<1>1. arg \in Values(line, letter)
  BY DEF Values
<1>2. Globals(e) /\ Taken(e, line) /\ MainsCounted(e)
  <2> HIDE DEF e
  <2> QED BY ComplainedIs DEF Taken, MainsCounted, e
<1>3. Globals(v) /\ Taken(v, line) /\ MainsCounted(v)
  <2>1. Globals(f)
    BY FlaggedIs
  <2>2. /\ Globals(v) /\ v.flags = o.flags \cup {letter}
        /\ v.main_operation
             = IF Counts(o, letter) THEN o.main_operation + 1 ELSE o.main_operation
        /\ v.key          = IF letter = "k" THEN arg ELSE o.key
        /\ v.key_size     = IF letter = "F" THEN arg ELSE o.key_size
        /\ v.parola       = IF letter = "p" THEN arg ELSE o.parola
        /\ v.new_password = IF letter = "c" THEN arg ELSE o.new_password
        /\ v.dev_label    = IF letter = "n" THEN arg ELSE o.dev_label
        /\ v.aes_name     = IF letter = "m" THEN arg ELSE o.aes_name
        /\ v.string_key   = IF letter = "x" THEN arg ELSE o.string_key
    <3> HIDE DEF f, letter, arg
    <3>1. /\ f.flags = o.flags \cup {letter}
          /\ f.main_operation
               = IF Counts(o, letter) THEN o.main_operation + 1 ELSE o.main_operation
          /\ f.key = o.key /\ f.key_size = o.key_size /\ f.parola = o.parola
          /\ f.new_password = o.new_password /\ f.dev_label = o.dev_label
          /\ f.aes_name = o.aes_name /\ f.string_key = o.string_key
      BY FlaggedIs DEF f
    <3> QED BY <2>1, <3>1, ValuedIs
  <2> HIDE DEF v, letter, arg
  <2>3. MainsCounted(v)
    BY <2>2, OptionCounted
  <2>4. Taken(v, line)
    BY <1>1, <2>2 DEF Taken
  <2> QED BY <2>2, <2>3, <2>4
<1> HIDE DEF v, e
<1> QED BY <1>2, <1>3 DEF Parsed, v, f, e

(* Before the first option.                                                *)
LEMMA DefaultsTaken ==
    ASSUME NEW line
    PROVE  /\ Globals(Defaults) /\ Taken(Defaults, line) /\ MainsCounted(Defaults)
           /\ LET help == [Defaults EXCEPT !.flags = Defaults.flags \cup {"?"}]
              IN  Globals(help) /\ Taken(help, line) /\ MainsCounted(help)
<1> DEFINE help == [Defaults EXCEPT !.flags = Defaults.flags \cup {"?"}]
<1>1. /\ Defaults.flags = {"k", "f", "F"} /\ Defaults.main_operation = 0
      /\ Defaults.key = 1 /\ Defaults.key_size = 256 /\ Defaults.parola = Unset
  BY DEF Defaults
<1>2. Globals(Defaults)
  BY DEF Defaults, Globals
<1>3. Taken(Defaults, line) /\ MainsCounted(Defaults)
  BY <1>1 DEF Taken, MainsCounted, MainLetters, AlwaysMain
<1>4. /\ help.flags = {"k", "f", "F", "?"} /\ help.main_operation = 0
      /\ help.key = 1 /\ help.key_size = 256 /\ help.parola = Unset
  BY <1>1 DEF Defaults
<1>5. Globals(help)
  <2>1. help = [Defaults EXCEPT !.flags = {"k", "f", "F", "?"}]
    BY <1>1
  <2> HIDE DEF help
  <2>2. help = [flags          |-> {"k", "f", "F", "?"},
                main_operation |-> Defaults.main_operation,
                usage_error    |-> Defaults.usage_error,
                key            |-> Defaults.key,
                key_format     |-> Defaults.key_format,
                key_size       |-> Defaults.key_size,
                parola         |-> Defaults.parola,
                new_password   |-> Defaults.new_password,
                dev_label      |-> Defaults.dev_label,
                aes_name       |-> Defaults.aes_name,
                string_key     |-> Defaults.string_key]
    BY <1>2, <2>1 DEF Globals
  <2> QED BY <2>2 DEF Globals
<1> HIDE DEF help
<1>6. Taken(help, line) /\ MainsCounted(help)
  BY <1>4 DEF Taken, MainsCounted, MainLetters, AlwaysMain
<1> QED BY <1>2, <1>3, <1>5, <1>6 DEF help

(* Whatever is typed: a value that main uses is one that the line gives    *)
(* with its option, or the preset, a flag that is up has its value, and    *)
(* main operations are counted as far as -m, -x and -X let them be.        *)
THEOREM LineTaken ==
    ASSUME NEW S, NEW line \in Seq(S)
    PROVE  LET o == _parse_options(line)
           IN  Globals(o) /\ Taken(o, line) /\ MainsCounted(o)
<1> DEFINE Good(o) == Globals(o) /\ Taken(o, line) /\ MainsCounted(o)
           T == {n \in Nat : n <= Len(line) => Good(Turns(line)[n])}
<1>1. Len(line) \in Nat
  OBVIOUS
<1>2. 0 \in T
  BY TurnsTaken, DefaultsTaken
<1>3. ASSUME NEW n \in Nat, n \in T PROVE n + 1 \in T
  <2>1. SUFFICES ASSUME n + 1 <= Len(line) PROVE Good(Turns(line)[n + 1])
    OBVIOUS
  <2>2. n + 1 \in 1 .. Len(line) /\ n <= Len(line) /\ (n + 1) - 1 = n
    BY <1>1, <2>1
  <2>3. Good(Turns(line)[n])
    BY <1>3, <2>2
  <2>4. Turns(line)[n + 1] = Parsed(Turns(line)[n], line[n + 1])
    BY <2>2, TurnsTaken
  <2> QED BY <2>2, <2>3, <2>4, ParsedTakes
<1>4. Good(Turns(line)[Len(line)])
  <2> HIDE DEF T, Good
  <2>1. Len(line) \in T
    BY <1>1, <1>2, <1>3, NatSet
  <2> QED BY <1>1, <2>1 DEF T
<1> QED BY <1>4, DefaultsTaken DEF _parse_options

-----------------------------------------------------------------------------
(* What main does with it                                                  *)

(* The blocks of main, as a set.                                           *)
LEMMA BlocksAre ==
    Range(Blocks) = {"activate", "deactivate", "password", "label", "key", "random",
                     "setrandom", "name", "enable", "disable", "info"}
<1>1. DOMAIN Blocks = 1 .. 11
  BY DEF Blocks
<1>2. /\ Blocks[1] = "activate" /\ Blocks[2] = "deactivate" /\ Blocks[3] = "password"
      /\ Blocks[4] = "label" /\ Blocks[5] = "key" /\ Blocks[6] = "random"
      /\ Blocks[7] = "setrandom" /\ Blocks[8] = "name" /\ Blocks[9] = "enable"
      /\ Blocks[10] = "disable" /\ Blocks[11] = "info"
  BY DEF Blocks
<1> HIDE DEF Blocks
<1>3. \A i \in 1 .. 11 : \/ i = 1 \/ i = 2 \/ i = 3 \/ i = 4 \/ i = 5 \/ i = 6
                         \/ i = 7 \/ i = 8 \/ i = 9 \/ i = 10 \/ i = 11
  OBVIOUS
<1> QED BY <1>1, <1>2, <1>3 DEF Range

(* The letter that each block needs, apart from those of its settings.     *)
LEMMA BlockLetters ==
    ASSUME NEW o
    PROVE  /\ Entered(o, "activate")   => "a" \in o.flags
           /\ Entered(o, "deactivate") => "d" \in o.flags
           /\ Entered(o, "password")   => "c" \in o.flags
           /\ Entered(o, "label")      => "n" \in o.flags
           /\ Entered(o, "key")        => "x" \in o.flags
           /\ Entered(o, "random")     => "X" \in o.flags
           /\ ~Entered(o, "setrandom")
           /\ Entered(o, "name")       => /\ "m" \in o.flags
                                          /\ "x" \notin o.flags /\ "X" \notin o.flags
           /\ Entered(o, "enable")     => "t" \in o.flags
           /\ Entered(o, "disable")    => "T" \in o.flags
  BY DEF Entered

(* A line that main lets through asks for one operation, whatever its      *)
(* options and their order, unless -m, -x and -X are all on it.            *)
THEOREM OneIsAsked ==
    ASSUME NEW o, MainsCounted(o), o.main_operation <= 1,
           ~({"m", "x", "X"} \subseteq o.flags)
    PROVE  \E only : \A b \in Range(Blocks) : Entered(o, b) => b \in {only, "info"}
<1> DEFINE Only(only) == \A b \in Range(Blocks) : Entered(o, b) => b \in {only, "info"}
<1> SUFFICES \E only : Only(only)
  OBVIOUS
<1>0. o.main_operation = 0 \/ o.main_operation = 1
  BY DEF MainsCounted
<1>1. CASE o.flags \cap MainLetters = {}
  <2>1. \A l \in {"a", "d", "c", "n", "x", "X", "m", "t", "T"} : l \notin o.flags
    BY <1>1 DEF MainLetters, AlwaysMain
  <2>2. Only("info")
    BY <2>1, BlocksAre, BlockLetters
  <2> QED BY <2>2
<1>2. ASSUME NEW letter \in AlwaysMain, o.flags \cap MainLetters = {letter}
      PROVE  \E only : Only(only)
  <2>1. \A l \in {"a", "d", "c", "n", "x", "X", "m", "t", "T"} : l \in o.flags => l = letter
    BY <1>2 DEF MainLetters, AlwaysMain
  <2>2. CASE letter = "a"
    <3>1. Only("activate")
      BY <2>1, <2>2, BlocksAre, BlockLetters
    <3> QED BY <3>1
  <2>3. CASE letter = "d"
    <3>1. Only("deactivate")
      BY <2>1, <2>3, BlocksAre, BlockLetters
    <3> QED BY <3>1
  <2>4. CASE letter = "c"
    <3>1. Only("password")
      BY <2>1, <2>4, BlocksAre, BlockLetters
    <3> QED BY <3>1
  <2>5. CASE letter = "n"
    <3>1. Only("label")
      BY <2>1, <2>5, BlocksAre, BlockLetters
    <3> QED BY <3>1
  <2>6. CASE letter = "t"
    <3>1. Only("enable")
      BY <2>1, <2>6, BlocksAre, BlockLetters
    <3> QED BY <3>1
  <2>7. CASE letter = "T"
    <3>1. Only("disable")
      BY <2>1, <2>7, BlocksAre, BlockLetters
    <3> QED BY <3>1
  <2>8. CASE letter \in {"l", "s"}
    <3>1. Only("info")
      BY <2>1, <2>8, BlocksAre, BlockLetters
    <3> QED BY <3>1
  <2> QED BY <2>2, <2>3, <2>4, <2>5, <2>6, <2>7, <2>8 DEF AlwaysMain
<1>3. CASE /\ o.flags \cap AlwaysMain = {}
           /\ {"x", "X"} \subseteq o.flags => "m" \in o.flags
  <2>1. \A l \in {"a", "d", "c", "n", "t", "T"} : l \notin o.flags
    BY <1>3 DEF AlwaysMain
  <2>2. CASE "x" \in o.flags
    <3>1. "X" \notin o.flags
      BY <1>3, <2>2
    <3>2. Only("key")
      BY <2>1, <2>2, <3>1, BlocksAre, BlockLetters
    <3> QED BY <3>2
  <2>3. CASE "X" \in o.flags
    <3>1. "x" \notin o.flags
      BY <1>3, <2>3
    <3>2. Only("random")
      BY <2>1, <2>3, <3>1, BlocksAre, BlockLetters
    <3> QED BY <3>2
  <2>4. CASE "x" \notin o.flags /\ "X" \notin o.flags
    <3>1. Only("name")
      BY <2>1, <2>4, BlocksAre, BlockLetters
    <3> QED BY <3>1
  <2> QED BY <2>2, <2>3, <2>4
<1> HIDE DEF Only
<1>4. CASE o.main_operation = 0
  <2>1. o.flags \cap MainLetters = {}
    BY <1>4 DEF MainsCounted
  <2> QED BY <1>1, <2>1
<1>5. CASE o.main_operation = 1
  <2>1. \/ \E letter \in AlwaysMain : o.flags \cap MainLetters = {letter}
        \/ /\ o.flags \cap AlwaysMain = {}
           /\ {"x", "X"} \subseteq o.flags => "m" \in o.flags
    BY <1>5 DEF MainsCounted
  <2> QED BY <1>2, <1>3, <2>1
<1> QED BY <1>0, <1>4, <1>5

=============================================================================
