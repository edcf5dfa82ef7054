---------------------------- MODULE CommandLine -----------------------------
(***************************************************************************)
(* The command line: parse_options() and parse_positive() of src/main.cpp, *)
(* one turn of the loop an operator.  Options is the struct of that name,  *)
(* as a function from the option that sets a member to its value.  argv is *)
(* the list of arguments without the name of the program.  Texts are       *)
(* opaque; Numerals says which of them are decimal numbers for strtoll(),  *)
(* to their last character, and what number is written.                    *)
(***************************************************************************)
EXTENDS Integers, SequencesExt, FiniteSetsExt, Functions

CONSTANTS
  Numerals,    \* function from texts to the integers they write
  LLMax,       \* the largest long long, 2^63 - 1 in the program
  NotGiven     \* password_from_cli is false

(* The empty text. *)
Empty == ""

Flags    == {"--json", "--verbose", "--strict-host-key"}
Strings  == {"--ssh-user", "--ssh-password", "--ssh-password-env",
             "--interface", "--select", "--mock-ifconfig"}
Timeouts == {"--timeout", "--banner-timeout", "--auth-timeout",
             "--command-timeout", "--layer2-window"}
Help     == {"-h", "--help"}

WithValue == Strings \cup Timeouts \cup {"--threads"}

MaxThreads == 1024

ASSUME NumeralsAssumption ==
  /\ \A text \in DOMAIN Numerals : Numerals[text] \in Int
  /\ LLMax \in Nat /\ LLMax > MaxThreads

(* The defaults of config.hpp. *)
Default(option) ==
  CASE option \in Flags -> FALSE
    [] option \in {"--interface", "--select", "--mock-ifconfig"} -> Empty
    [] option = "--ssh-password" -> NotGiven
    [] option = "--ssh-user" -> "root"
    [] option = "--ssh-password-env" -> "DEVICE_SSH_PASSWORD"
    [] option = "--threads" -> 32
    [] option = "--timeout" -> 750
    [] option = "--banner-timeout" -> 1000
    [] option \in {"--auth-timeout", "--command-timeout"} -> 5000
    [] option = "--layer2-window" -> 4000

(* Options, before the arguments are looked at. *)
Defaults == [option \in Flags \cup WithValue |-> Default(option)]

(* A number that does not fit becomes the nearest one that does. *)
strtoll(text) ==
  LET n == Numerals[text]
  IN  IF n > LLMax THEN LLMax ELSE IF n < -LLMax - 1 THEN -LLMax - 1 ELSE n

parse_positive(text) == text \in DOMAIN Numerals /\ strtoll(text) > 0

Takes(option, text) ==
  \/ option \in Strings
  \/ option \in Timeouts /\ parse_positive(text)
  \/ option = "--threads" /\ parse_positive(text) /\ strtoll(text) <= MaxThreads

Value(option, text) == IF option \in Strings THEN text ELSE strtoll(text)

(* A parser: the argument it is at, the options so far, and the exit code  *)
(* it returns false with.                                                  *)
Unparsed == [i |-> 1, options |-> Defaults, exit_code |-> "none"]

(* Mutant: the value of an option is not skipped. *)
TurnWithoutSkip(p, argv) ==
  LET arg == argv[p.i]
  IN  CASE arg \in Help -> [p EXCEPT !.exit_code = "kSuccess"]
        [] arg \in Flags -> [p EXCEPT !.i = @ + 1, !.options[arg] = TRUE]
        [] p.i < Len(argv) /\ Takes(arg, argv[p.i + 1]) ->
             [p EXCEPT !.i = @ + 1, !.options[arg] = Value(arg, argv[p.i + 1])]
        [] OTHER -> [p EXCEPT !.exit_code = "kUsageError"]

(* One turn of the loop of parse_options(): an unknown argument, or one    *)
(* without a value it takes, ends it.                                      *)
Turn(p, argv) ==
  LET arg == argv[p.i]
  IN  CASE arg \in Help -> [p EXCEPT !.exit_code = "kSuccess"]
        [] arg \in Flags -> [p EXCEPT !.i = @ + 1, !.options[arg] = TRUE]
        [] p.i < Len(argv) /\ Takes(arg, argv[p.i + 1]) ->
             [p EXCEPT !.i = @ + 2, !.options[arg] = Value(arg, argv[p.i + 1])]
        [] OTHER -> [p EXCEPT !.exit_code = "kUsageError"]

-----------------------------------------------------------------------------
(* How the usage text has it, without a parser                             *)

(* The positions of options: all but those behind one that has a value. *)
Heads(argv) ==
  CHOOSE heads \in SUBSET DOMAIN argv :
    \A i \in DOMAIN argv :
      i \in heads <=> ~(i - 1 \in heads /\ argv[i - 1] \in WithValue)

(* A number from 1 up, for --threads to 1024. *)
Legal(option, text) ==
  option \in Strings \/ ( /\ text \in DOMAIN Numerals
                          /\ Numerals[text] >= 1
                          /\ option = "--threads" => Numerals[text] <= 1024 )

Illegal(argv, i) ==
  \/ argv[i] \notin Flags \cup WithValue \cup Help
  \/ argv[i] \in WithValue /\ (i = Len(argv) \/ ~Legal(argv[i], argv[i + 1]))

Stops(argv, i) == argv[i] \in Help \/ Illegal(argv, i)

(* Where the arguments before the i-th name an option. *)
Uses(argv, i, option) == {h \in Heads(argv) : h < i /\ argv[h] = option}

(* What they say of it: the last word. *)
Said(argv, i, option) ==
  LET uses == Uses(argv, i, option)
  IN  CASE uses = {} -> Defaults[option]
        [] uses # {} /\ option \in Flags -> TRUE
        [] uses # {} /\ option \in Strings -> argv[Max(uses) + 1]
        [] uses # {} /\ option \in WithValue \ Strings ->
             Min({Numerals[argv[Max(uses) + 1]], LLMax})

(* The parser is where the arguments say: between two options, with what   *)
(* those before say, none of which is illegal or asks for help; it stops   *)
(* only at one of these.                                                   *)
Faithful(p, argv) ==
  LET heads == Heads(argv)
  IN  /\ p.i \in heads \cup {Len(argv) + 1}
      /\ \A h \in heads : h < p.i => ~Stops(argv, h)
      /\ p.options = [o \in DOMAIN Defaults |-> Said(argv, p.i, o)]
      /\ p.exit_code # "none" => p.i \in heads /\ Stops(argv, p.i)
      /\ p.exit_code = "kSuccess" <=> p.exit_code # "none" /\ argv[p.i] \in Help
=============================================================================
