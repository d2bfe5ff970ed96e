------------------------------ MODULE Options -------------------------------
(***************************************************************************)
(* The command line: ParseOptions(), src/src/options.cc.  One action per   *)
(* branch of its loop; an argument that was read is dropped.               *)
(*                                                                         *)
(* Arguments are opaque but for their spelling: AsDouble and AsInt say     *)
(* what from_chars() makes of those it takes to the last character, the    *)
(* doubles in hundredths.  The text of an error is left out, and so is     *)
(* what an error leaves in *options, which main() does not read.           *)
(***************************************************************************)
EXTENDS Integers, Sequences

CONSTANTS
  ArgumentLists,  \* the command lines
  AsDouble,       \* AsDouble[text]: [finite, hundredths]
  AsInt           \* AsInt[text]: an integer

ASSUME ArgumentAssumption ==
  /\ ArgumentLists \subseteq Seq(STRING)
  /\ AsDouble \in [DOMAIN AsDouble -> [finite : BOOLEAN, hundredths : Int]]
  /\ AsInt \in [DOMAIN AsInt -> Int]

VARIABLES
  arguments,  \* the arguments not read yet
  options,    \* *options
  parsed      \* the ParseResult, or "parsing" in the loop

option_vars == <<arguments, options, parsed>>

\* A double that is a number.
Number(hundredths) == [finite |-> TRUE, hundredths |-> hundredths]

OptionsInit ==
  /\ arguments \in ArgumentLists
  /\ options = [debug_level |-> 0, haptic_magnitude |-> Number(100),
                haptic_duration_ms |-> 12, config_directory |-> ""]
  /\ parsed = "parsing"

Option(names) ==
  /\ parsed = "parsing"
  /\ arguments # <<>>
  /\ Head(arguments) \in names

ParseEnd ==
  /\ parsed = "parsing"
  /\ arguments = <<>>
  /\ parsed' = "kSuccess"
  /\ UNCHANGED <<arguments, options>>

ParseHelp ==
  /\ Option({"-h", "--help"})
  /\ parsed' = "kHelp"
  /\ UNCHANGED <<arguments, options>>

ParseDebug ==
  /\ Option({"-d", "--debug"})
  /\ options' = [options EXCEPT !.debug_level = @ + 1]
  /\ arguments' = Tail(arguments)
  /\ UNCHANGED parsed

\* A mistake to tell apart: a number that is not finite compares false with
\* both bounds.
MagnitudeMutant(value) ==
  /\ value \in DOMAIN AsDouble
  /\ ~AsDouble[value].finite \/ AsDouble[value].hundredths \in 0 .. 100

\* The values that are accepted.
Magnitude(value) ==
  /\ value \in DOMAIN AsDouble
  /\ AsDouble[value].finite
  /\ AsDouble[value].hundredths \in 0 .. 100

Duration(value) == value \in DOMAIN AsInt /\ AsInt[value] \in 1 .. 1000

Directory(value) == value # ""

HasValue == Len(arguments) >= 2
Value == arguments[2]

ParseMagnitude ==
  /\ Option({"-m", "--magnitude"})
  /\ HasValue /\ Magnitude(Value)
  /\ options' = [options EXCEPT !.haptic_magnitude = AsDouble[Value]]
  /\ arguments' = Tail(Tail(arguments))
  /\ UNCHANGED parsed

ParseDuration ==
  /\ Option({"-D", "--duration-ms"})
  /\ HasValue /\ Duration(Value)
  /\ options' = [options EXCEPT !.haptic_duration_ms = AsInt[Value]]
  /\ arguments' = Tail(Tail(arguments))
  /\ UNCHANGED parsed

ParseDirectory ==
  /\ Option({"-c", "--config-directory"})
  /\ HasValue /\ Directory(Value)
  /\ options' = [options EXCEPT !.config_directory = Value]
  /\ arguments' = Tail(Tail(arguments))
  /\ UNCHANGED parsed

\* A value that is missing or refused, an option nobody knows.
WrongValue ==
  \/ Option({"-m", "--magnitude"}) /\ ~(HasValue /\ Magnitude(Value))
  \/ Option({"-D", "--duration-ms"}) /\ ~(HasValue /\ Duration(Value))
  \/ Option({"-c", "--config-directory"}) /\ ~(HasValue /\ Directory(Value))

Known == {"-h", "--help", "-d", "--debug", "-m", "--magnitude", "-D",
          "--duration-ms", "-c", "--config-directory"}

ParseError ==
  /\ \/ WrongValue
     \/ /\ parsed = "parsing" /\ arguments # <<>>
        /\ Head(arguments) \notin Known
  /\ parsed' = "kError"
  /\ UNCHANGED <<arguments, options>>

ParseOptions ==
  \/ ParseEnd \/ ParseHelp \/ ParseDebug
  \/ ParseMagnitude \/ ParseDuration \/ ParseDirectory \/ ParseError
=============================================================================
