------------------------------ MODULE Options -------------------------------
(***************************************************************************)
(* The command lines of the two programs (config/parser.cpp): which        *)
(* options there are, what getopt makes of the arguments, and when a text  *)
(* is a number of the option's type.                                       *)
(*                                                                         *)
(* A text is what the parser can tell of it: white space in front, a minus *)
(* sign, its digits (-1 when there are none), something behind them, and   *)
(* the text after its last colon when it has one.                          *)
(***************************************************************************)
EXTENDS Integers, Sequences, FiniteSets

CONSTANT Bits    \* Bits[n]: the width of a type of n bytes, 8 * n

ASSUME OptionsAssumption ==
  /\ Bits \in [{1, 2, 4, 8} -> Nat \ {0}]
  /\ \A n \in {1, 2, 4} : Bits[n] < Bits[8]

Number(n) == [kind |-> "number", bytes |-> n]
Name == [kind |-> "name"]
Address == [kind |-> "address"]

\* CLIENT_OPTSTRING and SERVER_OPTSTRING without h, with the types of the options.
Options ==
  [client |-> [d |-> Address, n |-> Name, p |-> Number(2), s |-> Address],
   server |-> [b |-> Number(2), c |-> Number(1), d |-> Number(8), e |-> Number(2),
               k |-> Number(2), l |-> Number(2), n |-> Name, p |-> Number(2),
               s |-> Number(4), x |-> Number(2), y |-> Number(2)]]

\* required_client and required_server
Required(program) ==
  DOMAIN Options[program] \ (IF program = "server" THEN {"s"} ELSE {})

-----------------------------------------------------------------------------
(* Numbers                                                                 *)

MaxOf(n) == 2 ^ Bits[n] - 1

Empty(text) == text = [blank |-> FALSE, minus |-> FALSE, digits |-> -1,
                       junk |-> FALSE, colon |-> {}]

Signed(text) == IF text.minus THEN -text.digits ELSE text.digits

\* get_numerical_value: strtoll skips white space and takes a sign; ERANGE when the
\* number is no long long.  The result is kept as a uint64_t.
NumericalValue(text) ==
  IF text.digits >= 0 /\ ~text.junk
       /\ Signed(text) \in -(2 ^ (Bits[8] - 1)) .. 2 ^ (Bits[8] - 1) - 1
  THEN {Signed(text) % 2 ^ Bits[8]}
  ELSE {}

ParseNumerical_LimitOneMore(n, text) ==
  IF Empty(text) \/ (text.minus /\ ~text.blank) THEN {}
  ELSE {v % 2 ^ Bits[n] : v \in {v \in NumericalValue(text) : v <= MaxOf(n) + 1}}

\* parse_numerical<T> for a type of n bytes: the value, or none when it exits.
ParseNumerical(n, text) ==
  IF Empty(text) \/ (text.minus /\ ~text.blank) THEN {}
  ELSE {v % 2 ^ Bits[n] : v \in {v \in NumericalValue(text) : v <= MaxOf(n)}}

\* What an option of this kind stores; of an address, the port that parse_address
\* finds behind the last colon.
Parse(option, text) ==
  CASE option.kind = "number" -> ParseNumerical(option.bytes, text)
    [] option.kind = "address" -> UNION {ParseNumerical(2, t) : t \in text.colon}
    [] option.kind = "name" -> {0}

-----------------------------------------------------------------------------
(* Arguments.  One is a flag, a flag with its value attached, or neither.  *)

PortTexts ==
  [blank : BOOLEAN, minus : BOOLEAN, digits : Nat \union {-1}, junk : BOOLEAN, colon : {{}}]

ArgumentTexts ==
  [blank : BOOLEAN, minus : BOOLEAN, digits : Nat \union {-1}, junk : BOOLEAN,
   colon : SUBSET PortTexts]

Arguments == [is : {"flag", "attached", "word"}, flag : STRING, text : ArgumentTexts]

\* getopt finds a flag that the program does not have, or no value after one.
Malformed(program, argv, k) ==
  \/ argv[k].flag \notin DOMAIN Options[program]
  \/ argv[k].is = "flag" /\ k = Len(argv)

\* The value of the flag at argv[k]: whatever comes next, even another flag.
ValueOf(argv, k) == IF argv[k].is = "attached" THEN argv[k].text ELSE argv[k + 1].text
=============================================================================
