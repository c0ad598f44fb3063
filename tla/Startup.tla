------------------------------ MODULE Startup -------------------------------
(***************************************************************************)
(* The two programs from their command line on: main parses the options,   *)
(* one getopt at a time, and then the server starts its acceptor thread    *)
(* and the client sets up its sockets and its threads.                     *)
(***************************************************************************)
EXTENDS Options, Connections

CONSTANT CommandLines    \* pairs of a program and its arguments

ASSUME StartupAssumption ==
  \A line \in CommandLines :
    line.program \in {"client", "server"} /\ line.argv \in Seq(Arguments)

VARIABLES
  program,
  argv,       \* the arguments behind the program's name
  optind,     \* the argument that getopt looks at next
  counter,
  options     \* the options that have been read, with their values

parseVars == <<program, argv, optind, counter, options>>
vars == <<parseVars, connVars>>

Init ==
  /\ \E line \in CommandLines : program = line.program /\ argv = line.argv
  /\ optind = 1 /\ counter = 1
  /\ options = [flag \in {} |-> 0]
  /\ process = "parsing"
  /\ ConnInit

connRest == <<acceptorVars, peer, threadVars, quiet>>

Becomes(status) == process' = status /\ UNCHANGED <<options, connRest>>

-----------------------------------------------------------------------------
(* parse_client and parse_server                                           *)

Parsing == process = "parsing" /\ optind <= Len(argv)

\* getopt looks for options behind an argument that is none.
SkipArgument ==
  /\ Parsing /\ argv[optind].is = "word"
  /\ optind' = optind + 1
  /\ UNCHANGED <<program, argv, counter, options, connVars>>

\* getopt returns h, or ? for an unknown or incomplete option.
ExitFromOption ==
  /\ Parsing /\ argv[optind].is # "word"
  /\ \/ argv[optind].flag = "h" /\ Becomes("exit_success")
     \/ /\ argv[optind].flag # "h" /\ Malformed(program, argv, optind)
        /\ Becomes("exit_failure")
  /\ optind' = optind + 1 /\ counter' = counter + 2
  /\ UNCHANGED <<program, argv>>

ReadOption ==
  /\ Parsing /\ argv[optind].is # "word"
  /\ argv[optind].flag # "h" /\ ~Malformed(program, argv, optind)
  /\ LET flag == argv[optind].flag
         values == Parse(Options[program][flag], ValueOf(argv, optind))
     IN  \/ /\ values = {}
            /\ Becomes("exit_failure")
         \/ \E v \in values :
              /\ options' = [f \in DOMAIN options \union {flag} |->
                               IF f = flag THEN v ELSE options[f]]
              /\ UNCHANGED connVars
  /\ optind' = optind + (IF argv[optind].is = "attached" THEN 1 ELSE 2)
  /\ counter' = counter + 2
  /\ UNCHANGED <<program, argv>>

ReturnOptions_Uncounted ==
  /\ process = "parsing" /\ optind > Len(argv)
  /\ Becomes(IF Required(program) \subseteq DOMAIN options
             THEN "parsed" ELSE "exit_failure")
  /\ UNCHANGED <<program, argv, optind, counter>>

\* argc counts the program's name as well.
ReturnOptions ==
  /\ process = "parsing" /\ optind > Len(argv)
  /\ Becomes(IF Len(argv) + 1 = counter /\ Required(program) \subseteq DOMAIN options
             THEN "parsed" ELSE "exit_failure")
  /\ UNCHANGED <<program, argv, optind, counter>>

-----------------------------------------------------------------------------
(* main                                                                    *)

\* reset_shared and the acceptor thread
StartServer ==
  /\ process = "parsed" /\ program = "server"
  /\ Becomes("serving")
  /\ UNCHANGED <<program, argv, optind, counter>>

\* The constructors of TCPHandler and UDPHandler throw what nobody catches.
SetUpClient ==
  /\ program = "client"
  /\ \/ process = "parsed" /\ Becomes("connected")
     \/ process = "connected" /\ Becomes("running")
     \/ process \in {"parsed", "connected"} /\ Becomes("terminated")
  /\ UNCHANGED <<program, argv, optind, counter>>

Next ==
  \/ SkipArgument \/ ExitFromOption \/ ReadOption \/ ReturnOptions
  \/ StartServer \/ SetUpClient
  \/ ServerNext /\ UNCHANGED parseVars

Spec == Init /\ [][Next]_vars

\* Every thread is scheduled; while the rounds go on there is news.  Nothing is assumed
\* of the peers.
FairSpec ==
  /\ Spec
  /\ WF_vars(AcceptorThread /\ UNCHANGED parseVars)
  /\ WF_vars(News /\ UNCHANGED parseVars)
  /\ \A c \in Conns :
       /\ WF_vars(ReaderEnds(c) /\ UNCHANGED parseVars)
       /\ WF_vars((WriterSends(c) \/ WriterEnds(c)) /\ UNCHANGED parseVars)

-----------------------------------------------------------------------------
(* Properties                                                              *)

\* Every variable has its type; the acceptor holds a handler exactly while it creates
\* the threads for it, and only a running writer is owed something.
TypeOK ==
  /\ process \in {"parsing", "exit_success", "exit_failure", "parsed", "connected",
                  "running", "serving", "terminated"}
  /\ \A flag \in DOMAIN options :
       LET option == Options[program][flag]
       IN  options[flag] \in 0 .. MaxOf(IF option.kind = "number" THEN option.bytes ELSE 2)
  /\ \A c \in Conns :
       "acceptor" \in holders[c] <=>
         c \in current /\ acceptor \in {"thread_in", "thread_out", "detached"}
  /\ \A c \in owed : "out" \in holders[c]
  /\ Cardinality(Open) <= MaxFds

Started == process \notin {"parsing", "exit_success", "exit_failure"}

\* The values that the arguments give to a flag.
Written(flag) ==
  {ValueOf(argv, k) : k \in {k \in DOMAIN argv : argv[k].flag = flag
                                                 /\ (argv[k].is = "flag" => k < Len(argv))}}

\* The programs start with nothing but the numbers that were written: none is cut to
\* its type, wrapped, or read up to the first letter.  Of the types only turn_duration,
\* which is as wide as the parser's own, can hold a number other than the one written.
NumbersAreAsWritten ==
  Started => \A flag \in DOMAIN options :
    LET option == Options[program][flag]
    IN  /\ option.kind = "number" =>
             \E text \in Written(flag) :
               /\ text.digits >= 0 /\ ~text.junk
               /\ \/ options[flag] = Signed(text)
                  \/ option.bytes = 8 /\ text.blank /\ text.minus
                       /\ options[flag] = 2 ^ Bits[8] - text.digits
        /\ option.kind = "address" =>
             \E text \in Written(flag) : \E port \in text.colon :
               options[flag] = Signed(port) /\ ~port.junk

\* The k-th argument is the value of the flag before it: of the flags that follow one
\* another, every second one is.
Consumed(k) ==
  \E j \in 1 .. k - 1 :
    /\ (k - j) % 2 = 1
    /\ \A m \in j .. k - 1 : argv[m].is = "flag"
    /\ j = 1 \/ argv[j - 1].is # "flag"

\* "Validates if any unknown parameter was specified" (parser.cpp:113, 161), as far as
\* counting arguments can tell: a program that starts has been given every required
\* option, and an argument that belongs to no option only together with an option that
\* had its value attached.
LineIsComplete ==
  Started =>
    /\ \A flag \in Required(program) : Written(flag) # {}
    /\ Cardinality({k \in DOMAIN argv : argv[k].is = "word" /\ ~Consumed(k)})
         = Cardinality({k \in DOMAIN argv : argv[k].is = "attached" /\ ~Consumed(k)})

\* A thread never reads from or writes to a socket that the other thread of its
\* connection has closed, whichever of them ends first and when, and no descriptor is
\* left open once both have ended.
SocketLastsAsLongAsThreads ==
  \A c \in Conns :
    /\ holders[c] # {} => socket[c] = "open"
    /\ socket[c] = "open" => holders[c] # {} \/ (c \in current /\ acceptor = "accepted")

\* While the rounds go on, the server closes every connection whose peer has gone,
\* although its writer may wait for news at that moment and although its reader, which
\* sees the end at once, cannot tell it.
GoneIsClosed ==
  \A c \in Conns :
    (socket[c] = "open" /\ peer[c] # "connected")
      ~> (socket[c] = "closed" \/ quiet \/ process = "terminated")

\* A server that does not terminate accepts every connection, unless from some time on
\* all its descriptors are in use for good.
NewcomersAreServed ==
  \A c \in Conns :
    <>[](Up /\ \E k \in DOMAIN queue : queue[k] = c) => <>[](Cardinality(Open) = MaxFds)
=============================================================================
