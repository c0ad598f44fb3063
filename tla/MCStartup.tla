----------------------------- MODULE MCStartup ------------------------------
(***************************************************************************)
(* An instance of Startup for TLC: types of 2, 3, 4 and 6 bits for those   *)
(* of 8, 16, 32 and 64, and command lines that differ from a good one in   *)
(* one or two places, among them the smallest and the largest number of a  *)
(* type and the first beyond each limit.                                   *)
(***************************************************************************)
EXTENDS Startup, SequencesExt, TLC

Widths == (1 :> 2) @@ (2 :> 3) @@ (4 :> 4) @@ (8 :> 6)

Text(blank, minus, digits, junk) ==
  [blank |-> blank, minus |-> minus, digits |-> digits, junk |-> junk, colon |-> {}]
N(n) == Text(FALSE, FALSE, n, FALSE)
Letters == Text(FALSE, FALSE, -1, TRUE)
HostAnd(port) == [Letters EXCEPT !.colon = {port}]

Word(text) == <<[is |-> "word", flag |-> "", text |-> text]>>
Flag(f) == <<[is |-> "flag", flag |-> f, text |-> Text(FALSE, TRUE, -1, TRUE)]>>
Attached(f, text) == <<[is |-> "attached", flag |-> f, text |-> text]>>
Given(f, text) == Flag(f) \o Word(text)

ServerFlags == <<"b", "c", "d", "e", "k", "l", "n", "p", "x", "y">>
ClientFlags == <<"d", "n", "p", "s">>

GoodServer(f) == Given(f, IF f = "n" THEN Letters ELSE N(1))
GoodClient(f) ==
  Given(f, CASE f \in {"d", "s"} -> HostAnd(N(7)) [] f = "n" -> Letters [] f = "p" -> N(7))

Line(flags, Good(_), f, arguments) ==
  FlattenSeq([k \in DOMAIN flags |-> IF flags[k] = f THEN arguments ELSE Good(flags[k])])

ServerLine(f, arguments) ==
  [program |-> "server", argv |-> Line(ServerFlags, GoodServer, f, arguments)]
ClientLine(f, arguments) ==
  [program |-> "client", argv |-> Line(ClientFlags, GoodClient, f, arguments)]

Texts ==
  {N(0), N(7), N(8), N(31), N(32), Letters, Text(FALSE, FALSE, -1, FALSE),
   Text(FALSE, FALSE, 5, TRUE), Text(FALSE, TRUE, 5, FALSE), Text(TRUE, FALSE, 5, FALSE),
   Text(TRUE, TRUE, 5, FALSE), Text(TRUE, TRUE, 32, FALSE), Text(TRUE, TRUE, 33, FALSE),
   Text(TRUE, TRUE, 0, FALSE)}

Lines ==
  {ClientLine("p", Given("p", text)) : text \in Texts}
  \union {ClientLine("p", arguments) : arguments \in
            {<<>>, Attached("p", N(7)), Word(N(5)) \o Given("p", N(5)),
             Given("p", N(5)) \o Given("p", N(6)), Given("z", N(5)), Flag("h")}}
  \union {ClientLine("s", Given("s", text)) :
            text \in {Letters, HostAnd(N(8)), HostAnd(Letters)}}
  \union {ClientLine("n", Flag("n")), ClientLine("s", Flag("s"))}
  \union {ServerLine("d", Given("d", text)) :
            text \in {N(32), Text(TRUE, TRUE, 5, FALSE), Text(TRUE, TRUE, 33, FALSE)}}
  \union {ServerLine("c", Given("c", N(n))) : n \in {3, 4}}
  \union {ServerLine("p", arguments) : arguments \in
            {<<>>, Attached("p", N(5)) \o Word(N(5)),
             Given("p", N(5)) \o Given("s", N(16))}}
=============================================================================
