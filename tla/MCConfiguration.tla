-------------------------- MODULE MCConfiguration ---------------------------
(* Small instances of Configuration for TLC.                                 *)
EXTENDS Configuration

Port(n, t, r) == [name |-> n, type |-> t, role |-> r]
IoType(s, t, r) == [suffix |-> s, type |-> t, role |-> r]
Group(n, lo, hi, types) ==
  [header |-> TRUE, name |-> n, min |-> lo, max |-> hi, io_types |-> types]
Char(c) == [placeholder |-> FALSE, text |-> c]
Brace(n) == [placeholder |-> TRUE, text |-> n]
Command(template, parameters, outputs, group) ==
  [template |-> template, parameters |-> parameters, outputs |-> outputs,
   channel_group |-> group]

(* Group "a", channel 11 and group "a1", channel 1 have the same port names. *)
MCPortName ==
  [g \in {"a", "a1"}, ch \in {1, 10, 11}, suffix \in {"v", "w"} |->
     CASE <<g, ch>> \in {<<"a", 11>>, <<"a1", 1>>} -> IF suffix = "v" THEN "a11_v" ELSE "a11_w"
       [] <<g, ch>> = <<"a", 10>> -> IF suffix = "v" THEN "a10_v" ELSE "a10_w"
       [] OTHER -> "elsewhere"]

(* Ports written by hand: none, one that a group would also give, one name   *)
(* twice, ports without a field, no io section.                              *)
Ios ==
  {<<>>, Missing,
   <<Port("x", "float", "setting"), Port("a11_v", "string", "inout")>>,
   <<Port("x", "float", "output"), Port("x", "int", "input")>>,
   <<Port("x", "float", "output"), Port("y", Missing, "setting")>>,
   <<Port("x", "float", Missing)>>, <<Port(Missing, "float", "input")>>}

v == IoType("v", "float", "output")
w == IoType("w", "array", "inout")
Groups ==
  {<<>>, <<Group("a", 10, 11, <<v>>)>>, <<Group("a", 10, 10, <<v, w>>)>>,
   <<Group("a", 10, 11, <<v>>), Group("a1", 1, 1, <<IoType("v", "int", "input")>>)>>,
   <<Group("a", 11, 10, <<IoType("v", Missing, "input")>>)>>,
   <<Group("a", 11, 11, <<IoType("v", "float", Missing)>>)>>,
   <<[Group("a", 11, 11, <<v>>) EXCEPT !.header = FALSE]>>,
   <<Group("a", Missing, 11, <<v>>)>>, <<Group("a", 11, 11, Missing)>>}

Commands ==
  {[READ |-> Command(<<Char("R"), Brace("a")>>, <<>>, <<"v">>, "a"),
    SET |-> Command(<<Char("S"), Brace("p"), Char(","), Brace("q")>>, <<"p", "q">>, <<>>, Missing)],
   [READ |-> Command(<<Char("R")>>, <<>>, <<"x", "y">>, Missing),
    PORT |-> Command(<<Char("P"), Char("O"), Brace("p"), Char(","), Brace("q")>>,
                     <<"p", "q">>, <<"a11_v">>, Missing)],
   [READ |-> Command(<<Char("R"), Brace("p")>>, <<>>, Missing, "a")],
   Missing}

Usual == CHOOSE c \in Commands : c # Missing /\ DOMAIN c = {"READ", "SET"}
MCApis ==
  {Missing}
    \cup [header : {TRUE}, io : Ios, groups : Groups, commands : {Usual}]
    \cup [header : {TRUE}, io : {i \in Ios : i # Missing /\ Len(i) = 2},
          groups : {<<Group("a", 10, 11, <<v>>)>>}, commands : Commands]
    \cup [header : {FALSE}, io : {<<>>}, groups : {<<>>}, commands : {Usual}]
MCOthers ==
  {Missing,
   [header |-> TRUE, io |-> <<Port("x", "bool", "output")>>, groups |-> <<>>,
    commands |-> [READ |-> Command(<<Char("R")>>, <<>>, <<"x">>, Missing)]]}

(* A string and a number, as long as they may be and longer: with the        *)
(* template of SET the first two just fit the buffer with the ending, the    *)
(* third without it.                                                         *)
MCVerbs == [READ |-> 4, SET |-> 3, PORT |-> 4, CALIBRATE |-> 9]
Value(string, n) == [string |-> string, length |-> n]
Both(n, m) == ("p" :> Value(TRUE, n)) @@ ("q" :> Value(FALSE, m))
OfTemplate == "template" :> Value(TRUE, 8)
MCGiven ==
  {<<>>, OfTemplate, Both(7, 2) @@ OfTemplate, Both(1, 8) @@ OfTemplate,
   Both(7, 4) @@ OfTemplate, Both(8, 2) @@ OfTemplate, Both(9, 9) @@ OfTemplate,
   Both(7, 2) @@ OfTemplate @@ ("channel" :> Value(FALSE, 1))}
MCEnding == <<"\r", "\n">>

(* Devices of one group, with every order of up to seven gates.              *)
Fields == {"o", "r", "b", "p", ""}
Device(global, group, wiring) ==
  [global |-> global, groups |-> <<group>>, wiringDC |-> wiring]
Global ==
  [ScreeningGates |-> <<"">>, PlungerGates |-> <<"p">>, Ohmics |-> <<"o", "">>,
   BarrierGates |-> <<"b">>, ReservoirGates |-> <<"r">>]
TheGroup(order) ==
  [Name |-> "g", NumDots |-> 1, ScreeningGates |-> <<"">>, PlungerGates |-> <<"p">>,
   BarrierGates |-> <<"b">>, ReservoirGates |-> <<"r">>, Order |-> order]
Single == TheGroup(<<"o", "r", "b", "p", "b", "r", "o">>)
MCDevices ==
  {Device(Global, TheGroup(order), <<>>) :
     order \in UNION {[1..n -> Fields] : n \in 1..5}
                 \cup UNION {[1..n -> Fields \ {""}] : n \in 6..7}
                 \cup {<<"o", "r", x, y, z, "r", "o", "">> : x, y, z \in Fields}}
    \cup {Device([Global EXCEPT ![t] = gates], Single, <<>>) :
            t \in GateTypes, gates \in {<<"">>, <<"p", "s">>, <<"o", "b", "p", "r">>, Missing}}
    \cup {Device(Global, [Single EXCEPT ![t] = gates], wiring) :
            t \in GateTypes, gates \in {<<"">>, <<"b", "">>, <<"s">>, Missing},
            wiring \in {<<>>, [x \in {"o", "r"} |-> TRUE],
                        [x \in {"o", "r", "b", "p"} |-> x # "o"],
                        [x \in {"o", "r", "b", "p"} |-> TRUE]}}
    \cup {Device(Global, Single, wiring) :
            wiring \in {[x \in {"o", "r", "b", "p"} |-> TRUE],
                        [x \in {"o", "r", "b", "s"} |-> TRUE]}}
=============================================================================
