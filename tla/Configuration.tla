--------------------------- MODULE Configuration ----------------------------
(***************************************************************************)
(* The files that describe instruments, from the author's API template to  *)
(* the text an instrument is sent:                                         *)
(*   template-expander           src/template_expander.cpp                 *)
(*   validate-instrument-api, validate-instrument-config and               *)
(*   validate-quantum-dot-config src/SchemaValidator.cpp                   *)
(*   generate-instrument-config  src/instrument_configuration_generator.cpp*)
(*   the server's reading of them                                          *)
(*       src/server/ApiRefResolver.cpp and src/server/InstrumentRegistry.cpp*)
(*   the call of a command by a script, and the VISA plugin's templates    *)
(*       src/server/RuntimeContext.cpp, src/workers/generic_worker_main.cpp*)
(*       and plugins/visa/visa_plugin.c                                    *)
(* Tools and server run in any order, in directories that may each hold an *)
(* API file of the same name.  The validators change nothing: they are     *)
(* predicates.  Sections are maps or sequences and values scalars where    *)
(* the tools expect them; a node that is Missing is what their checks are  *)
(* about.  Names are none that YAML reads as a number or a truth value,    *)
(* which yaml_to_json would make of them.                                  *)
(***************************************************************************)
EXTENDS Integers, SequencesExt

CONSTANTS
  Missing,     (* a node that is not in a file, or no file                    *)
  Apis,        (* the API files an author writes, or Missing                  *)
  Others,      (* what may lie in another directory under the same name       *)
  PortName,    (* the name of a port by group, channel and suffix: the three  *)
               (* written one after the other, so not always different        *)
  Verbs,       (* the verbs a script calls, with their lengths                *)
  Given,       (* the parameters a script passes with a call, by name:        *)
               (* whether the value is a string, and the length of its text   *)
  MaxParams,   (* PLUGIN_MAX_PARAMS                                           *)
  MaxString,   (* PLUGIN_MAX_STRING_LEN                                       *)
  Size,        (* PLUGIN_MAX_PAYLOAD, the buffer for a command's text         *)
  Ending,      (* the termination characters of the connection                *)
  Tails,       (* how much of the stack may be taken for the end of a string  *)
               (* that is not terminated                                      *)
  Devices,     (* the quantum dot device files that occur                     *)
  MaxRuns      (* bounds how often a tool is run or an instrument created     *)

ASSUME ConfigurationAssumption ==
  /\ {MaxParams, MaxString, Size, MaxRuns} \subseteq Nat \ {0}
  /\ 0 \in Tails /\ Tails \subseteq Nat

Dirs == {"work", "configs"}

VARIABLES
  files,    (* the API file in each directory                                 *)
  source,   (* history: what template-expander wrote a file from              *)
  config,   (* the instrument configuration file                              *)
  started,  (* the instrument the server created: its metadata                *)
  sent,     (* the command an instrument was sent in the last step            *)
  ran,      (* how often a tool was run or an instrument created              *)
  device    (* a quantum dot device file                                      *)

vars == <<files, source, config, started, sent, ran, device>>

Has(node, keys) == \A k \in keys : node[k] # Missing
Elements(s) == {s[i] : i \in DOMAIN s}
Names(ports) == {p.name : p \in Elements(ports)}

TypeOK ==
  /\ DOMAIN files = Dirs /\ DOMAIN source = Dirs
  /\ config = Missing \/ {config.dir, config.from} \subseteq Dirs
  /\ started = Missing \/ started.cwd \in Dirs
  /\ sent = Missing \/ started # Missing
  /\ ran \in 0..MaxRuns
  /\ device # Missing => config = Missing /\ source = [d \in Dirs |-> Missing]

-----------------------------------------------------------------------------
(* template-expander.                                                        *)

Io(api) == IF api.io = Missing THEN <<>> ELSE api.io
IoTypes(g) == IF g.io_types = Missing THEN <<>> ELSE g.io_types

(* The ports of a group: a channel after the other, all io_types for each.   *)
GroupPorts(g) ==
  FlattenSeq([i \in 1..(g.max - g.min + 1) |->
    [j \in DOMAIN IoTypes(g) |->
       [name |-> PortName[g.name, g.min + i - 1, IoTypes(g)[j].suffix],
        type |-> IoTypes(g)[j].type, role |-> IoTypes(g)[j].role]]])

expand_channel_groups(api) ==
  [api EXCEPT !.io =
     Io(api) \o FlattenSeq([k \in DOMAIN api.groups |-> GroupPorts(api.groups[k])])]

(* Fault: of several ports of a name the last stays.                         *)
deduplicate_io_last(api) ==
  [api EXCEPT !.io = Reverse(FoldLeft(
     LAMBDA ps, p : IF p.name \in Names(ps) THEN ps ELSE Append(ps, p),
     <<>>, Reverse(api.io)))]

(* The first port of a name stays.                                           *)
deduplicate_io(api) ==
  [api EXCEPT !.io = FoldLeft(
     LAMBDA ps, p : IF p.name \in Names(ps) THEN ps ELSE Append(ps, p),
     <<>>, api.io)]

Expanded(api) == deduplicate_io(expand_channel_groups(api))

(* as<> throws when a node it reads is missing, and no file is written.      *)
Expandable(api) ==
  /\ \A p \in Elements(Io(api)) : Has(p, {"name"})
  /\ \A g \in Elements(api.groups) :
       /\ Has(g, {"name", "min", "max"})
       /\ g.min <= g.max =>
            \A t \in Elements(IoTypes(g)) : Has(t, {"suffix", "type", "role"})

(* A tool is run: nothing is sent in this step.                              *)
Run == ran < MaxRuns /\ ran' = ran + 1 /\ sent' = Missing

template_expander(from, to) ==
  /\ Run
  /\ files[from] # Missing
  /\ Expandable(files[from])
  /\ files' = [files EXCEPT ![to] = Expanded(files[from])]
  /\ source' = [source EXCEPT ![to] = files[from]]
  /\ UNCHANGED <<config, started, device>>

-----------------------------------------------------------------------------
(* validate-instrument-api.                                                  *)

validate_io_against_channel_groups(io, groups) ==
  \A g \in Elements(groups) : \A ch \in g.min..g.max : \A t \in Elements(g.io_types) :
    PortName[g.name, ch, t.suffix] \in Names(io)

(* header: channel_parameter has a name and is of type int.                  *)
GroupIsWhole(g) ==
  /\ g.header
  /\ Has(g, {"name", "min", "max", "io_types"})
  /\ \A t \in Elements(g.io_types) : Has(t, {"suffix", "type", "role"})

Placeholders(template) == {p.text : p \in {q \in Elements(template) : q.placeholder}}

CommandIsValid(c) ==
  /\ Has(c, {"template", "parameters", "outputs"})
  /\ Placeholders(c.template) \subseteq Elements(c.parameters) \cup {c.channel_group}
  /\ Has(c, {"channel_group"}) => c.channel_group \in Placeholders(c.template)

(* header: api_version, instrument and protocol are there.  What as<> throws *)
(* on is an error too.                                                       *)
validate_instrument_api(api) ==
  /\ api.header
  /\ Has(api, {"io", "commands"})
  /\ \A p \in Elements(api.io) : Has(p, {"name", "type", "role"})
  /\ \A g \in Elements(api.groups) : GroupIsWhole(g)
  /\ validate_io_against_channel_groups(api.io, api.groups)
  /\ \A v \in DOMAIN api.commands : CommandIsValid(api.commands[v])

-----------------------------------------------------------------------------
(* generate-instrument-config and validate-instrument-config.                *)

Configured == {"input", "output", "inout"}

(* Fault: ports that go both ways are forgotten.                             *)
io_config_one_way(io) ==
  FoldLeft(LAMBDA f, p : IF p.role \in {"input", "output"}
                         THEN (p.name :> [type |-> p.type, role |-> p.role]) @@ f
                         ELSE f,
           <<>>, io)

(* A map: of several ports of a name the last one counts.                    *)
io_config(io) ==
  FoldLeft(LAMBDA f, p : IF p.role \in Configured
                         THEN (p.name :> [type |-> p.type, role |-> p.role]) @@ f
                         ELSE f,
           <<>>, io)

(* The generator throws when a node it reads is missing.  It is run in       *)
(* directory cwd on the API file there, by its name, or on the file of       *)
(* directory abs, by its full path; it writes that path down as api_ref.     *)
generate_instrument_configuration(cwd, abs, dir) ==
  LET from == IF abs = Missing THEN cwd ELSE abs
      api == files[from]
  IN  /\ Run
      /\ api # Missing
      /\ \A p \in Elements(Io(api)) :
           Has(p, {"role"}) /\ (p.role \in Configured => Has(p, {"name", "type"}))
      /\ config' = [api_ref |-> abs, io_config |-> io_config(Io(api)), dir |-> dir,
                    from |-> from, api |-> api]
      /\ UNCHANGED <<files, source, started, device>>

(* name, api_ref and connection are always written; an empty io_config is    *)
(* written as null, which is no map.                                         *)
validate_instrument_configuration(c) ==
  /\ DOMAIN c.io_config # {}
  /\ \A n \in DOMAIN c.io_config :
       /\ c.io_config[n].type \in {"int", "float", "string", "bool"}
       /\ c.io_config[n].role \in Configured

-----------------------------------------------------------------------------
(* The server.                                                               *)

(* Fault: the current directory comes first.                                 *)
resolve_api_ref_cwd(ref, dir, cwd) ==
  IF ref # Missing THEN ref ELSE IF files[cwd] # Missing THEN cwd ELSE dir

(* The directory of the file an api_ref means, for a configuration in dir    *)
(* and a server running in cwd.                                              *)
resolve_api_ref(ref, dir, cwd) ==
  IF ref # Missing THEN ref ELSE IF files[dir] # Missing THEN dir ELSE cwd

(* The file must be there.  Nothing is validated.                            *)
create_instrument(cwd) ==
  /\ Run
  /\ config # Missing /\ started = Missing
  /\ LET at == resolve_api_ref(config.api_ref, config.dir, cwd)
     IN  /\ files[at] # Missing
         /\ started' = [config |-> config, api |-> files[at], cwd |-> cwd]
  /\ UNCHANGED <<files, source, config, device>>

remove_instrument ==
  /\ started # Missing
  /\ started' = Missing /\ sent' = Missing
  /\ UNCHANGED <<files, source, config, ran, device>>

find_command_def(verb) ==
  IF started.api.commands # Missing /\ verb \in DOMAIN started.api.commands
  THEN started.api.commands[verb] ELSE Missing

Outputs(verb) ==
  LET def == find_command_def(verb)
  IN  IF def # Missing /\ Has(def, {"outputs"}) THEN def.outputs ELSE <<>>

command_expects_response(verb) == Outputs(verb) # <<>>

(* The type of the first output: of the first port of that name that has     *)
(* one, else of the first such io_type of a group.                           *)
get_response_type(verb) ==
  LET out == Head(Outputs(verb))
      ports == SelectSeq(Io(started.api), LAMBDA p : p.name = out /\ Has(p, {"type"}))
      suffixes == SelectSeq(FlattenSeq([k \in DOMAIN started.api.groups |->
                                          IoTypes(started.api.groups[k])]),
                            LAMBDA t : t.suffix = out /\ Has(t, {"type"}))
  IN  IF ~command_expects_response(verb) \/ ports \o suffixes = <<>> THEN Missing
      ELSE Head(ports \o suffixes).type

-----------------------------------------------------------------------------
(* A call, up to what the VISA plugin writes.  Texts are sequences of        *)
(* characters; the name of a parameter counts as one.  (A name is cut like a *)
(* verb; no placeholder of a template that was cut has one so long.)         *)

Written(piece) == IF piece.placeholder THEN <<"{", piece.text, "}">> ELSE <<piece.text>>
Characters(template) == FlattenSeq([i \in DOMAIN template |-> Written(template[i])])
Literal(text) == [i \in DOMAIN text |-> [placeholder |-> FALSE, text |-> text[i]]]

(* What a field of a PluginCommand holds of a template.  A placeholder that  *)
(* is cut has no closing brace: it is text.                                  *)
Cut(template) ==
  FoldLeft(LAMBDA out, piece :
             LET room == MaxString - 1 - Len(Characters(out))
             IN  IF Len(Written(piece)) <= room THEN Append(out, piece)
                 ELSE out \o Literal(SubSeq(Written(piece), 1, room)),
           <<>>, template)

(* The parameters that reach the plugin: the map has no order, and when      *)
(* there are too many for a PluginCommand any of them are left out.  Strings *)
(* are cut.                                                                  *)
to_plugin_command(table) ==
  {[p \in names |-> IF table[p].string
                    THEN [table[p] EXCEPT !.length = Min({@, MaxString - 1})]
                    ELSE table[p]] :
     names \in {n \in SUBSET DOMAIN table :
                 Cardinality(n) = Min({Cardinality(DOMAIN table), MaxParams})}}

(* The plugin takes the verb for the template unless it gets one.            *)
Template(verb, params) ==
  IF "template" \in DOMAIN params THEN find_command_def(verb).template
  ELSE [i \in 1..Verbs[verb] |-> [placeholder |-> FALSE, text |-> verb]]

(* A string that fills value_str is copied without its terminator; a number  *)
(* is cut and terminated.                                                    *)
Unterminated(params) ==
  {tail \in [DOMAIN params -> Tails] :
     \A p \in DOMAIN params :
       tail[p] # 0 => params[p].string /\ params[p].length = MaxString - 1}

Text(piece, params, tail) ==
  IF piece.placeholder /\ piece.text \in DOMAIN params
  THEN [i \in 1..Min({params[piece.text].length, MaxString - 1}) |-> piece.text]
         \o [i \in 1..tail[piece.text] |-> "?"]
  ELSE Written(piece)

(* Fault: a value that fills the buffer exactly is dropped.                  *)
substitute_template_strict(template, params, tail) ==
  FoldLeft(LAMBDA out, piece :
             IF Len(out) + Len(Text(piece, params, tail)) < Size - 1
             THEN out \o Text(piece, params, tail) ELSE out,
           <<>>, template)

(* A piece that does not fit is left out.                                    *)
substitute_template(template, params, tail) ==
  FoldLeft(LAMBDA out, piece :
             IF Len(out) + Len(Text(piece, params, tail)) <= Size - 1
             THEN out \o Text(piece, params, tail) ELSE out,
           <<>>, template)

(* As much of the ending as there is room for.                               *)
Terminated(text) ==
  text \o SubSeq(Ending, 1, Min({Len(Ending), Size - 1 - Len(text)}))

(* table: what the script passes, the channel, and perhaps the command's     *)
(* template.  The plugin keeps nothing of a call, so one between two other   *)
(* steps is enough.                                                          *)
call(verb, table) ==
  /\ started # Missing /\ sent = Missing
  /\ "template" \in DOMAIN table => /\ find_command_def(verb) # Missing
                                    /\ Has(find_command_def(verb), {"template"})
  /\ \E params \in to_plugin_command(table) : \E tail \in Unterminated(params) :
       LET template == Template(verb, params)
       IN  sent' = [verb |-> verb, table |-> table, arrived |-> DOMAIN params,
                    template |-> template,
                    text |-> Terminated(substitute_template(Cut(template), params, tail))]
  /\ UNCHANGED <<files, source, config, started, ran, device>>

-----------------------------------------------------------------------------
(* validate-quantum-dot-config.                                              *)

GateTypes == {"ScreeningGates", "PlungerGates", "BarrierGates", "ReservoirGates"}

(* A text is the sequence of what stands between its semicolons; an empty    *)
(* last field is no gate.                                                    *)
split_semicolon(text) == IF Last(text) = "" THEN Front(text) ELSE text

Gates(d, type) ==
  IF d.global[type] = Missing THEN {} ELSE Elements(split_semicolon(d.global[type]))

(* Fault: the two counts are not compared.                                   *)
OrderIsValid_any(d, order) ==
  LET n == Len(order)
  IN  /\ n >= 3
      /\ {order[1], order[n]} \subseteq Gates(d, "Ohmics")
      /\ {order[2], order[n - 1]} \subseteq Gates(d, "ReservoirGates")
      /\ \A i \in 3..(n - 2) :
           order[i] \in Gates(d, IF i % 2 = 1 THEN "BarrierGates" ELSE "PlungerGates")

(* Positions count from 1; the code's even i are the odd ones here.          *)
OrderIsValid(d, order) ==
  LET n == Len(order)
      barriers == {i \in 3..(n - 2) : i % 2 = 1}
      plungers == {i \in 3..(n - 2) : i % 2 = 0}
  IN  /\ n >= 3
      /\ {order[1], order[n]} \subseteq Gates(d, "Ohmics")
      /\ {order[2], order[n - 1]} \subseteq Gates(d, "ReservoirGates")
      /\ \A i \in barriers : order[i] \in Gates(d, "BarrierGates")
      /\ \A i \in plungers : order[i] \in Gates(d, "PlungerGates")
      /\ Cardinality(barriers) = Cardinality(plungers) + 1

GatesAreUsed(d) ==
  \A t \in GateTypes : \A gate \in Gates(d, t) :
    \E g \in Elements(d.groups), u \in GateTypes :
      gate \in Elements(split_semicolon(g[u]))

(* wiringDC maps connections to whether both values are there and not        *)
(* negative.                                                                 *)
WiringIsValid(d) ==
  /\ Cardinality(DOMAIN d.wiringDC) \in
       {0, FoldSet(LAMBDA t, n : n + Len(split_semicolon(d.global[t])), 0,
                   GateTypes \cup {"Ohmics"})}
  /\ \A w \in DOMAIN d.wiringDC : d.wiringDC[w]

validate_quantum_dot_device(d) ==
  /\ Has(d, {"global", "groups", "wiringDC"})
  /\ Has(d.global, GateTypes \cup {"Ohmics"})
  /\ \A g \in Elements(d.groups) :
       /\ Has(g, GateTypes \cup {"Name", "NumDots", "Order"})
       /\ \A t \in GateTypes : Elements(split_semicolon(g[t])) \subseteq Gates(d, t)
       /\ OrderIsValid(d, split_semicolon(g.Order))
  /\ GatesAreUsed(d)
  /\ WiringIsValid(d)

(* A device file has nothing to do with the others, and is written and       *)
(* validated where there are none.                                           *)
write_device(d) ==
  /\ device' = d
  /\ UNCHANGED <<files, source, config, started, sent, ran>>

-----------------------------------------------------------------------------
Init ==
  /\ \E api \in Apis, other \in Others :
       files = [d \in Dirs |-> IF d = "work" THEN api ELSE other]
  /\ source = [d \in Dirs |-> Missing]
  /\ config = Missing /\ started = Missing /\ sent = Missing /\ device = Missing /\ ran = 0

Instrument ==
  \/ \E from, to \in Dirs : template_expander(from, to)
  \/ \E cwd, dir \in Dirs, abs \in Dirs \cup {Missing} :
       generate_instrument_configuration(cwd, abs, dir)
  \/ \E cwd \in Dirs : create_instrument(cwd)
  \/ \E table \in Given, verb \in DOMAIN Verbs : call(verb, table)
  \/ remove_instrument

Next ==
  \/ Instrument
  \/ /\ device = Missing
     /\ \A dir \in Dirs : files[dir] = Missing
     /\ \E d \in Devices : write_device(d)

Spec == Init /\ [][Next]_vars

-----------------------------------------------------------------------------
(* template-expander finishes a template: of each name one port is left, the *)
(* first the author wrote if there is one; the validator's complaint about   *)
(* channels without a port is gone, for every group, channel and suffix,     *)
(* even where the names of two groups' ports run into each other; nothing    *)
(* but ports is added; running it again changes nothing; and the file is     *)
(* valid if the template was but for its missing ports.                      *)
ExpansionIsComplete ==
  \A d \in Dirs : source[d] # Missing =>
    LET api == files[d]
        template == source[d]
    IN  /\ Cardinality(Names(api.io)) = Len(api.io)
        /\ \A i \in DOMAIN Io(template) :
             \/ \E j \in 1..(i - 1) : template.io[j].name = template.io[i].name
             \/ template.io[i] \in Elements(api.io)
        /\ \A g \in Elements(api.groups) : \A ch \in g.min..g.max :
             \A t \in Elements(IoTypes(g)) : PortName[g.name, ch, t.suffix] \in Names(api.io)
        /\ [api EXCEPT !.io = template.io] = template
        /\ Expanded(api) = api
        /\ /\ template.header /\ Has(template, {"commands"})
           /\ \A p \in Elements(Io(template)) : Has(p, {"name", "type", "role"})
           /\ \A g \in Elements(template.groups) : GroupIsWhole(g)
           /\ \A v \in DOMAIN template.commands : CommandIsValid(template.commands[v])
           => validate_instrument_api(api)

(* A configuration generated from an API whose port names are all different  *)
(* configures exactly its input, output and inout ports, each as the API has *)
(* it; it is valid if there is such a port and all have a scalar type; and   *)
(* the type the server expects of a response from a configured port is the   *)
(* configured one.                                                           *)
ConfigurationsFit ==
  (config # Missing /\ Cardinality(Names(Io(config.api))) = Len(Io(config.api))) =>
    LET ports == {p \in Elements(Io(config.api)) : p.role \in Configured}
    IN  /\ DOMAIN config.io_config = {p.name : p \in ports}
        /\ \A p \in ports : config.io_config[p.name] = [type |-> p.type, role |-> p.role]
        /\ validate_instrument_configuration(config) <=>
             ports # {} /\ \A p \in ports : p.type \in {"int", "float", "string", "bool"}
        /\ started # Missing /\ started.api = config.api /\ Has(config.api, {"commands"}) =>
             \A verb \in DOMAIN config.api.commands :
               command_expects_response(verb)
                 /\ Head(Outputs(verb)) \in DOMAIN config.io_config =>
                   get_response_type(verb) = config.io_config[Head(Outputs(verb))].type

(* The server starts an instrument with the API its configuration was        *)
(* generated from, if that has not changed since, no other file lies in its  *)
(* place next to the configuration, and the server can find it: the          *)
(* configuration names it by its full path, lies next to it, or the server   *)
(* runs where the generator ran.                                             *)
StartsWithItsApi ==
  [][LET c == config
     IN  (/\ started = Missing /\ started' # Missing
          /\ files[c.from] = c.api
          /\ \/ c.api_ref # Missing
             \/ c.dir = c.from
             \/ files[c.dir] = Missing /\ started'.cwd = c.from)
         => started'.api = c.api]_vars

(* The text the VISA plugin writes fits the buffer.  It is the command the   *)
(* script meant, all of it with every value in its place, and then the       *)
(* ending, whenever that fits, the values the template names arrived, the    *)
(* template is shorter than PLUGIN_MAX_STRING_LEN, and so are the values; a  *)
(* string must be one shorter still.                                         *)
CommandsAreWhole ==
  sent # Missing =>
    LET used == Placeholders(sent.template) \cap DOMAIN sent.table
        whole == FlattenSeq([i \in DOMAIN sent.template |->
                   IF Placeholders(<<sent.template[i]>>) \cap used # {}
                   THEN [j \in 1..sent.table[sent.template[i].text].length |->
                           sent.template[i].text]
                   ELSE Written(sent.template[i])])
    IN  /\ Len(sent.text) < Size
        /\ /\ used \subseteq sent.arrived
           /\ Len(Characters(sent.template)) < MaxString
           /\ \A p \in used :
                sent.table[p].length < MaxString - (IF sent.table[p].string THEN 1 ELSE 0)
           => /\ Len(whole) < Size => IsPrefix(whole, sent.text)
              /\ Len(whole) + Len(Ending) < Size => sent.text = whole \o Ending

Chain(k) ==
  <<"Ohmics", "ReservoirGates">>
    \o FlattenSeq([i \in 1..k |-> <<"BarrierGates", "PlungerGates">>])
    \o <<"BarrierGates", "ReservoirGates", "Ohmics">>

(* A device is accepted only if every group is a chain of k dots: a contact  *)
(* and a reservoir at either end, and between them k + 1 barriers with the   *)
(* k plungers between the barriers; and every gate is in a group.            *)
DevicesAreChains ==
  device # Missing =>
    /\ \A g \in Elements(device.groups) :
         LET order == split_semicolon(g.Order)
         IN  OrderIsValid(device, order) <=>
               \E k \in 0..Len(order) :
                 /\ Len(order) = Len(Chain(k))
                 /\ \A i \in DOMAIN order : order[i] \in Gates(device, Chain(k)[i])
    /\ validate_quantum_dot_device(device) =>
         UNION {Gates(device, t) : t \in GateTypes}
           = UNION {Elements(split_semicolon(g[t])) :
                      g \in Elements(device.groups), t \in GateTypes}

-----------------------------------------------------------------------------
(* Statements of the documentation that do not hold of the code.             *)

(* docs: "template" is the command string sent to the instrument.            *)
TemplatesAreSent ==
  (sent # Missing /\ find_command_def(sent.verb) # Missing)
    => sent.template = find_command_def(sent.verb).template

(* A comment in validate_quantum_dot_device: wiringDC "must be empty or      *)
(* contain all global gates"; only the numbers are compared.                 *)
WiringNamesTheGates ==
  (device # Missing /\ validate_quantum_dot_device(device) /\ device.wiringDC # <<>>)
    => DOMAIN device.wiringDC = UNION {Gates(device, t) : t \in GateTypes \cup {"Ohmics"}}
=============================================================================
