----------------------------- MODULE Devicetree -----------------------------
(***************************************************************************)
(* zephyr-build/src/devicetree: the generator that turns zephyr.dts and    *)
(* devicetree_generated.h into the Rust module zephyr::devicetree, with    *)
(* the augmentations of dt-rust.yaml.  It runs on the host, once, and what *)
(* is at stake is its output: the device each get_instance gets, the calls *)
(* of the generated code to functions that may not be there, and the trees *)
(* it panics on.                                                           *)
(*                                                                         *)
(* The input is written by WriteNode, node by node in document order: leds *)
(* and keys below their parents, with gpios that refer to controllers by   *)
(* label, and partitions below the flash of a controller, listed in        *)
(* dt-rust.yaml or not.  The device tree compiler sees to labels being     *)
(* unique and there; a gpios or reg that is absent or other than what the  *)
(* generator expects gets through.  A node's name is its position among    *)
(* its siblings, so nodes of different parents have equal names; the       *)
(* conversion of names to identifiers and the text of other properties are *)
(* left out.                                                               *)
(***************************************************************************)
EXTENDS Integers, Sequences, FiniteSets

CONSTANTS
    Labels,    \* the labels of controllers
    MaxNodes,  \* bound on the nodes of a tree
    MaxWords,  \* bound on the words of a property
    MaxCells   \* bound on #gpio-cells

\* A word that is a number, and the label of a node that has none.
Number == "number"
NoLabel == "none"

ASSUME DevicetreeAssumption == /\ {MaxNodes, MaxWords, MaxCells} \subseteq Nat
                               /\ Number \notin Labels /\ NoLabel \notin Labels

VARIABLES
    pass,     \* what the generator does
    dts,      \* the nodes of zephyr.dts: kind, parent, status, label and the
              \* words of gpios or reg
    dt_path,  \* OrdMap: the path of the last PATH line, as a node
    lines,    \* devicetree_generated.h: the nodes whose lines have been read
    ords,     \* OrdMap: the number of each path
    nodes,    \* the Nodes parsed so far: their route and ord
    labels,   \* TreeBuilder: the node of each label
    target,   \* the nodes that each node's phandles are resolved to
    parent,   \* the parent of each node, as parent_walk has set it
    out,      \* what was generated for each node
    words,    \* a property: its words
    iter,     \* Value::to_tokens: how many words were taken
    twords    \* Value::to_tokens: the tokens made

treeVars == <<dts, dt_path, lines, ords, nodes, labels, target, parent, out>>
wordVars == <<words, iter, twords>>
dtVars == <<pass, treeVars, wordVars>>

-----------------------------------------------------------------------------
(* The input.                                                              *)

NoNode == 0
Root == 1
Nodes == DOMAIN dts

\* The kinds of nodes, with the kinds of their parents.  other_flash is a flash
\* controller that dt-rust.yaml does not list.
Top == {"root", "bus"}
ParentKind == [bus |-> Top, gpio |-> Top, leds |-> Top, keys |-> Top,
               pwm_leds |-> Top, flash |-> Top, other_flash |-> Top,
               led |-> {"leds"}, key |-> {"keys"}, pwm_led |-> {"pwm_leds"},
               nv_flash |-> {"flash", "other_flash"},
               partitions |-> {"nv_flash"}, partition |-> {"partitions"}]

\* The nodes that drivers are made from may be disabled.
Devices == {"gpio", "pwm_leds", "flash"}
Status(kind) == IF kind \in Devices \cup {"other_flash"} THEN {"okay", "disabled"}
                                                       ELSE {"absent"}
Refers(kind) == kind \in {"led", "key"}

\* gpios and reg: absent, with a number first, with one pin, with two pins.
Gpios == {<<>>, <<Number>>} \cup {<<l, Number>> : l \in Labels}
                            \cup {<<l, Number, l, Number>> : l \in Labels}
Reg == {<<>>, <<Number, Number>>}
Prop(kind) == CASE Refers(kind) -> Gpios
                [] kind = "partition" -> Reg
                [] OTHER -> {<<>>}

\* The nodes that a node's phandles name.
Referred(n) == {m \in Nodes : \E i \in DOMAIN dts[n].prop :
                                  dts[n].prop[i] = dts[m].label}

Siblings(n) == {m \in Nodes : m < n /\ dts[m].parent = dts[n].parent}
Name(n) == Cardinality(Siblings(n)) + 1

\* The names on the way from the root to a node.
Route[n \in Nat] ==
    IF n \notin Nodes \/ n = Root THEN <<>>
    ELSE Append(Route[dts[n].parent], Name(n))

\* The node and those around it: where the next node may be written.
Open[n \in Nat] == IF n = NoNode THEN {} ELSE {n} \cup Open[dts[n].parent]

\* A number, or a phandle of a node that may be a gpio-controller and may have
\* #gpio-cells; -1 is none.
Word == [number : {TRUE}, gpio : {FALSE}, cells : {-1}]
        \cup [number : {FALSE}, gpio : {FALSE}, cells : {1}]
        \cup [number : {FALSE}, gpio : {TRUE}, cells : -1..MaxCells]

DtInit ==
    /\ dts = <<[kind |-> "root", parent |-> NoNode, status |-> "absent",
                label |-> NoLabel, prop |-> <<>>]>>
    /\ dt_path = NoNode
    /\ lines = <<>>
    /\ ords = [p \in {} |-> 0]
    /\ nodes = <<>>
    /\ labels = [l \in {} |-> NoNode]
    /\ target = <<>>
    /\ parent = <<>>
    /\ out = <<>>
    /\ \/ pass = "write" /\ words = <<>>
       \/ /\ pass = "to_tokens"
          /\ words \in UNION {[1..k -> Word] : k \in 1..MaxWords}
    /\ iter = 0
    /\ twords = <<>>

WriteNode(kind, p, status, label, prop) ==
    /\ pass = "write"
    /\ Len(dts) < MaxNodes
    /\ p \in Open[Len(dts)]
    /\ dts[p].kind \in ParentKind[kind]
    /\ label = NoLabel \/ \A m \in Nodes : dts[m].label # label
    /\ dts' = Append(dts, [kind |-> kind, parent |-> p, status |-> status,
                           label |-> label, prop |-> prop])
    /\ UNCHANGED <<pass, dt_path, lines, ords, nodes, labels, target, parent,
                   out, wordVars>>

\* The compiler has accepted the tree: every phandle is of a controller.
Compiled ==
    /\ pass = "write"
    /\ \A n \in Nodes : \A i \in DOMAIN dts[n].prop : dts[n].prop[i] \in Labels =>
          \E m \in Nodes : dts[m].kind = "gpio" /\ dts[m].label = dts[n].prop[i]
    /\ pass' = "ords"
    /\ UNCHANGED <<treeVars, wordVars>>

-----------------------------------------------------------------------------
(* OrdMap::new.  The header has the nodes in the order of their numbers,   *)
(* each with its PATH line before its ORD line.                            *)

Numbered == {lines[i] : i \in DOMAIN lines}

\* A node's number is above those of its parent and of the nodes it refers to.
Ready == {n \in Nodes \ Numbered :
            {dts[n].parent} \cup Referred(n) \subseteq Numbered \cup {NoNode}}

\* The node whose lines come next.
NextNode == CHOOSE n \in Ready : \A m \in Ready : n <= m

PathLine ==
    /\ pass = "ords"
    /\ dt_path \in Numbered \cup {NoNode}
    /\ dt_path' = NextNode
    /\ UNCHANGED <<pass, dts, lines, ords, nodes, labels, target, parent, out,
                   wordVars>>

\* Mutant: a path gets the number of the ORD line before its own.
OrdLineLate ==
    /\ pass = "ords"
    /\ dt_path \notin Numbered \cup {NoNode}
    /\ LET path == Route[dt_path]
           ord == IF lines = <<>> THEN 0 ELSE Len(lines) - 1
       IN  ords' = [p \in DOMAIN ords \cup {path} |->
                      IF p = path THEN ord ELSE ords[p]]
    /\ lines' = Append(lines, dt_path)
    /\ pass' = IF Len(lines) + 1 = Len(dts) THEN "parse" ELSE "ords"
    /\ UNCHANGED <<dts, dt_path, nodes, labels, target, parent, out, wordVars>>

\* The ORD line must be of the node that the PATH line was of.
OrdLine ==
    /\ pass = "ords"
    /\ dt_path \notin Numbered \cup {NoNode}
    /\ IF dt_path = NextNode
       THEN /\ LET path == Route[dt_path]
               IN  ords' = [p \in DOMAIN ords \cup {path} |->
                              IF p = path THEN Len(lines) ELSE ords[p]]
            /\ lines' = Append(lines, dt_path)
            /\ pass' = IF Len(lines) + 1 = Len(dts) THEN "parse" ELSE "ords"
       ELSE pass' = "panicked" /\ UNCHANGED <<ords, lines>>
    /\ UNCHANGED <<dts, dt_path, nodes, labels, target, parent, out, wordVars>>

-----------------------------------------------------------------------------
(* DeviceTree::new: parse, then phandle_walk, then parent_walk.            *)

\* LazyName: the path and the route of the parent and the node's name.
NodeRoute(n) == Append(nodes[dts[n].parent].route, Name(n))

\* walk_node: the node and its labels.  A path without a number is a panic.
WalkNode ==
    /\ pass = "parse"
    /\ LET n == Len(nodes) + 1
           route == IF n = Root THEN <<>> ELSE NodeRoute(n)
           label == {dts[n].label} \ {NoLabel}
       IN  /\ nodes' = Append(nodes, [route |-> route,
                  ord |-> IF route \in DOMAIN ords THEN ords[route] ELSE 0])
           /\ labels' = [l \in DOMAIN labels \cup label |->
                           IF l \in label THEN n ELSE labels[l]]
           /\ pass' = CASE route \notin DOMAIN ords -> "panicked"
                        [] n = Len(dts) -> "phandles"
                        [] OTHER -> "parse"
    /\ UNCHANGED <<dts, dt_path, lines, ords, target, parent, out,
                   wordVars>>

\* phandle_resolve of every phandle in the tree; "Missing phandle" is a panic.
PhandleWalk ==
    /\ pass = "phandles"
    /\ LET phandles(n) == {i \in DOMAIN dts[n].prop : dts[n].prop[i] # Number}
       IN  IF \A n \in Nodes : \A i \in phandles(n) : dts[n].prop[i] \in DOMAIN labels
           THEN /\ target' = [n \in Nodes |->
                                [i \in phandles(n) |-> labels[dts[n].prop[i]]]]
                /\ pass' = "parents"
           ELSE pass' = "panicked" /\ UNCHANGED target
    /\ UNCHANGED <<dts, dt_path, lines, ords, nodes, labels, parent, out,
                   wordVars>>

ParentWalk ==
    /\ pass = "parents"
    /\ parent' = [n \in Nodes |-> dts[n].parent]
    /\ pass' = "generate"
    /\ UNCHANGED <<dts, dt_path, lines, ords, nodes, labels, target, out,
                   wordVars>>

-----------------------------------------------------------------------------
(* The augmentations: rules, the option that gates them and RawInfo.       *)

Aug(rules, cfg, raw, level, args) ==
    [rules |-> rules, cfg |-> cfg, raw |-> raw, level |-> level, args |-> args]

\* The entries of dt-rust.yaml with gpios, pwm-leds and flash.  Those of led
\* strips and of i2c are like the ones with Myself here.
GpioAugmentations ==
    {Aug({<<"gpio", 0>>}, "GPIO", "Myself", 0, "none"),
     Aug({<<"leds", 1>>}, "GPIO", "Phandle", 0, "none"),
     Aug({<<"keys", 1>>}, "none", "Phandle", 0, "none")}
PwmAugmentations ==
    {Aug({<<"pwm_leds", 0>>}, "LED_PWM", "Myself", 0, "none"),
     Aug({<<"pwm_leds", 1>>}, "LED_PWM", "Parent", 1, "ChildIdx")}
FlashAugmentations ==
    {Aug({<<"flash", 0>>}, "FLASH", "Myself", 0, "none"),
     Aug({<<"partitions", 1>>, <<"nv_flash", 2>>}, "FLASH", "Parent", 3, "Reg")}
Augmentations == GpioAugmentations \cup PwmAugmentations \cup FlashAugmentations

\* The node that is level levels above each node, or NoNode above the root.
Ancestor[level \in Nat] ==
    [n \in Nodes \cup {NoNode} |->
       IF level = 0 \/ n = NoNode THEN n ELSE Ancestor[level - 1][parent[n]]]

\* Rule::is_compatible and parent_compatible; all rules must match.
IsCompatible(aug, n) ==
    \A rule \in aug.rules :
        LET m == Ancestor[rule[2]][n] IN m # NoNode /\ dts[m].kind = rule[1]

Enabled(n) == dts[n].status \in {"okay", "absent"}

Item(aug, defines, calls, ord, index) ==
    [aug |-> aug, defines |-> defines, calls |-> calls, ord |-> ord,
     index |-> index]

\* Node::child_index.
ChildIndex(n) == Cardinality({m \in Nodes : m < n /\ parent[m] = parent[n]})

\* RawInfo::generate.  Calls are by route, a Parent's with super.
Myself(aug, n) ==
    IF ~Enabled(n) THEN {}
    ELSE {Item(aug, {"get_instance_raw", "get_static_raw", "get_instance"},
               {}, nodes[n].ord, 0)}

\* Mutant: words after the phandle that are not numbers are ignored.
PhandlePanicsFirst(n) ==
    dts[n].prop = <<>> \/ dts[n].prop[1] = Number

\* The gpios is absent, has no phandle first or has another one after it.
PhandlePanics(n) ==
    \/ dts[n].prop = <<>>
    \/ dts[n].prop[1] = Number
    \/ \E i \in 2..Len(dts[n].prop) : dts[n].prop[i] # Number

Phandle(aug, n) ==
    {Item(aug, {"get_instance"},
          {nodes[target[n][1]].route} \X {"get_instance_raw", "get_static_raw"},
          NoNode, 0)}

AncestorDisabled(aug, n) ==
    LET ancestor == Ancestor[aug.level][n]
    IN  ancestor # NoNode /\ ~Enabled(ancestor)

\* ArgInfo::args: the unwrap of reg.
ParentPanics(aug, n) ==
    ~AncestorDisabled(aug, n) /\ aug.args = "Reg" /\ dts[n].prop = <<>>

ParentItem(aug, n) ==
    Item(aug, {"get_instance"},
         {<<SubSeq(nodes[n].route, 1, Len(nodes[n].route) - aug.level),
            "get_instance_raw">>},
         NoNode, IF aug.args = "ChildIdx" THEN ChildIndex(n) ELSE 0)

\* Mutant: the ancestor's status is not checked.
ParentAlways(aug, n) == {ParentItem(aug, n)}

Parent(aug, n) ==
    IF AncestorDisabled(aug, n) THEN {} ELSE {ParentItem(aug, n)}

Panics(aug, n) ==
    \/ aug.raw = "Phandle" /\ PhandlePanics(n)
    \/ aug.raw = "Parent" /\ ParentPanics(aug, n)

Generate(aug, n) ==
    CASE aug.raw = "Myself" -> Myself(aug, n)
      [] aug.raw = "Phandle" -> Phandle(aug, n)
      [] OTHER -> Parent(aug, n)

\* DeviceTree::node_walk: each augmentation is given each node.
NodeWalk ==
    /\ pass = "generate"
    /\ LET n == Len(out) + 1
           augs == {aug \in Augmentations : IsCompatible(aug, n)}
       IN  IF \E aug \in augs : Panics(aug, n)
           THEN pass' = "panicked" /\ UNCHANGED out
           ELSE /\ out' = Append(out, UNION {Generate(aug, n) : aug \in augs})
                /\ pass' = IF n = Len(dts) THEN "done" ELSE "generate"
    /\ UNCHANGED <<dts, dt_path, lines, ords, nodes, labels, target, parent,
                   wordVars>>

-----------------------------------------------------------------------------
(* Value::to_tokens of a property's words.                                 *)

\* The lookahead: the controller's cells follow, and all are numbers.
HasCells(k) ==
    /\ words[k].gpio
    /\ words[k].cells >= 0
    /\ k + words[k].cells <= Len(words)
    /\ \A j \in k+1..k+words[k].cells : words[j].number

\* Mutant: the words that were looked at are not taken.
ToTokensKeeps ==
    /\ pass = "to_tokens"
    /\ LET k == iter + 1
           args == IF HasCells(k) THEN words[k].cells ELSE 0
       IN  /\ iter' = k
           /\ twords' = Append(twords, <<k, IF HasCells(k) THEN "Gpio"
                                            ELSE "other", args>>)
    /\ pass' = IF iter' = Len(words) THEN "done" ELSE pass
    /\ UNCHANGED <<treeVars, words>>

\* The next word becomes a token: Gpio with its cells, or by itself.
ToTokens ==
    /\ pass = "to_tokens"
    /\ LET k == iter + 1
           args == IF HasCells(k) THEN words[k].cells ELSE 0
       IN  /\ iter' = k + args
           /\ twords' = Append(twords, <<k, IF HasCells(k) THEN "Gpio"
                                            ELSE "other", args>>)
    /\ pass' = IF iter' = Len(words) THEN "done" ELSE pass
    /\ UNCHANGED <<treeVars, words>>

-----------------------------------------------------------------------------
Write ==
    \E kind \in DOMAIN ParentKind :
        \E p \in Nodes, status \in Status(kind), prop \in Prop(kind),
           label \in IF kind = "gpio" THEN Labels \cup {NoLabel} ELSE {NoLabel} :
            WriteNode(kind, p, status, label, prop)

DtNext ==
    \/ Write \/ Compiled
    \/ PathLine \/ OrdLine
    \/ WalkNode \/ PhandleWalk \/ ParentWalk \/ NodeWalk
    \/ ToTokens
    \/ pass \in {"done", "panicked"} /\ UNCHANGED dtVars

DtSpec == DtInit /\ [][DtNext]_dtVars

-----------------------------------------------------------------------------
(* Properties.                                                             *)

\* A build enables some of the options that gate augmentations; the items it
\* leaves in the generated code, and what they define.
Builds == SUBSET {"GPIO", "LED_PWM", "FLASH"}
Live(n, build) == {i \in out[n] : i.aug.cfg \in build \cup {"none"}}
Defines(n, build) == UNION {i.defines : i \in Live(n, build)}
ModulesAt(route) == {n \in Nodes : nodes[n].route = route}

\* The device a node is about: itself, the controller it refers to, or the one
\* it is a part of.
About(n) ==
    CASE Refers(dts[n].kind) -> CHOOSE m \in Nodes : dts[m].label = dts[n].prop[1]
      [] dts[n].kind = "pwm_led" -> dts[n].parent
      [] dts[n].kind = "partition" -> dts[dts[dts[n].parent].parent].parent
      [] OTHER -> n

\* The nodes whose code compiles in a build, told from the tree: the generator
\* does not look at the status of a pin's controller, nor at the option that a
\* key needs, nor at whether a partition's controller is listed.
Supported(n, build) ==
    CASE dts[n].kind = "led" -> "GPIO" \in build => Enabled(About(n))
      [] dts[n].kind = "key" -> "GPIO" \in build /\ Enabled(About(n))
      [] dts[n].kind = "partition" ->
             "FLASH" \in build /\ Enabled(About(n)) => dts[About(n)].kind = "flash"
      [] OTHER -> TRUE

\* What the functions of a node call is defined, once and under the options of
\* the build, exactly if the node is supported there; and no module defines a
\* function twice.  The calls go through super or a route, past disabled
\* ancestors and to nodes of equal names; what is not supported is all that
\* fails to compile.
CallsResolve ==
    pass = "done" => \A n \in DOMAIN out, build \in Builds :
        /\ Supported(n, build) <=>
              \A i \in Live(n, build) : \A c \in i.calls :
                  \E m \in Nodes :
                      ModulesAt(c[1]) = {m} /\ c[2] \in Defines(m, build)
        /\ \A i, j \in Live(n, build) : i = j \/ i.defines \cap j.defines = {}

\* No code is generated that calls into the module of a disabled node: "it will
\* not have a get_instance_raw() function, so we must not emit code that calls
\* it" (augment.rs).  The code of a phandle does not keep to this.
DisabledNeverCalled ==
    pass = "done" => \A n \in DOMAIN out : \A i \in out[n] : \A c \in i.calls :
        \A m \in ModulesAt(c[1]) : Enabled(m)

\* The numbers of the devices whose get_instance_raw an item gets to.
Reached(item) ==
    IF item.calls = {} THEN {item.ord}
    ELSE {j.ord : j \in UNION {out[m] : m \in
                          UNION {ModulesAt(c[1]) : c \in item.calls}}}

HasInstance == Devices \cup {"led", "key", "pwm_led", "partition"}

\* get_instance wraps the device with the number that Zephyr gave to the right
\* node, with the led's own index, and every node whose device is listed and
\* enabled has it.  Reading the header, the paths of nested nodes, phandles to
\* nodes that come later and the ancestors all have a part in it.
RightDevice ==
    pass = "done" => \A n \in DOMAIN out :
        /\ \A i \in out[n] :
              /\ \A ord \in Reached(i) : lines[ord + 1] = About(n)
              /\ dts[n].kind = "pwm_led" => i.index = Name(n) - 1
        /\ /\ dts[n].kind \in HasInstance
           /\ dts[About(n)].kind \in Devices /\ Enabled(About(n))
           => \E i \in out[n] : "get_instance" \in i.defines /\ Reached(i) # {}

\* What the generator cannot make a pin or a partition from: a gpios other than
\* one phandle with its numbers, and no reg where the controller is enabled.
Malformed(n) ==
    \/ /\ Refers(dts[n].kind)
       /\ \/ dts[n].prop = <<>>
          \/ {i \in DOMAIN dts[n].prop : dts[n].prop[i] \in Labels} # {1}
    \/ /\ dts[n].kind = "partition" /\ Enabled(About(n))
       /\ dts[n].prop = <<>>

\* The build panics on trees with such a node, whatever the options, and on no
\* other: the numbers, paths, labels and parents of all nodes are found, and
\* what one node lacks is not missed for another one.
BuildPanics ==
    /\ pass = "panicked" => \E n \in Nodes : Malformed(n)
    /\ pass = "done" => \A n \in DOMAIN out : ~Malformed(n)

\* The phandle that number k comes after, or 0, and the numbers after it.
Before(k) == LET S == {j \in 1..k-1 : ~words[j].number}
             IN  IF S = {} THEN 0 ELSE CHOOSE j \in S : \A i \in S : i <= j
After(j) == {k \in DOMAIN words : words[k].number /\ Before(k) = j}

\* Every word is in one token: a number is an argument exactly if it is among
\* the cells of the controller before it and all of these are there.  No word
\* is lost, taken twice or given to a controller it does not belong to.
TokensRight ==
    pass = "done" /\ words # <<>> =>
        LET complete(j) == /\ j # 0 /\ words[j].gpio /\ words[j].cells >= 0
                           /\ Cardinality(After(j)) >= words[j].cells
            argument(k) == /\ words[k].number /\ complete(Before(k))
                           /\ k <= Before(k) + words[Before(k)].cells
            heads == {k \in DOMAIN words : ~argument(k)}
        IN  /\ {twords[i][1] : i \in DOMAIN twords} = heads
            /\ Len(twords) = Cardinality(heads)
            /\ \A i \in DOMAIN twords :
                  LET k == twords[i][1]
                  IN  /\ twords[i][2] = "Gpio" <=> complete(k)
                      /\ twords[i][3] = Cardinality({a \in After(k) : argument(a)})
=============================================================================
