----------------------------- MODULE OverlayCases -----------------------------
(***************************************************************************)
(* Device trees and overlays for small instances, written with references  *)
(* to labels and to the author's own phandles, and compiled to the tables  *)
(* of a blob.                                                              *)
(***************************************************************************)
EXTENDS DeviceTree

CONSTANT CellMax

N(n) == [number |-> n]
L(l) == [label |-> l]
O(n) == [own |-> n]   \* the node with the overlay's phandle n

Nothing == [p \in {} |-> 0]

(* An overlay from its fragments: name, target (<< >> or one cell), path   *)
(* (<< >> for none) and content.                                           *)
Compiled(fragments, symbols) ==
    LET names  == [i \in DOMAIN fragments |-> fragments[i].name]
        source == FoldLeft(LAMBDA t, f :
                      (<<f.name>> :> (IF f.target = << >> THEN Nothing ELSE "target" :> f.target))
                      @@ [p \in {Overlay(f.name) \o r : r \in DOMAIN f.content} |->
                             f.content[Rest(p)]] @@ t,
                  << >> :> Nothing, fragments)
        places == UNION {UNION {{[path |-> p, prop |-> prop, cell |-> i] :
                                    i \in DOMAIN source[p][prop]} :
                                prop \in DOMAIN source[p]} : p \in DOMAIN source}
        Is(x, kind) == kind \in DOMAIN At(source, x)
        Value(c) == IF "number" \in DOMAIN c THEN c.number
                    ELSE IF "own" \in DOMAIN c THEN c.own ELSE CellMax
        labels == {At(source, x).label : x \in {y \in places : Is(y, "label")}}
    IN  [magic        |-> TRUE,
         nodes        |-> [p \in DOMAIN source |-> [prop \in DOMAIN source[p] |->
                              [i \in DOMAIN source[p][prop] |-> Value(source[p][prop][i])]]],
         fragments    |-> names,
         target_path  |-> [f \in {fragments[i].name : i \in {j \in DOMAIN fragments :
                                       fragments[j].path # <<"none">>}} |->
                              fragments[CHOOSE i \in DOMAIN names : names[i] = f].path],
         local_fixups |-> {x \in places : Is(x, "own")},
         fixups       |-> [l \in labels |->
                              {x \in places : Is(x, "label") /\ At(source, x) = L(l)}],
         symbols      |-> symbols]

Fragment(name, target, path, content) ==
    [name |-> name, target |-> target, path |-> path, content |-> content]

About(name, cell, content) == Fragment(name, <<cell>>, <<"none">>, content)
AtPath(name, path, content) == Fragment(name, << >>, path, content)

----------------------------------------------------------------------------
(* Contents *)

Dev   == (<< >> :> ("status" :> <<N(7)>>))
         @@ (<<"dev">> :> (("phandle" :> <<N(1)>>) @@ ("irq" :> <<O(1), L("soc")>>)))
Uart  == (<< >> :> ("link" :> <<O(1)>>))
         @@ (<<"uart">> :> (("phandle" :> <<N(1)>>) @@ ("clk" :> <<L("uart"), N(7)>>)))
Both  == (<< >> :> ("link" :> <<O(2)>>))
         @@ (<<"uart">> :> (("phandle" :> <<N(2)>>) @@ ("linux,phandle" :> <<N(2)>>)))
         @@ (<<"uart", "port">> :> (("linux,phandle" :> <<N(1)>>) @@ ("up" :> <<O(2), O(1)>>)))
Self  == << >> :> (("phandle" :> <<N(1)>>) @@ ("self" :> <<O(1)>>))
Port  == (<< >> :> ("to" :> <<O(1), L("soc")>>)) @@ (<<"port">> :> Nothing)
Far   == (<< >> :> Nothing) @@ (<<"port">> :> (("phandle" :> <<N(3)>>) @@ ("at" :> <<O(3)>>)))
Plain == << >> :> ("clk" :> <<N(1)>>)
Wide  == << >> :> (("phandle" :> <<N(1), N(1)>>) @@ ("self" :> <<N(1)>>))

Hub   == (<< >> :> Nothing) @@ (<<"hub">> :> (("phandle" :> <<N(2)>>) @@ ("up" :> <<L("uart")>>)))
         @@ (<<"hub", "leaf">> :> ("parent" :> <<O(2)>>))
Leaf  == (<< >> :> ("up" :> <<N(4)>>))
         @@ (<<"leaf">> :> (("phandle" :> <<N(1)>>) @@ ("ring" :> <<O(1), O(2)>>)))

Contents == {Dev, Uart, Both, Self, Plain}

None == << >>

Single(target, content) == Compiled(<<About("f0", target, content)>>, None)

DevSymbol == "dev" :> <<"f0", "__overlay__", "dev">>

OneFragment ==
    {Single(L(l), c) : l \in {"soc", "uart", "led"}, c \in Contents}
    \cup {Compiled(<<AtPath("f0", p, c)>>, None) :
             p \in {<<"soc">>, << >>}, c \in {Dev, Uart, Both}}

WithSymbols ==
    {Compiled(<<About("f0", L("soc"), Dev)>>, DevSymbol),
     Compiled(<<AtPath("f0", << >>, Dev)>>,
              DevSymbol @@ ("soc" :> <<"f0", "__overlay__">>) @@ ("x" :> <<"f0">>)),
     Single(L("dev"), Far), Single(L("dev"), Plain), Single(L("none"), Plain)}

Doubles ==
    {Compiled(<<About("f0", L("soc"), Dev), second>>, DevSymbol) :
        second \in {About("f1", O(1), Port), About("f1", L("uart"), Port),
                    AtPath("f1", <<"soc", "dev">>, Port), AtPath("f1", << >>, Plain),
                    About("f1", L("led"), Far)}}

(* Overlays that cannot be applied. *)
Faulty ==
    LET good == Single(L("soc"), Dev)
    IN  {Single(N(CellMax), Dev), Single(L("soc"), Wide),
         Compiled(<<About("f0", O(1), Port), About("f1", L("soc"), Dev)>>, None),
         Compiled(<<AtPath("f0", <<"gone">>, Dev)>>, None),
         Compiled(<<AtPath("f0", <<"none">>, Dev)>>, None),
         [good EXCEPT !.local_fixups = @ \cup {[path |-> Overlay("f0"), prop |-> "gone", cell |-> 1]}],
         [good EXCEPT !.fixups = @ @@ ("uart" :>
             {[path |-> Overlay("f0"), prop |-> "status", cell |-> 2]})],
         [good EXCEPT !.fixups = @ @@ ("uart" :>
             {[path |-> <<"f0", "gone">>, prop |-> "status", cell |-> 1]})],
         [good EXCEPT !.symbols = "bad" :> <<"f9", "__overlay__">>]}

(* Overlays for clients of libufdt, which has them change no phandle of a  *)
(* node that is there, and refer to no label of a node without one.        *)
Buffers ==
    <<Single(L("soc"), Dev),
      Compiled(<<AtPath("f0", <<"soc">>, Hub), AtPath("f1", <<"soc", "hub">>, Leaf)>>, None),
      Single(L("uart"), Plain),
      Compiled(<<AtPath("f0", <<"led">>, Both)>>, None),
      Compiled(<<About("f0", L("soc"), Plain), AtPath("f1", <<"gone">>, Plain)>>, None),
      [Single(L("soc"), Dev) EXCEPT !.local_fixups =
          @ \cup {[path |-> Overlay("f0"), prop |-> "gone", cell |-> 1]}],
      [Single(L("soc"), Uart) EXCEPT !.fixups = @ @@ ("led" :>
             {[path |-> Overlay("f0"), prop |-> "link", cell |-> 2]})],
      [magic |-> FALSE]>>

----------------------------------------------------------------------------
(* Trees *)

Place(path, prop) == [path |-> path, prop |-> prop, cell |-> 1]

SocUart == <<"soc", "uart">>

Board(soc, uart) ==
    [nodes |-> (<< >> :> Nothing)
               @@ (<<"soc">> :> ("phandle" :> <<soc>>))
               @@ (SocUart :> (("linux,phandle" :> <<uart>>) @@ ("clk" :> <<soc>>)))
               @@ (<<"led">> :> ("on" :> <<uart>>)),
     symbols |-> ("soc" :> <<"soc">>) @@ ("uart" :> SocUart) @@ ("led" :> <<"led">>)
                 @@ ("gone" :> <<"gone">>),
     references |-> {Place(SocUart, "clk"), Place(<<"led">>, "on")}]

Bare == [nodes |-> (<< >> :> Nothing) @@ (<<"soc">> :> ("reg" :> <<1>>)),
         symbols |-> Nothing, references |-> {}]
=============================================================================
