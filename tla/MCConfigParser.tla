--------------------------- MODULE MCConfigParser ---------------------------
(* Config files put together from a few blocks, and requests to what they  *)
(* configure.                                                              *)
EXTENDS ConfigParser

Set(key, value) == [key |-> key, value |-> value, body |-> <<>>]
Block(key, value, body) == [key |-> key, value |-> value, body |-> body]

root == Set("root", <<"/", "r">>)
files == Set("type", <<"file">>)
cgi == Set("type", <<"cgi">>)
index == Set("index", <<"i">>)
All == Block("handler", <<"/">>, <<files>>)
Deep == Block("handler", <<"/", "a">>, <<cgi>>)

Sites == {
  Block("site", <<>>, <<root, All, Deep>>),
  Block("site", <<>>, <<Set("hostname", <<"h">>), root, Deep>>),
  Block("site", <<>>, <<Set("hostname", <<"g">>), Set("alias", <<"*">>), root, All>>),
  Block("site", <<>>, <<Set("hostname", <<"g">>), root>>)}

Bind(value, body) == Block("bind", value, body)
Star == <<"*", ":", "80">>
One == <<"h", ":", "443">>

\* One bind with up to three of the sites, in any order.
SitePlans == {<<Bind(Star, s)>> : s \in UNION {[1..n -> Sites] : n \in 0..3}}

Handlers == {
  Block("handler", <<"/", "a", "/">>, <<files, index, index>>),
  Block("handler", <<"/", "a", "/", "b">>, <<cgi, files, index, cgi>>),
  Block("handler", <<"/", "b">>, <<index, files>>),
  Block("handler", <<"/", "a", "/", "b", "/", "a">>, <<files>>),
  Block("handler", <<"a">>, <<files>>),
  Block("handler", <<"/">>, <<>>)}

Keys == Block("ssl", <<>>, <<Set("key", <<"k">>), Set("cert", <<"c">>), Set("key", <<"l">>)>>)
HalfKeys == Block("ssl", <<>>, <<Set("cert", <<"c">>)>>)
Logging == Block("logging", <<>>,
  <<Set("access", <<"x">>), Set("server", <<"y">>), Set("verbosity", <<"info">>)>>)
Quiet == Block("logging", <<>>, <<Set("verbosity", <<"critical">>), Set("access", <<"z">>)>>)
Wrong == Block("logging", <<>>, <<Set("verbosity", <<"x">>)>>)

Other == Block("site", <<>>, <<root, All, Set("root", <<"/", "s">>)>>)
NoRoot == Block("site", <<>>, <<All>>)

MorePlans ==
  {<<Bind(Star, <<Block("site", <<>>, <<h, root, g>>)>>)>> : h, g \in Handlers}
    \cup {<<Bind(One, <<x, Other>>), y>> : x \in {Keys, HalfKeys, NoRoot},
                                           y \in {Logging, Quiet, Wrong}}
    \cup {<<Logging, Bind(One, <<Keys, Keys>>)>>, <<Quiet, Logging>>, <<Bind(<<"x">>, <<>>)>>,
          <<Bind(Star, <<Other>>), Bind(One, <<>>), Bind(Star, <<NoRoot>>)>>,
          <<Bind(Star, <<Other>>), Bind(One, <<Keys>>), Bind(Star, <<>>)>>,
          <<Bind(One, <<Keys, Other>>), Bind(One, <<>>)>>}

MCPlans == SitePlans \cup MorePlans

MCSymbols == {":", "*", "/", "80", "443", "a", "b", "c", "f", ".", "file", "cgi", "g", "h", "i",
  "info", "critical", "k", "l", "r", "s", "x", "y", "z"}

MCHosts == {<<"h">>, <<"g">>, <<"f">>}

Segment == {<<"/", "a">>, <<"/", "b">>, <<"/", ".">>, <<"/", ".", ".">>, <<"/">>}
MCRaws == {raw \in {FlattenSeq(s) : s \in UNION {[1..n -> Segment] : n \in 1..4}} : Plain(raw)}
=============================================================================
