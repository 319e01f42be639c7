---------------------------- MODULE ConfigProofs ----------------------------
(***************************************************************************)
(* The parser of src/config.c reads every config file as it is meant, for  *)
(* any plans, of any size and over any bytes. What the parser makes of a   *)
(* text is put together from what it makes of its parts, so that the proof *)
(* goes through a plan block by block, and not the parser token by token.  *)
(* On it rest the logs, and the site and handler that answer a request.    *)
(***************************************************************************)
EXTENDS ConfigParser, PathsProofs

-----------------------------------------------------------------------------
(* The automaton without what it remembers, and a file with a token left   *)
(* out: from there on the parser is one token behind where it should be,   *)
(* or in one of three wrong places, and never at the end of an entry.      *)

\* Where a word leads to from a state: the keywords, and those that open something new.
KeywordTo(s, w, q) ==
  \/ s = "ROOT" /\ w = "logging" /\ q = "LOGGING_BRACKETS_OPEN"
  \/ s = "BIND_BRACKETS_OPEN" /\ w = Opening /\ q = "BIND_CONTENT"
  \/ s = "BIND_CONTENT" /\ w = Closing /\ q = "ROOT"
  \/ s = "SSL_BRACKETS_OPEN" /\ w = Opening /\ q = "SSL_CONTENT"
  \/ s = "SSL_CONTENT" /\ w = Closing /\ q = "BIND_CONTENT"
  \/ s = "SSL_CONTENT" /\ w = "key" /\ q = "SSL_KEY_EQUALS"
  \/ s = "SSL_CONTENT" /\ w = "cert" /\ q = "SSL_CERT_EQUALS"
  \/ s = "SSL_KEY_EQUALS" /\ w = "=" /\ q = "SSL_KEY_VALUE"
  \/ s = "SSL_CERT_EQUALS" /\ w = "=" /\ q = "SSL_CERT_VALUE"
  \/ s = "SITE_BRACKETS_OPEN" /\ w = Opening /\ q = "SITE_CONTENT"
  \/ s = "SITE_CONTENT" /\ w = Closing /\ q = "BIND_CONTENT"
  \/ s = "SITE_CONTENT" /\ w = "hostname" /\ q = "SITE_HOST_EQUALS"
  \/ s = "SITE_CONTENT" /\ w = "alias" /\ q = "SITE_HOST_EQUALS"
  \/ s = "SITE_CONTENT" /\ w = "root" /\ q = "SITE_ROOT_EQUALS"
  \/ s = "SITE_HOST_EQUALS" /\ w = "=" /\ q = "SITE_HOST_VALUE"
  \/ s = "SITE_ROOT_EQUALS" /\ w = "=" /\ q = "SITE_ROOT_VALUE"
  \/ s = "HANDLER_BRACKETS_OPEN" /\ w = Opening /\ q = "HANDLER_CONTENT"
  \/ s = "HANDLER_CONTENT" /\ w = Closing /\ q = "SITE_CONTENT"
  \/ s = "HANDLER_CONTENT" /\ w = "type" /\ q = "TYPE_EQUALS"
  \/ s = "HANDLER_CONTENT" /\ w = "index" /\ q = "INDEX_EQUALS"
  \/ s = "TYPE_EQUALS" /\ w = "=" /\ q = "TYPE_VALUE"
  \/ s = "INDEX_EQUALS" /\ w = "=" /\ q = "INDEX_VALUE"
  \/ s = "LOGGING_BRACKETS_OPEN" /\ w = Opening /\ q = "LOGGING_CONTENT"
  \/ s = "LOGGING_CONTENT" /\ w = Closing /\ q = "ROOT"
  \/ s = "LOGGING_CONTENT" /\ w = "access" /\ q = "LOGGING_ACCESS_FILE_EQUALS"
  \/ s = "LOGGING_CONTENT" /\ w = "server" /\ q = "LOGGING_SERVER_FILE_EQUALS"
  \/ s = "LOGGING_CONTENT" /\ w = "verbosity" /\ q = "LOGGING_SERVER_VERBOSITY_EQUALS"
  \/ s = "LOGGING_ACCESS_FILE_EQUALS" /\ w = "=" /\ q = "LOGGING_ACCESS_FILE_VALUE"
  \/ s = "LOGGING_SERVER_FILE_EQUALS" /\ w = "=" /\ q = "LOGGING_SERVER_FILE_VALUE"
  \/ s = "LOGGING_SERVER_VERBOSITY_EQUALS" /\ w = "=" /\ q = "LOGGING_SERVER_VERBOSITY_VALUE"

StartTo(s, w, q) ==
  \/ s = "ROOT" /\ w = "bind" /\ q = "BIND_VALUE"
  \/ s = "BIND_CONTENT" /\ w = "ssl" /\ q = "SSL_BRACKETS_OPEN"
  \/ s = "BIND_CONTENT" /\ w = "site" /\ q = "SITE_BRACKETS_OPEN"
  \/ s = "SITE_CONTENT" /\ w = "handler" /\ q = "HANDLER_VALUE"

\* Where a value leads to.
ValueTo(s, q) ==
  \/ s = "BIND_VALUE" /\ q = "BIND_BRACKETS_OPEN"
  \/ s \in {"SSL_KEY_VALUE", "SSL_CERT_VALUE"} /\ q = "SSL_CONTENT"
  \/ s \in {"SITE_HOST_VALUE", "SITE_ROOT_VALUE"} /\ q = "SITE_CONTENT"
  \/ s = "HANDLER_VALUE" /\ q = "HANDLER_BRACKETS_OPEN"
  \/ s \in {"TYPE_VALUE", "INDEX_VALUE"} /\ q = "HANDLER_CONTENT"
  \/ /\ s \in {"LOGGING_ACCESS_FILE_VALUE", "LOGGING_SERVER_FILE_VALUE",
               "LOGGING_SERVER_VERBOSITY_VALUE"}
     /\ q = "LOGGING_CONTENT"

WordTo(s, w, q) == KeywordTo(s, w, q) \/ StartTo(s, w, q)
WordArrow(s, t, q) == \E w : t = <<w>> /\ WordTo(s, w, q)
ValueArrow(s, t, q) == ValueTo(s, q) /\ (s = "BIND_VALUE" => t # <<"logging">>)
Arrow(s, t, q) == WordArrow(s, t, q) \/ ValueArrow(s, t, q)

\* s, if q is where the parser should be.
Elsewhere(s, q) ==
  s \in {"SITE_HOST_EQUALS", "SITE_ROOT_EQUALS", "BIND_CONTENT"} /\ q = "HANDLER_BRACKETS_OPEN"
Ahead(s, q) == (\E t : Arrow(s, t, q)) \/ Elsewhere(s, q)

\* The braces are words of their own.
LEMMA BracesDiffer ==
  /\ Opening # Closing
  /\ \A w \in {"bind", "ssl", "site", "handler", "logging", "key", "cert", "hostname", "alias",
               "root", "type", "index", "access", "server", "verbosity", "="} :
       w # Opening /\ w # Closing
<1>1. Opening # Closing
      BY DEF Opening, Closing
<1> QED BY <1>1 DEF Opening, Closing

LEMMA KeywordsAre ==
  ASSUME NEW s, NEW w, NEW q
  PROVE  (\E k \in Keywords : k[1] = s /\ w = k[2] /\ k[3] = q) <=> KeywordTo(s, w, q)
<1> USE DEF KeywordTo
<1>1. (\E k \in BindKeywords : k[1] = s /\ w = k[2] /\ k[3] = q) <=>
        KeywordTo(s, w, q) /\ s \in {"ROOT", "BIND_BRACKETS_OPEN", "BIND_CONTENT"}
      BY DEF BindKeywords
<1>2. (\E k \in SslKeywords : k[1] = s /\ w = k[2] /\ k[3] = q) <=>
        KeywordTo(s, w, q) /\ s \in {"SSL_BRACKETS_OPEN", "SSL_CONTENT", "SSL_KEY_EQUALS", "SSL_CERT_EQUALS"}
      BY DEF SslKeywords
<1>3. (\E k \in SiteKeywords : k[1] = s /\ w = k[2] /\ k[3] = q) <=>
        KeywordTo(s, w, q) /\ s \in {"SITE_BRACKETS_OPEN", "SITE_CONTENT", "SITE_HOST_EQUALS", "SITE_ROOT_EQUALS"}
      BY DEF SiteKeywords
<1>4. (\E k \in HandlerKeywords : k[1] = s /\ w = k[2] /\ k[3] = q) <=>
        KeywordTo(s, w, q) /\ s \in {"HANDLER_BRACKETS_OPEN", "HANDLER_CONTENT", "TYPE_EQUALS", "INDEX_EQUALS"}
      BY DEF HandlerKeywords
<1>5. (\E k \in LoggingKeywords : k[1] = s /\ w = k[2] /\ k[3] = q) <=>
        KeywordTo(s, w, q) /\ s \in {"LOGGING_BRACKETS_OPEN", "LOGGING_CONTENT", "LOGGING_ACCESS_FILE_EQUALS",
                                     "LOGGING_SERVER_FILE_EQUALS", "LOGGING_SERVER_VERBOSITY_EQUALS"}
      BY DEF LoggingKeywords
<1>6. KeywordTo(s, w, q) =>
        \/ s \in {"ROOT", "BIND_BRACKETS_OPEN", "BIND_CONTENT"}
        \/ s \in {"SSL_BRACKETS_OPEN", "SSL_CONTENT", "SSL_KEY_EQUALS", "SSL_CERT_EQUALS"}
        \/ s \in {"SITE_BRACKETS_OPEN", "SITE_CONTENT", "SITE_HOST_EQUALS", "SITE_ROOT_EQUALS"}
        \/ s \in {"HANDLER_BRACKETS_OPEN", "HANDLER_CONTENT", "TYPE_EQUALS", "INDEX_EQUALS"}
        \/ s \in {"LOGGING_BRACKETS_OPEN", "LOGGING_CONTENT", "LOGGING_ACCESS_FILE_EQUALS",
                  "LOGGING_SERVER_FILE_EQUALS", "LOGGING_SERVER_VERBOSITY_EQUALS"}
      OBVIOUS
<1> HIDE DEF KeywordTo
<1> QED BY <1>1, <1>2, <1>3, <1>4, <1>5, <1>6 DEF Keywords

\* A state takes words or a value.
LEMMA WordOrValue ==
  ASSUME NEW s, NEW t, NEW u, NEW q, NEW p, WordArrow(s, t, q), ValueArrow(s, u, p) PROVE FALSE
BY DEF WordArrow, WordTo, KeywordTo, StartTo, ValueArrow, ValueTo

\* A token leads to one state at most.
LEMMA OneArrow ==
  ASSUME NEW s, NEW t, NEW q, NEW p, Arrow(s, t, q), Arrow(s, t, p) PROVE q = p
<1>1. ASSUME WordArrow(s, t, q), WordArrow(s, t, p) PROVE q = p
  <2>1. PICK w : t = <<w>> /\ WordTo(s, w, q)
        BY <1>1 DEF WordArrow
  <2>2. PICK v : t = <<v>> /\ WordTo(s, v, p)
        BY <1>1 DEF WordArrow
  <2>3. w = v
        BY <2>1, <2>2
  <2> QED BY <2>1, <2>2, <2>3, BracesDiffer DEF WordTo, KeywordTo, StartTo
<1>2. ASSUME ValueArrow(s, t, q), ValueArrow(s, t, p) PROVE q = p
      BY <1>2 DEF ValueArrow, ValueTo
<1> QED BY <1>1, <1>2, WordOrValue DEF Arrow

\* Where two words lead from a state, and the second of them then.
LEMMA AheadOfWord ==
  ASSUME NEW s, NEW q, NEW t, NEW u, NEW s2, NEW q2, q # s2,
         WordArrow(s, u, q), WordArrow(s, t, s2), Arrow(q, t, q2)
  PROVE  Ahead(s2, q2) /\ s2 # "ROOT"
<1>1. PICK w : t = <<w>> /\ WordTo(s, w, s2)
      BY DEF WordArrow
<1>2. PICK v : u = <<v>> /\ WordTo(s, v, q)
      BY DEF WordArrow
<1>3. CASE WordArrow(q, t, q2)
  <2>1. WordTo(q, w, q2)
    <3>1. PICK x : t = <<x>> /\ WordTo(q, x, q2)
          BY <1>3 DEF WordArrow
    <3> QED BY <1>1, <3>1
  <2>2. /\ w = Closing
        /\ \/ s2 = "SITE_CONTENT" /\ q2 = "BIND_CONTENT"
           \/ s2 = "BIND_CONTENT" /\ q2 = "ROOT"
        BY <1>1, <1>2, <2>1, BracesDiffer DEF WordTo, KeywordTo, StartTo
  <2>3. WordTo(s2, Closing, q2)
        BY <2>2 DEF WordTo, KeywordTo
  <2>4. WordArrow(s2, <<Closing>>, q2)
        BY <2>3 DEF WordArrow
  <2> QED BY <2>2, <2>4 DEF Ahead, Arrow
<1>4. CASE ValueArrow(q, t, q2)
  <2>1. CASE q = "BIND_VALUE"
    <3>1. s = "ROOT"
          BY <1>2, <2>1 DEF WordTo, KeywordTo, StartTo
    <3>2. w = "logging"
          BY <1>1, <2>1, <3>1 DEF WordTo, KeywordTo, StartTo
    <3> QED BY <1>1, <1>4, <2>1, <3>2 DEF ValueArrow
  <2>2. CASE q # "BIND_VALUE"
    <3>1. ValueTo(q, q2)
          BY <1>4 DEF ValueArrow
    <3>2. q = "HANDLER_VALUE" /\ s = "SITE_CONTENT"
          BY <1>1, <1>2, <2>2, <3>1 DEF WordTo, KeywordTo, StartTo, ValueTo
    <3>3. q2 = "HANDLER_BRACKETS_OPEN"
          BY <3>1, <3>2 DEF ValueTo
    <3>4. s2 \in {"BIND_CONTENT", "SITE_HOST_EQUALS", "SITE_ROOT_EQUALS"}
          BY <1>1, <3>2 DEF WordTo, KeywordTo, StartTo
    <3> QED BY <3>3, <3>4 DEF Ahead, Elsewhere
  <2> QED BY <2>1, <2>2
<1> QED BY <1>3, <1>4 DEF Arrow

\* Once ahead, always ahead.
LEMMA StaysAhead ==
  ASSUME NEW s, NEW q, NEW t, NEW s2, NEW q2, Ahead(s, q), Arrow(s, t, s2), Arrow(q, t, q2)
  PROVE  Ahead(s2, q2) /\ s2 # "ROOT"
<1>1. CASE Elsewhere(s, q)
  <2>1. ~ValueArrow(q, t, q2) /\ ~ValueArrow(s, t, s2)
        BY <1>1 DEF Elsewhere, ValueArrow, ValueTo
  <2>2. PICK w : t = <<w>> /\ WordTo(s, w, s2)
        BY <2>1 DEF Arrow, WordArrow
  <2>3. PICK v : t = <<v>> /\ WordTo(q, v, q2)
        BY <2>1 DEF Arrow, WordArrow
  <2>4. v = w
        BY <2>2, <2>3
  <2> QED BY <1>1, <2>2, <2>3, <2>4, BracesDiffer DEF Elsewhere, WordTo, KeywordTo, StartTo
<1>2. ASSUME NEW u, Arrow(s, u, q) PROVE Ahead(s2, q2) /\ s2 # "ROOT"
  <2>1. CASE ValueArrow(s, t, s2)
    <3>1. ValueArrow(s, u, q)
          BY <1>2, <2>1, WordOrValue DEF Arrow
    <3>2. q = s2 /\ s2 # "ROOT"
          BY <2>1, <3>1 DEF ValueArrow, ValueTo
    <3> QED BY <3>2 DEF Ahead
  <2>2. CASE WordArrow(s, t, s2) /\ q # s2
    <3>1. WordArrow(s, u, q)
          BY <1>2, <2>2, WordOrValue DEF Arrow
    <3> QED BY <2>2, <3>1, AheadOfWord
  <2>3. CASE WordArrow(s, t, s2) /\ q = s2
    <3>1. CASE s2 = "ROOT"
      <4>1. PICK w : t = <<w>> /\ WordTo(s, w, "ROOT")
            BY <2>3, <3>1 DEF WordArrow
      <4>2. t = <<Closing>>
            BY <4>1 DEF WordTo, KeywordTo, StartTo
      <4>3. ~ValueArrow("ROOT", t, q2)
            BY DEF ValueArrow, ValueTo
      <4>4. PICK v : t = <<v>> /\ WordTo("ROOT", v, q2)
            BY <2>3, <3>1, <4>3 DEF Arrow, WordArrow
      <4>5. v = Closing
            BY <4>2, <4>4
      <4> QED BY <4>4, <4>5, BracesDiffer DEF WordTo, KeywordTo, StartTo
    <3>2. CASE s2 # "ROOT"
          BY <2>3, <3>2 DEF Ahead
    <3> QED BY <3>1, <3>2
  <2> QED BY <1>2, <2>1, <2>2, <2>3 DEF Arrow
<1> QED BY <1>1, <1>2 DEF Ahead

-----------------------------------------------------------------------------
(* The parser as a function: what it makes of one token more, and of a text.*)

Fits(t) == Len(t) < MAX_TOKEN_LENGTH
At(s, c) == [state |-> s, config |-> c]
Failure == At("REJECTED", NULL)

LastBind(c) == Last(c.binds)
LastSite(c) == Last(LastBind(c).sites)
LastHandler(c) == Last(LastSite(c).handlers)
SetBind(c, b) == [c EXCEPT !.binds = WithLast(@, b)]
SetSite(c, s) == SetBind(c, [LastBind(c) EXCEPT !.sites = WithLast(@, s)])
SetHandler(c, h) == SetSite(c, [LastSite(c) EXCEPT !.handlers = WithLast(@, h)])

FreshBind == [addr |-> NULL, port |-> NULL, ssl |-> NULL, sites |-> <<>>]
FreshSsl == [privateKey |-> NULL, certificate |-> NULL]
FreshSite == [hostnames |-> <<>>, documentRoot |-> NULL, handlers |-> <<>>]
FreshHandler == [dir |-> NULL, type |-> NULL, indexfiles |-> <<>>, documentRoot |-> NULL]

IsKeyword(s, w) == \E q : KeywordTo(s, w, q)
Target(s, w) == CHOOSE q : KeywordTo(s, w, q)
AfterWord(s, c, w) ==
  IF IsKeyword(s, w) THEN At(Target(s, w), c) ELSE
  CASE s = "ROOT" /\ w = "bind" -> At("BIND_VALUE", [c EXCEPT !.binds = Append(@, FreshBind)])
    [] s = "BIND_CONTENT" /\ w = "ssl" /\ LastBind(c).ssl = NULL ->
         At("SSL_BRACKETS_OPEN", SetBind(c, [LastBind(c) EXCEPT !.ssl = FreshSsl]))
    [] s = "BIND_CONTENT" /\ w = "site" ->
         At("SITE_BRACKETS_OPEN", SetBind(c, [LastBind(c) EXCEPT !.sites = Append(@, FreshSite)]))
    [] s = "SITE_CONTENT" /\ w = "handler" ->
         At("HANDLER_VALUE", SetSite(c, [LastSite(c) EXCEPT !.handlers = Append(@, FreshHandler)]))
    [] OTHER -> Failure

AfterValue(s, c, t) ==
  CASE s = "BIND_VALUE" /\ Contains(t, ":") ->
         At("BIND_BRACKETS_OPEN",
            SetBind(c, [LastBind(c) EXCEPT !.addr = Address(t), !.port = Port(t)]))
    [] s = "SSL_KEY_VALUE" ->
         At("SSL_CONTENT", SetBind(c, [LastBind(c) EXCEPT !.ssl.privateKey = t]))
    [] s = "SSL_CERT_VALUE" ->
         At("SSL_CONTENT", SetBind(c, [LastBind(c) EXCEPT !.ssl.certificate = t]))
    [] s = "SITE_HOST_VALUE" ->
         At("SITE_CONTENT", SetSite(c, [LastSite(c) EXCEPT !.hostnames = Append(@, t)]))
    [] s = "SITE_ROOT_VALUE" ->
         At("SITE_CONTENT", SetSite(c, [LastSite(c) EXCEPT !.documentRoot = t]))
    [] s = "HANDLER_VALUE" ->
         At("HANDLER_BRACKETS_OPEN", SetHandler(c, [LastHandler(c) EXCEPT !.dir = t]))
    [] s = "TYPE_VALUE" /\ t \in Types ->
         At("HANDLER_CONTENT", SetHandler(c, [LastHandler(c) EXCEPT !.type = t]))
    [] s = "INDEX_VALUE" /\ LastHandler(c).type = <<"file">> ->
         At("HANDLER_CONTENT", SetHandler(c, [LastHandler(c) EXCEPT !.indexfiles = Append(@, t)]))
    [] s = "LOGGING_ACCESS_FILE_VALUE" -> At("LOGGING_CONTENT", [c EXCEPT !.accessLogfile = t])
    [] s = "LOGGING_SERVER_FILE_VALUE" -> At("LOGGING_CONTENT", [c EXCEPT !.serverLogfile = t])
    [] s = "LOGGING_SERVER_VERBOSITY_VALUE" /\ t \in Levels ->
         At("LOGGING_CONTENT", [c EXCEPT !.serverVerbosity = t])
    [] OTHER -> Failure

TakesValue(s) == \E q : ValueTo(s, q)
Step(r, t) ==
  CASE Fits(t) /\ TakesValue(r.state) -> AfterValue(r.state, r.config, t)
    [] Fits(t) /\ ~TakesValue(r.state) /\ (\E w : t = <<w>>) ->
         AfterWord(r.state, r.config, CHOOSE w : t = <<w>>)
    [] OTHER -> Failure

LEMMA StepWord ==
  ASSUME NEW s, NEW c, NEW w, ~TakesValue(s)
  PROVE  Step(At(s, c), <<w>>) = IF Fits(<<w>>) THEN AfterWord(s, c, w) ELSE Failure
<1>1. (CHOOSE v : <<w>> = <<v>>) = w
  <2>1. \A v : <<w>> = <<v>> => v = w
        OBVIOUS
  <2> QED BY <2>1
<1>2. At(s, c).state = s /\ At(s, c).config = c
      BY DEF At
<1>3. \E v : <<w>> = <<v>>
      OBVIOUS
<1> QED BY <1>1, <1>2, <1>3 DEF Step

LEMMA StepKeyword ==
  ASSUME NEW s, NEW c, NEW w, NEW q, KeywordTo(s, w, q)
  PROVE  Step(At(s, c), <<w>>) = IF Fits(<<w>>) THEN At(q, c) ELSE Failure
<1>1. ~TakesValue(s)
      BY DEF TakesValue, ValueTo, KeywordTo
<1>2. ASSUME NEW p, KeywordTo(s, w, p) PROVE p = q
      BY <1>2, BracesDiffer DEF KeywordTo
<1>3. IsKeyword(s, w) /\ Target(s, w) = q
      BY <1>2 DEF IsKeyword, Target
<1> QED BY <1>1, <1>3, StepWord DEF AfterWord

LEMMA StepStart ==
  ASSUME NEW c
  PROVE  /\ Step(At("ROOT", c), <<"bind">>) =
              IF Fits(<<"bind">>) THEN At("BIND_VALUE", [c EXCEPT !.binds = Append(@, FreshBind)]) ELSE Failure
         /\ Step(At("BIND_CONTENT", c), <<"ssl">>) =
              IF Fits(<<"ssl">>) /\ LastBind(c).ssl = NULL
                THEN At("SSL_BRACKETS_OPEN", SetBind(c, [LastBind(c) EXCEPT !.ssl = FreshSsl])) ELSE Failure
         /\ Step(At("BIND_CONTENT", c), <<"site">>) =
              IF Fits(<<"site">>)
                THEN At("SITE_BRACKETS_OPEN", SetBind(c, [LastBind(c) EXCEPT !.sites = Append(@, FreshSite)]))
                ELSE Failure
         /\ Step(At("SITE_CONTENT", c), <<"handler">>) =
              IF Fits(<<"handler">>)
                THEN At("HANDLER_VALUE", SetSite(c, [LastSite(c) EXCEPT !.handlers = Append(@, FreshHandler)]))
                ELSE Failure
<1>1. ~TakesValue("ROOT") /\ ~TakesValue("BIND_CONTENT") /\ ~TakesValue("SITE_CONTENT")
      BY DEF TakesValue, ValueTo
<1>2. /\ ~IsKeyword("ROOT", "bind") /\ ~IsKeyword("BIND_CONTENT", "ssl")
      /\ ~IsKeyword("BIND_CONTENT", "site") /\ ~IsKeyword("SITE_CONTENT", "handler")
      BY BracesDiffer DEF IsKeyword, KeywordTo
<1>3. AfterWord("ROOT", c, "bind") = At("BIND_VALUE", [c EXCEPT !.binds = Append(@, FreshBind)])
      BY <1>2 DEF AfterWord
<1>4. AfterWord("BIND_CONTENT", c, "ssl") =
        IF LastBind(c).ssl = NULL
          THEN At("SSL_BRACKETS_OPEN", SetBind(c, [LastBind(c) EXCEPT !.ssl = FreshSsl])) ELSE Failure
      BY <1>2 DEF AfterWord
<1>5. AfterWord("BIND_CONTENT", c, "site") =
        At("SITE_BRACKETS_OPEN", SetBind(c, [LastBind(c) EXCEPT !.sites = Append(@, FreshSite)]))
      BY <1>2 DEF AfterWord
<1>6. AfterWord("SITE_CONTENT", c, "handler") =
        At("HANDLER_VALUE", SetSite(c, [LastSite(c) EXCEPT !.handlers = Append(@, FreshHandler)]))
      BY <1>2 DEF AfterWord
<1> QED BY <1>1, <1>3, <1>4, <1>5, <1>6, StepWord

LEMMA StepValue ==
  ASSUME NEW s, NEW c, NEW t, TakesValue(s)
  PROVE  Step(At(s, c), t) = IF Fits(t) THEN AfterValue(s, c, t) ELSE Failure
BY DEF Step, At

LEMMA StepFailure == \A t : Step(Failure, t) = Failure
<1>1. ~TakesValue("REJECTED")
      BY DEF TakesValue, ValueTo
<1>2. \A w : ~IsKeyword("REJECTED", w)
      BY DEF IsKeyword, KeywordTo
<1>3. \A w : AfterWord("REJECTED", NULL, w) = Failure
      BY <1>2 DEF AfterWord
<1>4. Failure.state = "REJECTED" /\ Failure.config = NULL
      BY DEF Failure, At
<1> QED BY <1>1, <1>3, <1>4 DEF Step

\* A step follows an arrow, or fails.
LEMMA StepIsArrow ==
  ASSUME NEW s, NEW c, NEW t, Step(At(s, c), t) # Failure
  PROVE  Arrow(s, t, Step(At(s, c), t).state)
<1>1. CASE TakesValue(s)
  <2>1. Fits(t) /\ Step(At(s, c), t) = AfterValue(s, c, t) /\ AfterValue(s, c, t) # Failure
        BY <1>1, StepValue
  <2>2. s = "BIND_VALUE" => Contains(t, ":")
        BY <2>1 DEF AfterValue
  <2>3. s = "BIND_VALUE" => t # <<"logging">>
    <3>1. ~Contains(<<"logging">>, ":")
          BY DEF Contains
    <3> QED BY <2>2, <3>1
  <2>4. ValueTo(s, AfterValue(s, c, t).state)
        BY <1>1, <2>1 DEF AfterValue, TakesValue, ValueTo, At
  <2> QED BY <2>1, <2>3, <2>4 DEF Arrow, ValueArrow
<1>2. CASE ~TakesValue(s)
  <2>1. PICK w : t = <<w>>
        BY <1>2 DEF Step, At
  <2>2. Step(At(s, c), t) = AfterWord(s, c, w) /\ AfterWord(s, c, w) # Failure
        BY <1>2, <2>1, StepWord
  <2>3. WordTo(s, w, AfterWord(s, c, w).state)
    <3>1. CASE IsKeyword(s, w)
      <4>1. AfterWord(s, c, w) = At(Target(s, w), c)
            BY <3>1 DEF AfterWord
      <4>2. KeywordTo(s, w, Target(s, w))
            BY <3>1 DEF IsKeyword, Target
      <4> QED BY <4>1, <4>2 DEF At, WordTo
    <3>2. CASE ~IsKeyword(s, w)
          BY <2>2, <3>2 DEF AfterWord, At, WordTo, StartTo
    <3> QED BY <3>1, <3>2
  <2> QED BY <2>1, <2>2, <2>3 DEF Arrow, WordArrow
<1> QED BY <1>1, <1>2

\* What the parser makes of a text.
Leads(r, x, q) ==
  \E rs : rs[0] = r /\ rs[Len(x)] = q /\ \A n \in 1..Len(x) : rs[n] = Step(rs[n - 1], x[n])

LEMMA LeadsNone == \A r : Leads(r, <<>>, r)
<1> TAKE r
<1> DEFINE rs == [n \in {0} |-> r]
<1>1. rs[0] = r /\ Len(<<>>) = 0 /\ 1..0 = {}
      OBVIOUS
<1> HIDE DEF rs
<1>2. rs[Len(<<>>)] = r /\ \A n \in 1..Len(<<>>) : rs[n] = Step(rs[n - 1], <<>>[n])
      BY <1>1
<1> QED BY <1>1, <1>2 DEF Leads

LEMMA LeadsOne == \A r, t : Leads(r, <<t>>, Step(r, t))
<1> TAKE r, t
<1> DEFINE rs == [n \in {0, 1} |-> IF n = 0 THEN r ELSE Step(r, t)]
<1>1. rs[0] = r /\ rs[1] = Step(r, t) /\ Len(<<t>>) = 1 /\ <<t>>[1] = t
      OBVIOUS
<1> HIDE DEF rs
<1>2. \A n \in 1..1 : rs[n] = Step(rs[n - 1], <<t>>[n])
      BY <1>1
<1> QED BY <1>1, <1>2 DEF Leads

LEMMA LeadsOn ==
  ASSUME NEW T, NEW x \in Seq(T), NEW y \in Seq(T), NEW r, NEW q, NEW p, Leads(r, x, q), Leads(q, y, p)
  PROVE  Leads(r, x \o y, p)
<1>1. PICK f : f[0] = r /\ f[Len(x)] = q /\ \A n \in 1..Len(x) : f[n] = Step(f[n - 1], x[n])
      BY DEF Leads
<1>2. PICK g : g[0] = q /\ g[Len(y)] = p /\ \A n \in 1..Len(y) : g[n] = Step(g[n - 1], y[n])
      BY DEF Leads
<1> DEFINE z == x \o y
           rs == [n \in 0..Len(z) |-> IF n <= Len(x) THEN f[n] ELSE g[n - Len(x)]]
<1>3. /\ Len(x) \in Nat /\ Len(y) \in Nat /\ Len(z) = Len(x) + Len(y)
      /\ \A n \in 1..Len(z) : z[n] = IF n <= Len(x) THEN x[n] ELSE y[n - Len(x)]
      OBVIOUS
<1> HIDE DEF z
<1>4. rs[0] = r /\ rs[Len(z)] = p
      BY <1>1, <1>2, <1>3
<1>5. ASSUME NEW n \in 1..Len(z) PROVE rs[n] = Step(rs[n - 1], z[n])
  <2>1. CASE n <= Len(x)
    <3>1. rs[n] = f[n] /\ rs[n - 1] = f[n - 1] /\ n \in 1..Len(x)
          BY <1>3, <2>1
    <3> QED BY <1>1, <1>3, <2>1, <3>1
  <2>2. CASE n = Len(x) + 1
    <3>1. rs[n] = g[1] /\ rs[n - 1] = f[Len(x)] /\ 1 \in 1..Len(y) /\ z[n] = y[1] /\ n - Len(x) = 1
          BY <1>3, <2>2
    <3>2. g[1] = Step(g[0], y[1])
          BY <1>2, <3>1
    <3> QED BY <1>1, <1>2, <3>1, <3>2
  <2>3. CASE n > Len(x) + 1
    <3> DEFINE m == n - Len(x)
    <3>0. m \in 1..Len(y) /\ ~(n <= Len(x)) /\ ~(n - 1 <= Len(x)) /\ (n - 1) - Len(x) = m - 1
          BY <1>3, <2>3
    <3>1. m \in 1..Len(y) /\ rs[n] = g[m] /\ rs[n - 1] = g[m - 1] /\ z[n] = y[m]
          BY <1>3, <3>0
    <3> QED BY <1>2, <3>1
  <2> QED BY <1>3, <2>1, <2>2, <2>3
<1> HIDE DEF rs
<1>6. Leads(r, z, p)
      BY <1>4, <1>5 DEF Leads
<1> QED BY <1>6 DEF z

LEMMA LeadsNext ==
  ASSUME NEW T, NEW x \in Seq(T), NEW t \in T, NEW r, NEW q, Leads(r, x, q)
  PROVE  Leads(r, Append(x, t), Step(q, t))
<1>1. Append(x, t) = x \o <<t>> /\ <<t>> \in Seq(T)
      OBVIOUS
<1> QED BY <1>1, LeadsOne, LeadsOn

LEMMA LeadsOnce ==
  ASSUME NEW T, NEW x \in Seq(T), NEW r, NEW q, NEW p, Leads(r, x, q), Leads(r, x, p) PROVE q = p
<1>1. PICK f : f[0] = r /\ f[Len(x)] = q /\ \A n \in 1..Len(x) : f[n] = Step(f[n - 1], x[n])
      BY DEF Leads
<1>2. PICK g : g[0] = r /\ g[Len(x)] = p /\ \A n \in 1..Len(x) : g[n] = Step(g[n - 1], x[n])
      BY DEF Leads
<1> DEFINE S == {n \in Nat : n <= Len(x) => f[n] = g[n]}
<1>3. 0 \in S
      BY <1>1, <1>2
<1>4. ASSUME NEW n \in Nat, n \in S PROVE n + 1 \in S
  <2>1. CASE n + 1 <= Len(x)
    <3>1. n + 1 \in 1..Len(x) /\ n + 1 - 1 = n /\ f[n] = g[n] /\ Len(x) \in Nat
          BY <1>4, <2>1
    <3> QED BY <1>1, <1>2, <3>1
  <2>2. CASE ~(n + 1 <= Len(x))
        BY <2>2
  <2> QED BY <2>1, <2>2
<1> HIDE DEF S
<1>5. \A n \in Nat : n \in S
      BY <1>3, <1>4, Induct
<1>6. Len(x) \in Nat
      OBVIOUS
<1> QED BY <1>1, <1>2, <1>5, <1>6 DEF S

LEMMA LeadsFailure ==
  ASSUME NEW T, NEW x \in Seq(T) PROVE Leads(Failure, x, Failure)
<1> DEFINE rs == [n \in 0..Len(x) |-> Failure]
<1>1. Len(x) \in Nat
      OBVIOUS
<1>2. rs[0] = Failure /\ rs[Len(x)] = Failure /\ \A n \in 1..Len(x) : rs[n] = Failure /\ rs[n - 1] = Failure
      BY <1>1
<1> HIDE DEF rs
<1>3. \A n \in 1..Len(x) : rs[n] = Step(rs[n - 1], x[n])
      BY <1>2, StepFailure
<1> QED BY <1>2, <1>3 DEF Leads

\* What leads somewhere does not fail on the way.
LEMMA LeadsPart ==
  ASSUME NEW T, NEW x \in Seq(T), NEW y \in Seq(T), NEW r, NEW p, Leads(r, x \o y, p), p # Failure
  PROVE  ~Leads(r, x, Failure)
<1>1. SUFFICES ASSUME Leads(r, x, Failure) PROVE FALSE
      OBVIOUS
<1>2. Leads(r, x \o y, Failure) /\ x \o y \in Seq(T)
      BY <1>1, LeadsFailure, LeadsOn
<1> QED BY <1>2, LeadsOnce

LEMMA LeadsThree ==
  \A r, a, b, c : Leads(r, <<a, b, c>>, Step(Step(Step(r, a), b), c))
<1> TAKE r, a, b, c
<1> DEFINE rs == [n \in 0..3 |-> IF n = 0 THEN r ELSE IF n = 1 THEN Step(r, a)
                                ELSE IF n = 2 THEN Step(Step(r, a), b) ELSE Step(Step(Step(r, a), b), c)]
           x == <<a, b, c>>
<1>1. /\ rs[0] = r /\ rs[1] = Step(r, a) /\ rs[2] = Step(Step(r, a), b)
      /\ rs[3] = Step(Step(Step(r, a), b), c)
      OBVIOUS
<1>2. Len(x) = 3 /\ x[1] = a /\ x[2] = b /\ x[3] = c
      OBVIOUS
<1> HIDE DEF rs, x
<1>3. rs[1] = Step(rs[0], x[1]) /\ rs[2] = Step(rs[1], x[2]) /\ rs[3] = Step(rs[2], x[3])
      BY <1>1, <1>2
<1>4. \A n \in 1..3 : rs[n] = Step(rs[n - 1], x[n])
  <2>1. \A n \in 1..3 : (n = 1 /\ n - 1 = 0) \/ (n = 2 /\ n - 1 = 1) \/ (n = 3 /\ n - 1 = 2)
        OBVIOUS
  <2> QED BY <1>3, <2>1
<1>5. Leads(r, x, Step(Step(Step(r, a), b), c))
      BY <1>1, <1>2, <1>4 DEF Leads
<1> QED BY <1>5 DEF x
-----------------------------------------------------------------------------
(* The entries of a body, one more at a time.                              *)

LEMMA PickedSame ==
  ASSUME NEW B, NEW s \in Seq(B), NEW e \in B, NEW S, S \subseteq 1..Len(s)
  PROVE  Picked(Append(s, e), S) = Picked(s, S)
<1> DEFINE d == InOrder(S)
<1>1. S \subseteq Nat /\ IsFiniteSet(S)
      BY PickedType, Zenon
<1>2. Enumerates(d, Cardinality(S), S)
      BY <1>1, InOrderEnumerates
<1>3. \A n \in DOMAIN d : d[n] \in 1..Len(s)
      BY <1>2 DEF Enumerates
<1>4. \A n \in DOMAIN d : Append(s, e)[d[n]] = s[d[n]]
  <2>1. \A i \in 1..Len(s) : Append(s, e)[i] = s[i]
        OBVIOUS
  <2> HIDE DEF d
  <2> QED BY <1>3, <2>1
<1> HIDE DEF d
<1>5. [n \in DOMAIN d |-> Append(s, e)[d[n]]] = [n \in DOMAIN d |-> s[d[n]]]
      BY <1>4
<1> QED BY <1>5 DEF Picked, d

LEMMA WithNone == \A keys : With(<<>>, keys) = <<>>
<1> TAKE keys
<1>1. {n \in DOMAIN <<>> : <<>>[n].key \in keys} = {}
      OBVIOUS
<1>2. <<>> \in Seq({}) /\ {} \subseteq 1..Len(<<>>)
      OBVIOUS
<1>3. Picked(<<>>, {}) \in Seq({}) /\ Len(Picked(<<>>, {})) = Cardinality({})
      BY <1>2, PickedType
<1>4. Cardinality({}) = 0
      BY FS_EmptySet
<1>5. Picked(<<>>, {}) = <<>>
      BY <1>3, <1>4
<1> QED BY <1>1, <1>5 DEF With

LEMMA WithNext ==
  ASSUME NEW B, NEW s \in Seq(B), NEW e \in B, NEW keys
  PROVE  With(Append(s, e), keys) = IF e.key \in keys THEN Append(With(s, keys), e) ELSE With(s, keys)
<1> DEFINE S == {n \in DOMAIN s : s[n].key \in keys}
           t == Append(s, e)
           m == Len(s) + 1
<1>1. /\ Len(s) \in Nat /\ DOMAIN s = 1..Len(s) /\ t \in Seq(B) /\ DOMAIN t = 1..m /\ t[m] = e /\ Len(t) = m
      /\ \A n \in 1..Len(s) : t[n] = s[n]
      OBVIOUS
<1> HIDE DEF t
<1>2. S \subseteq 1..Len(s) /\ S \subseteq 1..Len(t) /\ m \in 1..Len(t) /\ \A i \in S : i < m
      BY <1>1
<1>3. {n \in DOMAIN t : t[n].key \in keys} = IF e.key \in keys THEN S \cup {m} ELSE S
      BY <1>1
<1>4. With(s, keys) = Picked(s, S)
      BY DEF With
<1> HIDE DEF S, m
<1>5. Picked(t, S \cup {m}) = Append(Picked(t, S), e)
      BY <1>1, <1>2, PickedMore
<1>6. Picked(t, S) = Picked(s, S)
      BY <1>2, PickedSame DEF t
<1>7. With(t, keys) = IF e.key \in keys THEN Append(Picked(s, S), e) ELSE Picked(s, S)
      BY <1>3, <1>5, <1>6 DEF With
<1> QED BY <1>4, <1>7 DEF t

LEMMA WithType ==
  ASSUME NEW B, NEW s \in Seq(B), NEW keys PROVE With(s, keys) \in Seq(B)
BY PickedType DEF With

LEMMA ForNone == \A key : For(<<>>, key) = {}
BY DEF For, ToSet

LEMMA ForNext ==
  ASSUME NEW B, NEW s \in Seq(B), NEW e \in B, NEW key
  PROVE  For(Append(s, e), key) = For(s, key) \cup (IF e.key = key THEN {e} ELSE {})
<1>1. ToSet(Append(s, e)) = ToSet(s) \cup {e}
  <2>1. /\ Len(s) \in Nat /\ DOMAIN s = 1..Len(s) /\ DOMAIN Append(s, e) = 1..(Len(s) + 1)
        /\ Append(s, e)[Len(s) + 1] = e /\ \A n \in 1..Len(s) : Append(s, e)[n] = s[n]
        OBVIOUS
  <2> QED BY <2>1 DEF ToSet
<1> QED BY <1>1 DEF For

\* With has just those entries.
LEMMA WithIsFor ==
  ASSUME NEW B, NEW s \in Seq(B), NEW key
  PROVE  ToSet(With(s, {key})) = For(s, key)
<1> DEFINE T == {k \in Seq(B) : ToSet(With(k, {key})) = For(k, key)}
<1>1. <<>> \in T
      BY WithNone, ForNone DEF ToSet
<1>2. ASSUME NEW k \in Seq(B), k \in T, NEW x \in B PROVE Append(k, x) \in T
  <2>1. With(k, {key}) \in Seq(B)
        BY WithType
  <2>2. ToSet(Append(With(k, {key}), x)) = ToSet(With(k, {key})) \cup {x}
    <3> DEFINE w == With(k, {key})
    <3>1. /\ Len(w) \in Nat /\ DOMAIN w = 1..Len(w) /\ DOMAIN Append(w, x) = 1..(Len(w) + 1)
          /\ Append(w, x)[Len(w) + 1] = x /\ \A n \in 1..Len(w) : Append(w, x)[n] = w[n]
          BY <2>1
    <3> HIDE DEF w
    <3>2. ToSet(Append(w, x)) = ToSet(w) \cup {x}
          BY <3>1 DEF ToSet
    <3> QED BY <3>2 DEF w
  <2>3. ToSet(With(k, {key})) = For(k, key)
        BY <1>2
  <2>4. ToSet(With(Append(k, x), {key})) = For(Append(k, x), key)
    <3>1. With(Append(k, x), {key}) =
            IF x.key \in {key} THEN Append(With(k, {key}), x) ELSE With(k, {key})
          BY WithNext
    <3>2. For(Append(k, x), key) = For(k, key) \cup (IF x.key = key THEN {x} ELSE {})
          BY ForNext
    <3> QED BY <2>2, <2>3, <3>1, <3>2
  <2> QED BY <2>4
<1> HIDE DEF T
<1>3. s \in T
      BY <1>1, <1>2, InductSequence
<1> QED BY <1>3 DEF T

LEMMA ValuesNone == \A keys : ValuesOf(<<>>, keys) = <<>>
BY WithNone DEF ValuesOf

LEMMA ValuesNext ==
  ASSUME NEW B, NEW s \in Seq(B), NEW e \in B, NEW keys
  PROVE  ValuesOf(Append(s, e), keys) =
           IF e.key \in keys THEN Append(ValuesOf(s, keys), e.value) ELSE ValuesOf(s, keys)
<1> DEFINE w == With(s, keys)
<1>1. w \in Seq(B)
      BY WithType
<1>2. CASE e.key \in keys
  <2>1. With(Append(s, e), keys) = Append(w, e)
        BY <1>2, WithNext
  <2> HIDE DEF w
  <2>2. /\ Len(w) \in Nat /\ DOMAIN w = 1..Len(w) /\ DOMAIN Append(w, e) = 1..(Len(w) + 1)
        /\ Append(w, e)[Len(w) + 1] = e /\ \A n \in 1..Len(w) : Append(w, e)[n] = w[n]
        BY <1>1
  <2> DEFINE a == [n \in DOMAIN Append(w, e) |-> Append(w, e)[n].value]
             b == [n \in DOMAIN w |-> w[n].value]
  <2>3. b \in Seq({x.value : x \in B}) /\ Len(b) = Len(w)
        BY <1>1, <2>2
  <2>4. a = Append(b, e.value)
    <3>1. Append(b, e.value) = [n \in 1..(Len(b) + 1) |-> IF n <= Len(b) THEN b[n] ELSE e.value]
          BY <2>3
    <3>2. a = [n \in 1..(Len(w) + 1) |-> Append(w, e)[n].value]
          BY <2>2
    <3>3. \A n \in 1..(Len(w) + 1) : Append(w, e)[n].value = IF n <= Len(b) THEN b[n] ELSE e.value
          BY <2>2, <2>3
    <3> QED BY <2>3, <3>1, <3>2, <3>3
  <2> QED BY <1>2, <2>1, <2>4 DEF ValuesOf, w
<1>3. CASE e.key \notin keys
      BY <1>3, WithNext DEF ValuesOf
<1> QED BY <1>2, <1>3

LEMMA ValuesType ==
  ASSUME NEW B, NEW s \in Seq(B), NEW keys, NEW V, \A x \in B : x.key \in keys => x.value \in V
  PROVE  ValuesOf(s, keys) \in Seq(V)
<1> DEFINE T == {k \in Seq(B) : ValuesOf(k, keys) \in Seq(V)}
<1>1. <<>> \in T
  <2>1. ValuesOf(<<>>, keys) = <<>>
        BY ValuesNone
  <2>2. <<>> \in Seq(V) /\ <<>> \in Seq(B)
        OBVIOUS
  <2> QED BY <2>1, <2>2, Zenon
<1>2. ASSUME NEW k \in Seq(B), k \in T, NEW x \in B PROVE Append(k, x) \in T
  <2>1. ValuesOf(k, keys) \in Seq(V)
        BY <1>2
  <2>2. ValuesOf(Append(k, x), keys) =
          IF x.key \in keys THEN Append(ValuesOf(k, keys), x.value) ELSE ValuesOf(k, keys)
        BY ValuesNext
  <2>3. ValuesOf(Append(k, x), keys) \in Seq(V)
    <3> DEFINE w == ValuesOf(k, keys)
    <3>1. x.key \in keys => Append(w, x.value) \in Seq(V)
          BY <2>1
    <3> HIDE DEF w
    <3> QED BY <2>1, <2>2, <3>1 DEF w
  <2> QED BY <2>3
<1> HIDE DEF T
<1>3. s \in T
      BY <1>1, <1>2, InductSequence
<1> QED BY <1>3 DEF T

LEMMA LastNone == \A key : LastValue(<<>>, key) = NULL
BY ForNone DEF LastValue

LEMMA LastNext ==
  ASSUME NEW B, NEW s \in Seq(B), NEW e \in B, NEW key
  PROVE  LastValue(Append(s, e), key) = IF e.key = key THEN e.value ELSE LastValue(s, key)
<1>1. With(s, {key}) \in Seq(B)
      BY WithType
<1>2. CASE e.key = key
  <2>1. With(Append(s, e), {key}) = Append(With(s, {key}), e)
        BY <1>2, WithNext
  <2>2. Last(Append(With(s, {key}), e)) = e
        BY <1>1 DEF Last
  <2>3. For(Append(s, e), key) # {}
        BY <1>2, ForNext
  <2> QED BY <1>2, <2>1, <2>2, <2>3 DEF LastValue
<1>3. CASE e.key # key
  <2>1. For(Append(s, e), key) = For(s, key)
    <3>1. For(Append(s, e), key) = For(s, key) \cup (IF e.key = key THEN {e} ELSE {})
          BY ForNext
    <3> QED BY <1>3, <3>1
  <2>2. With(Append(s, e), {key}) = With(s, {key})
        BY <1>3, WithNext
  <2> QED BY <1>3, <2>1, <2>2 DEF LastValue
<1> QED BY <1>2, <1>3

LEMMA LastIs ==
  ASSUME NEW B, NEW s \in Seq(B), NEW key, For(s, key) # {}
  PROVE  With(s, {key}) # <<>> /\ Last(With(s, {key})) \in For(s, key) /\ LastValue(s, key) = Last(With(s, {key})).value
<1> DEFINE w == With(s, {key})
<1>1. w \in Seq(B) /\ ToSet(w) = For(s, key)
      BY WithType, WithIsFor
<1> HIDE DEF w
<1>2. w # <<>>
      BY <1>1 DEF ToSet
<1>3. Len(w) \in DOMAIN w
      BY <1>1, <1>2
<1>4. Last(w) \in ToSet(w)
      BY <1>3 DEF Last, ToSet
<1> QED BY <1>1, <1>2, <1>4 DEF w, LastValue

\* What a function makes of the members of a sequence, with one more.
LEMMA MappedNext ==
  ASSUME NEW B, NEW s \in Seq(B), NEW e \in B, NEW f
  PROVE  [n \in DOMAIN Append(s, e) |-> f[Append(s, e)[n]]] = Append([n \in DOMAIN s |-> f[s[n]]], f[e])
<1>2. /\ Len(s) \in Nat /\ DOMAIN s = 1..Len(s) /\ DOMAIN Append(s, e) = 1..(Len(s) + 1)
      /\ Append(s, e)[Len(s) + 1] = e /\ \A n \in 1..Len(s) : Append(s, e)[n] = s[n]
      OBVIOUS
<1> DEFINE a == [n \in DOMAIN Append(s, e) |-> f[Append(s, e)[n]]]
           b == [n \in DOMAIN s |-> f[s[n]]]
<1>3. b \in Seq({f[x] : x \in B}) /\ Len(b) = Len(s)
      BY <1>2
<1>4. a = Append(b, f[e])
  <2>1. Append(b, f[e]) = [n \in 1..(Len(b) + 1) |-> IF n <= Len(b) THEN b[n] ELSE f[e]]
        BY <1>3
  <2>2. a = [n \in 1..(Len(s) + 1) |-> f[Append(s, e)[n]]]
        BY <1>2
  <2>3. \A n \in 1..(Len(s) + 1) : f[Append(s, e)[n]] = IF n <= Len(b) THEN b[n] ELSE f[e]
        BY <1>2, <1>3
  <2> QED BY <1>3, <2>1, <2>2, <2>3
<1> QED BY <1>4

-----------------------------------------------------------------------------
(* A config with one more bind, site and handler, which is the last one.   *)

ConfigSet == [binds : Seq(BindConfigs), accessLogfile : Texts, serverLogfile : Texts,
              serverVerbosity : Values \cup Levels]

PutBind(c, b) == [c EXCEPT !.binds = Append(@, b)]
PutSite(b, s) == [b EXCEPT !.sites = Append(@, s)]
PutHandler(s, h) == [s EXCEPT !.handlers = Append(@, h)]

LEMMA LastIsPut ==
  ASSUME NEW B, NEW s \in Seq(B), NEW x \in B, NEW y \in B
  PROVE  Last(Append(s, x)) = x /\ WithLast(Append(s, x), y) = Append(s, y)
<1> DEFINE t == Append(s, x)
<1>1. /\ t \in Seq(B) /\ t # <<>> /\ Len(s) \in Nat /\ Len(t) = Len(s) + 1 /\ t[Len(s) + 1] = x
      /\ \A n \in 1..Len(s) : t[n] = s[n]
      OBVIOUS
<1> HIDE DEF t
<1>2. /\ Front(t) \in Seq(B) /\ Len(Front(t)) = Len(t) - 1
      /\ \A n \in 1..(Len(t) - 1) : Front(t)[n] = t[n]
      BY <1>1, FrontIs
<1>3. Len(Front(t)) = Len(s) /\ \A n \in 1..Len(s) : Front(t)[n] = s[n]
      BY <1>1, <1>2
<1>4. Front(t) = s
      BY <1>2, <1>3, SeqEqual
<1>5. Last(t) = x
      BY <1>1 DEF Last
<1> QED BY <1>4, <1>5 DEF t, WithLast

LEMMA BindIsPut ==
  ASSUME NEW c \in ConfigSet, NEW b \in BindConfigs
  PROVE  /\ PutBind(c, b) \in ConfigSet
         /\ LastBind(PutBind(c, b)) = b
         /\ \A a \in BindConfigs : SetBind(PutBind(c, b), a) = PutBind(c, a)
<1>1. c.binds \in Seq(BindConfigs)
      BY DEF ConfigSet
<1>2. PutBind(c, b).binds = Append(c.binds, b)
      BY DEF PutBind, ConfigSet
<1>3. PutBind(c, b) \in ConfigSet
  <2>1. Append(c.binds, b) \in Seq(BindConfigs)
        BY <1>1
  <2> QED BY <2>1 DEF PutBind, ConfigSet
<1>4. LastBind(PutBind(c, b)) = b
      BY <1>1, <1>2, LastIsPut DEF LastBind
<1>5. ASSUME NEW a \in BindConfigs PROVE SetBind(PutBind(c, b), a) = PutBind(c, a)
  <2>1. WithLast(Append(c.binds, b), a) = Append(c.binds, a)
        BY <1>1, LastIsPut
  <2>2. SetBind(PutBind(c, b), a) = [PutBind(c, b) EXCEPT !.binds = Append(c.binds, a)]
        BY <1>2, <2>1 DEF SetBind
  <2> QED BY <2>2 DEF PutBind, ConfigSet
<1> QED BY <1>3, <1>4, <1>5

LEMMA SiteIsPut ==
  ASSUME NEW c \in ConfigSet, NEW b \in BindConfigs, NEW s \in SiteConfigs
  PROVE  /\ PutSite(b, s) \in BindConfigs
         /\ LastSite(PutBind(c, PutSite(b, s))) = s
         /\ \A a \in SiteConfigs : SetSite(PutBind(c, PutSite(b, s)), a) = PutBind(c, PutSite(b, a))
<1>1. b.sites \in Seq(SiteConfigs)
      BY DEF BindConfigs
<1>2. PutSite(b, s).sites = Append(b.sites, s)
      BY DEF PutSite, BindConfigs
<1>3. ASSUME NEW a \in SiteConfigs PROVE PutSite(b, a) \in BindConfigs
  <2>1. Append(b.sites, a) \in Seq(SiteConfigs)
        BY <1>1
  <2> QED BY <2>1 DEF PutSite, BindConfigs
<1>4. LastBind(PutBind(c, PutSite(b, s))) = PutSite(b, s)
      BY <1>3, BindIsPut
<1>5. LastSite(PutBind(c, PutSite(b, s))) = s
  <2>1. Last(Append(b.sites, s)) = s
        BY <1>1, LastIsPut
  <2> QED BY <1>2, <1>4, <2>1 DEF LastSite
<1>6. ASSUME NEW a \in SiteConfigs
      PROVE  SetSite(PutBind(c, PutSite(b, s)), a) = PutBind(c, PutSite(b, a))
  <2>1. WithLast(Append(b.sites, s), a) = Append(b.sites, a)
        BY <1>1, LastIsPut
  <2>2. [PutSite(b, s) EXCEPT !.sites = WithLast(@, a)] = PutSite(b, a)
        BY <1>2, <2>1 DEF PutSite, BindConfigs
  <2>3. SetSite(PutBind(c, PutSite(b, s)), a) = SetBind(PutBind(c, PutSite(b, s)), PutSite(b, a))
        BY <1>4, <2>2 DEF SetSite
  <2> QED BY <1>3, <2>3, BindIsPut
<1> QED BY <1>3, <1>5, <1>6

LEMMA HandlerIsPut ==
  ASSUME NEW c \in ConfigSet, NEW b \in BindConfigs, NEW s \in SiteConfigs, NEW h \in HandlerConfigs
  PROVE  /\ PutHandler(s, h) \in SiteConfigs
         /\ LastHandler(PutBind(c, PutSite(b, PutHandler(s, h)))) = h
         /\ \A a \in HandlerConfigs :
              SetHandler(PutBind(c, PutSite(b, PutHandler(s, h))), a)
                = PutBind(c, PutSite(b, PutHandler(s, a)))
<1> DEFINE C(a) == PutBind(c, PutSite(b, PutHandler(s, a)))
<1>1. s.handlers \in Seq(HandlerConfigs)
      BY DEF SiteConfigs
<1>2. PutHandler(s, h).handlers = Append(s.handlers, h)
      BY DEF PutHandler, SiteConfigs
<1>3. ASSUME NEW a \in HandlerConfigs PROVE PutHandler(s, a) \in SiteConfigs
  <2>1. Append(s.handlers, a) \in Seq(HandlerConfigs)
        BY <1>1
  <2> QED BY <2>1 DEF PutHandler, SiteConfigs
<1>4. LastSite(C(h)) = PutHandler(s, h)
      BY <1>3, SiteIsPut
<1>5. LastHandler(C(h)) = h
  <2>1. Last(Append(s.handlers, h)) = h
        BY <1>1, LastIsPut
  <2> QED BY <1>2, <1>4, <2>1 DEF LastHandler
<1>6. ASSUME NEW a \in HandlerConfigs PROVE SetHandler(C(h), a) = C(a)
  <2>1. WithLast(Append(s.handlers, h), a) = Append(s.handlers, a)
        BY <1>1, LastIsPut
  <2>2. [PutHandler(s, h) EXCEPT !.handlers = WithLast(@, a)] = PutHandler(s, a)
        BY <1>2, <2>1 DEF PutHandler, SiteConfigs
  <2>3. SetHandler(C(h), a) = SetSite(C(h), PutHandler(s, a))
        BY <1>4, <2>2 DEF SetHandler
  <2> QED BY <1>3, <2>3, SiteIsPut
<1> QED BY <1>3, <1>5, <1>6

-----------------------------------------------------------------------------
(* Texts.                                                                  *)

Words == {"bind", "ssl", "site", "handler", "logging", "key", "cert", "hostname", "alias",
          "root", "type", "index", "access", "server", "verbosity", "=", Opening, Closing}
Tokens == Values \cup {<<w>> : w \in Words}
FitAll(x) == \A n \in 1..Len(x) : Fits(x[n])

LEMMA FitNone == FitAll(<<>>)
BY DEF FitAll

LEMMA FitBoth ==
  ASSUME NEW T, NEW x \in Seq(T), NEW y \in Seq(T)
  PROVE  FitAll(x \o y) <=> FitAll(x) /\ FitAll(y)
<1> DEFINE z == x \o y
<1>1. /\ Len(x) \in Nat /\ Len(y) \in Nat /\ Len(z) = Len(x) + Len(y)
      /\ \A n \in 1..Len(x) : z[n] = x[n]
      /\ \A n \in 1..Len(y) : z[n + Len(x)] = y[n]
      /\ \A n \in 1..Len(z) : z[n] = IF n <= Len(x) THEN x[n] ELSE y[n - Len(x)]
      OBVIOUS
<1> HIDE DEF z
<1>2. ASSUME FitAll(z) PROVE FitAll(x)
      BY <1>1, <1>2 DEF FitAll
<1>3. ASSUME FitAll(z), NEW n \in 1..Len(y) PROVE Fits(y[n])
  <2>1. n + Len(x) \in 1..Len(z)
        BY <1>1
  <2> QED BY <1>1, <1>3, <2>1 DEF FitAll
<1>4. ASSUME FitAll(x), FitAll(y), NEW n \in 1..Len(z) PROVE Fits(z[n])
  <2>1. CASE n <= Len(x)
    <3>1. n \in 1..Len(x)
          BY <1>1, <2>1
    <3> QED BY <1>1, <1>4, <3>1 DEF FitAll
  <2>2. CASE ~(n <= Len(x))
    <3>1. n - Len(x) \in 1..Len(y)
          BY <1>1, <2>2
    <3> QED BY <1>1, <1>4, <2>2, <3>1 DEF FitAll
  <2> QED BY <2>1, <2>2
<1> QED BY <1>2, <1>3, <1>4 DEF FitAll, z

LEMMA FitOne == \A t : FitAll(<<t>>) <=> Fits(t)
<1> TAKE t
<1>1. Len(<<t>>) = 1 /\ <<t>>[1] = t /\ 1..1 = {1}
      OBVIOUS
<1> QED BY <1>1 DEF FitAll

LEMMA FitThree == \A a, b, c : FitAll(<<a, b, c>>) <=> Fits(a) /\ Fits(b) /\ Fits(c)
<1> TAKE a, b, c
<1> DEFINE z == <<a, b, c>>
<1>1. Len(z) = 3 /\ z[1] = a /\ z[2] = b /\ z[3] = c /\ 1..3 = {1, 2, 3}
      OBVIOUS
<1> HIDE DEF z
<1>2. FitAll(z) <=> Fits(a) /\ Fits(b) /\ Fits(c)
      BY <1>1 DEF FitAll
<1> QED BY <1>2 DEF z

\* The text of a sequence of entries.
TextOf(f, s) == FlattenSeq([n \in DOMAIN s |-> f[s[n]]])

LEMMA TextNone == \A f : TextOf(f, <<>>) = <<>>
<1> TAKE f
<1>1. [n \in DOMAIN <<>> |-> f[<<>>[n]]] = <<>>
      OBVIOUS
<1> QED BY <1>1, FlattenEmpty DEF TextOf

LEMMA TextNext ==
  ASSUME NEW T, NEW B, NEW s \in Seq(B), NEW e \in B, NEW f \in [B -> Seq(T)]
  PROVE  /\ TextOf(f, s) \in Seq(T)
         /\ TextOf(f, Append(s, e)) = TextOf(f, s) \o f[e]
<1> DEFINE a == [n \in DOMAIN s |-> f[s[n]]]
<1>1. a \in Seq(Seq(T))
      OBVIOUS
<1>2. [n \in DOMAIN Append(s, e) |-> f[Append(s, e)[n]]] = Append(a, f[e])
      BY MappedNext
<1> HIDE DEF a
<1>3. FlattenSeq(a) \in Seq(T)
      BY <1>1, FlattenType
<1>4. FlattenSeq(Append(a, f[e])) = FlattenSeq(a) \o f[e]
      BY <1>1, <1>3, FlattenAppend
<1> QED BY <1>2, <1>3, <1>4 DEF TextOf, a

-----------------------------------------------------------------------------
(* What the parser makes of a text of several parts.                       *)

\* If every token fits, that is.
LeadsTo(r, x, q) == Leads(r, x, IF FitAll(x) THEN q ELSE Failure)

LEMMA LeadsToOne ==
  ASSUME NEW r, NEW t, NEW q, Step(r, t) = IF Fits(t) THEN q ELSE Failure
  PROVE  LeadsTo(r, <<t>>, q)
BY LeadsOne, FitOne DEF LeadsTo

LEMMA LeadsToFailure ==
  ASSUME NEW T, NEW x \in Seq(T) PROVE LeadsTo(Failure, x, Failure)
BY LeadsFailure DEF LeadsTo

LEMMA LeadsBoth ==
  ASSUME NEW T, NEW x \in Seq(T), NEW y \in Seq(T), NEW r, NEW m, NEW q,
         LeadsTo(r, x, m), LeadsTo(m, y, q)
  PROVE  LeadsTo(r, x \o y, q)
<1>1. FitAll(x \o y) <=> FitAll(x) /\ FitAll(y)
      BY FitBoth
<1>2. CASE FitAll(x)
  <2>1. Leads(r, x, m) /\ Leads(m, y, IF FitAll(y) THEN q ELSE Failure)
        BY <1>2 DEF LeadsTo
  <2>2. Leads(r, x \o y, IF FitAll(y) THEN q ELSE Failure)
        BY <2>1, LeadsOn
  <2> QED BY <1>1, <1>2, <2>2 DEF LeadsTo
<1>3. CASE ~FitAll(x)
  <2>1. Leads(r, x, Failure) /\ Leads(Failure, y, Failure)
        BY <1>3, LeadsFailure DEF LeadsTo
  <2>2. Leads(r, x \o y, Failure)
        BY <2>1, LeadsOn
  <2> QED BY <1>1, <1>3, <2>2 DEF LeadsTo
<1> QED BY <1>2, <1>3

\* A body, if the first entries lead to R of them.
LEMMA LeadsBody ==
  ASSUME NEW T, NEW B, NEW f \in [B -> Seq(T)], NEW R,
         \A k \in Seq(B) : \A x \in B : LeadsTo(R[k], f[x], R[Append(k, x)])
  PROVE  \A k \in Seq(B) : TextOf(f, k) \in Seq(T) /\ LeadsTo(R[<<>>], TextOf(f, k), R[k])
<1> DEFINE S == {k \in Seq(B) : TextOf(f, k) \in Seq(T) /\ LeadsTo(R[<<>>], TextOf(f, k), R[k])}
<1>1. <<>> \in S
  <2>1. TextOf(f, <<>>) = <<>> /\ FitAll(<<>>)
        BY TextNone, FitNone
  <2>2. Leads(R[<<>>], <<>>, R[<<>>])
        BY LeadsNone
  <2>3. <<>> \in Seq(T) /\ <<>> \in Seq(B)
        OBVIOUS
  <2>4. LeadsTo(R[<<>>], TextOf(f, <<>>), R[<<>>])
        BY <2>1, <2>2 DEF LeadsTo
  <2> QED BY <2>1, <2>3, <2>4, Zenon
<1>2. ASSUME NEW k \in Seq(B), k \in S, NEW x \in B PROVE Append(k, x) \in S
  <2>1. TextOf(f, k) \in Seq(T) /\ f[x] \in Seq(T) /\ Append(k, x) \in Seq(B)
        BY <1>2
  <2>2. TextOf(f, Append(k, x)) = TextOf(f, k) \o f[x]
        BY TextNext
  <2>3. LeadsTo(R[<<>>], TextOf(f, k), R[k])
        BY <1>2
  <2>4. LeadsTo(R[k], f[x], R[Append(k, x)])
        OBVIOUS
  <2>5. LeadsTo(R[<<>>], TextOf(f, k) \o f[x], R[Append(k, x)])
        BY <2>1, <2>3, <2>4, LeadsBoth
  <2>6. TextOf(f, k) \o f[x] \in Seq(T)
        BY <2>1
  <2> HIDE DEF S
  <2>7. TextOf(f, Append(k, x)) \in Seq(T)
        BY <2>2, <2>6
  <2>8. LeadsTo(R[<<>>], TextOf(f, Append(k, x)), R[Append(k, x)])
        BY <2>2, <2>5
  <2> QED BY <2>1, <2>7, <2>8, Zenon DEF S
<1> HIDE DEF S
<1>3. \A k \in Seq(B) : k \in S
      BY <1>1, <1>2, InductSequence
<1> QED BY <1>3 DEF S

\* A block without a value, and one with a value.
LEMMA LeadsBraces ==
  ASSUME NEW T, NEW a \in T, NEW b \in T, NEW x \in Seq(T), NEW inner \in Seq(T),
         NEW r, NEW m, NEW n, NEW p, NEW q, LeadsTo(r, x, m), LeadsTo(m, <<a>>, n),
         LeadsTo(n, inner, p), LeadsTo(p, <<b>>, q)
  PROVE  /\ x \o <<a>> \o inner \o <<b>> \in Seq(T)
         /\ LeadsTo(r, x \o <<a>> \o inner \o <<b>>, q)
<1> DEFINE u == <<a>>
           v == <<b>>
           y == x \o u
           z == y \o inner
<1>1. u \in Seq(T) /\ v \in Seq(T)
      OBVIOUS
<1>2. LeadsTo(m, u, n) /\ LeadsTo(p, v, q)
      OBVIOUS
<1> HIDE DEF u, v
<1>3. y \in Seq(T)
      BY <1>1
<1>4. LeadsTo(r, y, n)
      BY <1>1, <1>2, LeadsBoth
<1> HIDE DEF y
<1>5. z \in Seq(T)
      BY <1>3
<1>6. LeadsTo(r, z, p)
      BY <1>3, <1>4, LeadsBoth
<1> HIDE DEF z
<1>7. z \o v \in Seq(T)
      BY <1>1, <1>5
<1>8. LeadsTo(r, z \o v, q)
      BY <1>1, <1>2, <1>5, <1>6, LeadsBoth
<1> QED BY <1>7, <1>8 DEF y, z, u, v

LEMMA LeadsBlock ==
  ASSUME NEW T, NEW a \in T, NEW b \in T, a = <<Opening>>, b = <<Closing>>, NEW inner \in Seq(T),
         NEW e, <<e.key>> \in T, e.value = <<>>, NEW r, NEW m, NEW n, NEW p, NEW q,
         LeadsTo(r, <<<<e.key>>>>, m), LeadsTo(m, <<a>>, n), LeadsTo(n, inner, p), LeadsTo(p, <<b>>, q)
  PROVE  BlockText(e, inner) \in Seq(T) /\ LeadsTo(r, BlockText(e, inner), q)
<1> DEFINE x == <<<<e.key>>>>
<1>1. x \in Seq(T)
      OBVIOUS
<1>2. x \o <<>> = x
      BY <1>1
<1>3. BlockText(e, inner) = x \o <<a>> \o inner \o <<b>>
      BY <1>2 DEF BlockText
<1>4. LeadsTo(r, x, m)
      OBVIOUS
<1> HIDE DEF x
<1>5. x \o <<a>> \o inner \o <<b>> \in Seq(T)
      BY <1>1, <1>4, LeadsBraces
<1>6. LeadsTo(r, x \o <<a>> \o inner \o <<b>>, q)
      BY <1>1, <1>4, LeadsBraces
<1> QED BY <1>3, <1>5, <1>6

LEMMA LeadsValueBlock ==
  ASSUME NEW T, NEW a \in T, NEW b \in T, a = <<Opening>>, b = <<Closing>>, NEW inner \in Seq(T),
         NEW e, <<e.key>> \in T, e.value \in T, e.value # <<>>,
         NEW r, NEW l, NEW m, NEW n, NEW p, NEW q,
         LeadsTo(r, <<<<e.key>>>>, l), LeadsTo(l, <<e.value>>, m),
         LeadsTo(m, <<a>>, n), LeadsTo(n, inner, p), LeadsTo(p, <<b>>, q)
  PROVE  BlockText(e, inner) \in Seq(T) /\ LeadsTo(r, BlockText(e, inner), q)
<1> DEFINE k == <<<<e.key>>>>
           v == <<e.value>>
           x == k \o v
<1>1. k \in Seq(T) /\ v \in Seq(T)
      OBVIOUS
<1>2. LeadsTo(r, k, l) /\ LeadsTo(l, v, m)
      OBVIOUS
<1>3. BlockText(e, inner) = x \o <<a>> \o inner \o <<b>>
      BY DEF BlockText
<1> HIDE DEF k, v
<1>4. x \in Seq(T)
      BY <1>1
<1>5. LeadsTo(r, x, m)
      BY <1>1, <1>2, LeadsBoth
<1> HIDE DEF x
<1>6. x \o <<a>> \o inner \o <<b>> \in Seq(T)
      BY <1>4, <1>5, LeadsBraces
<1>7. LeadsTo(r, x \o <<a>> \o inner \o <<b>>, q)
      BY <1>4, <1>5, LeadsBraces
<1> QED BY <1>3, <1>6, <1>7

\* An entry of a block, key = value.
LEMMA LeadsSetting ==
  ASSUME NEW s, NEW c, NEW e, NEW p, NEW v, NEW q,
         KeywordTo(s, e.key, p), KeywordTo(p, "=", v), TakesValue(v), AfterValue(v, c, e.value) = q
  PROVE  LeadsTo(At(s, c), SettingText(e), q)
<1> DEFINE x == SettingText(e)
<1>1. Step(At(s, c), <<e.key>>) = IF Fits(<<e.key>>) THEN At(p, c) ELSE Failure
      BY StepKeyword
<1>2. Step(At(p, c), <<"=">>) = IF Fits(<<"=">>) THEN At(v, c) ELSE Failure
      BY StepKeyword
<1>3. Step(At(v, c), e.value) = IF Fits(e.value) THEN q ELSE Failure
      BY StepValue
<1>4. Step(Step(Step(At(s, c), <<e.key>>), <<"=">>), e.value) =
        IF Fits(<<e.key>>) /\ Fits(<<"=">>) /\ Fits(e.value) THEN q ELSE Failure
      BY <1>1, <1>2, <1>3, StepFailure
<1>5. Leads(At(s, c), x, Step(Step(Step(At(s, c), <<e.key>>), <<"=">>), e.value))
      BY LeadsThree DEF SettingText
<1>6. FitAll(x) <=> Fits(<<e.key>>) /\ Fits(<<"=">>) /\ Fits(e.value)
      BY FitThree DEF SettingText
<1> QED BY <1>4, <1>5, <1>6 DEF LeadsTo

-----------------------------------------------------------------------------
(* A handler: its settings, and its block.                                 *)

LEMMA LastType ==
  ASSUME NEW B, NEW s \in Seq(B), NEW key, NEW V, \A x \in B : x.key = key => x.value \in V
  PROVE  LastValue(s, key) \in V \cup {NULL}
<1>1. CASE For(s, key) = {}
      BY <1>1 DEF LastValue
<1>2. CASE For(s, key) # {}
  <2>1. Last(With(s, {key})) \in For(s, key) /\ LastValue(s, key) = Last(With(s, {key})).value
        BY <1>2, LastIs
  <2>2. \A x \in For(s, key) : x \in B /\ x.key = key
        BY DEF For, ToSet
  <2> QED BY <2>1, <2>2
<1> QED BY <1>1, <1>2

HandlerSettings == Settings({"type", "index"})
HandlerOf(dir, k) == [dir |-> dir, type |-> LastValue(k, "type"),
                      indexfiles |-> ValuesOf(k, {"index"}), documentRoot |-> NULL]
TypedBody(k) ==
  /\ \A x \in For(k, "type") : x.value \in Types
  /\ \A n \in DOMAIN k : k[n].key = "index" => LastValue(SubSeq(k, 1, n), "type") = <<"file">>

LEMMA HandlerOfType ==
  ASSUME NEW dir \in Values, NEW k \in Seq(HandlerSettings) PROVE HandlerOf(dir, k) \in HandlerConfigs
<1>1. \A x \in HandlerSettings : x.value \in Values
      BY DEF HandlerSettings, Settings
<1>2. ValuesOf(k, {"index"}) \in Seq(Values)
      BY <1>1, ValuesType
<1>3. LastValue(k, "type") \in Values \cup {NULL}
      BY <1>1, LastType
<1> QED BY <1>2, <1>3 DEF HandlerOf, HandlerConfigs, Texts

LEMMA TypedNone == TypedBody(<<>>)
BY ForNone DEF TypedBody

LEMMA TypedNext ==
  ASSUME NEW k \in Seq(HandlerSettings), NEW x \in HandlerSettings
  PROVE  TypedBody(Append(k, x)) <=>
           /\ TypedBody(k) /\ (x.key = "type" => x.value \in Types)
           /\ x.key = "index" => LastValue(k, "type") = <<"file">>
<1> DEFINE t == Append(k, x)
           m == Len(k) + 1
<1>1. /\ Len(k) \in Nat /\ DOMAIN k = 1..Len(k) /\ DOMAIN t = 1..m /\ t[m] = x
      /\ \A n \in 1..Len(k) : t[n] = k[n]
      OBVIOUS
<1>2. \A n \in 1..Len(k) : SubSeq(t, 1, n) = SubSeq(k, 1, n)
      OBVIOUS
<1>3. SubSeq(t, 1, m) = t
      OBVIOUS
<1>4. For(t, "type") = For(k, "type") \cup (IF x.key = "type" THEN {x} ELSE {})
      BY ForNext
<1>5. x.key = "index" => LastValue(t, "type") = LastValue(k, "type")
      BY LastNext
<1> HIDE DEF t
<1>6. (\A n \in DOMAIN t : t[n].key = "index" => LastValue(SubSeq(t, 1, n), "type") = <<"file">>) <=>
        /\ \A n \in DOMAIN k : k[n].key = "index" => LastValue(SubSeq(k, 1, n), "type") = <<"file">>
        /\ x.key = "index" => LastValue(k, "type") = <<"file">>
  <2>1. DOMAIN t = DOMAIN k \cup {m}
        BY <1>1
  <2>2. \A n \in DOMAIN k : t[n] = k[n] /\ SubSeq(t, 1, n) = SubSeq(k, 1, n)
        BY <1>1, <1>2
  <2> HIDE DEF m
  <2> DEFINE P(u, n) == u[n].key = "index" => LastValue(SubSeq(u, 1, n), "type") = <<"file">>
  <2>3. ASSUME NEW n \in DOMAIN k PROVE P(t, n) <=> P(k, n)
        BY <2>2
  <2>4. P(t, m) <=> (x.key = "index" => LastValue(k, "type") = <<"file">>)
        BY <1>1, <1>3, <1>5
  <2> HIDE DEF P
  <2>5. (\A n \in DOMAIN t : P(t, n)) <=> (\A n \in DOMAIN k : P(k, n)) /\ P(t, m)
        BY <2>1, <2>3
  <2> QED BY <2>4, <2>5 DEF P
<1>7. (\A y \in For(t, "type") : y.value \in Types) <=>
        (\A y \in For(k, "type") : y.value \in Types) /\ (x.key = "type" => x.value \in Types)
      BY <1>4
<1>8. TypedBody(t) <=>
           /\ TypedBody(k) /\ (x.key = "type" => x.value \in Types)
           /\ x.key = "index" => LastValue(k, "type") = <<"file">>
      BY <1>6, <1>7 DEF TypedBody
<1> QED BY <1>8 DEF t

InHandlerAt(c, b, s, h) == At("HANDLER_CONTENT", PutBind(c, PutSite(b, PutHandler(s, h))))

LEMMA LeadsHandlerSetting ==
  ASSUME NEW c \in ConfigSet, NEW b \in BindConfigs, NEW s \in SiteConfigs, NEW dir \in Values,
         NEW k \in Seq(HandlerSettings), NEW x \in HandlerSettings, TypedBody(k)
  PROVE  LeadsTo(InHandlerAt(c, b, s, HandlerOf(dir, k)), SettingText(x),
                 IF TypedBody(Append(k, x)) THEN InHandlerAt(c, b, s, HandlerOf(dir, Append(k, x))) ELSE Failure)
<1> DEFINE h == HandlerOf(dir, k)
           g == HandlerOf(dir, Append(k, x))
           C == PutBind(c, PutSite(b, PutHandler(s, h)))
           q == IF TypedBody(Append(k, x)) THEN InHandlerAt(c, b, s, g) ELSE Failure
<1>1. h \in HandlerConfigs /\ g \in HandlerConfigs
  <2>1. Append(k, x) \in Seq(HandlerSettings)
        OBVIOUS
  <2> QED BY <2>1, HandlerOfType
<1>2. LastHandler(C) = h /\ \A a \in HandlerConfigs : SetHandler(C, a) = PutBind(c, PutSite(b, PutHandler(s, a)))
      BY <1>1, HandlerIsPut
<1>3. SetHandler(C, g) = PutBind(c, PutSite(b, PutHandler(s, g)))
      BY <1>1, <1>2
<1>4. TypedBody(Append(k, x)) <=>
           /\ x.key = "type" => x.value \in Types
           /\ x.key = "index" => LastValue(k, "type") = <<"file">>
      BY TypedNext
<1>5. LastValue(Append(k, x), "type") = IF x.key = "type" THEN x.value ELSE LastValue(k, "type")
      BY LastNext
<1>6. ValuesOf(Append(k, x), {"index"}) =
        IF x.key = "index" THEN Append(ValuesOf(k, {"index"}), x.value) ELSE ValuesOf(k, {"index"})
  <2>1. ValuesOf(Append(k, x), {"index"}) =
          IF x.key \in {"index"} THEN Append(ValuesOf(k, {"index"}), x.value) ELSE ValuesOf(k, {"index"})
        BY ValuesNext
  <2> QED BY <2>1
<1>7. x.key = "type" \/ x.key = "index"
      BY DEF HandlerSettings, Settings
<1>8. CASE x.key = "type"
  <2>1. g = [h EXCEPT !.type = x.value]
        BY <1>5, <1>6, <1>8 DEF HandlerOf
  <2>2. AfterValue("TYPE_VALUE", C, x.value) = q
    <3> HIDE DEF C, g, h
    <3>1. AfterValue("TYPE_VALUE", C, x.value) =
            IF x.value \in Types THEN At("HANDLER_CONTENT", SetHandler(C, [LastHandler(C) EXCEPT !.type = x.value]))
            ELSE Failure
          BY DEF AfterValue
    <3>2. SetHandler(C, [LastHandler(C) EXCEPT !.type = x.value]) = SetHandler(C, g)
          BY <1>2, <2>1
    <3> QED BY <1>3, <1>4, <1>8, <3>1, <3>2 DEF InHandlerAt
  <2>3. KeywordTo("HANDLER_CONTENT", x.key, "TYPE_EQUALS") /\ KeywordTo("TYPE_EQUALS", "=", "TYPE_VALUE")
        BY <1>8 DEF KeywordTo
  <2>4. TakesValue("TYPE_VALUE")
        BY DEF TakesValue, ValueTo
  <2> HIDE DEF q, C
  <2>5. LeadsTo(At("HANDLER_CONTENT", C), SettingText(x), q)
        BY <2>2, <2>3, <2>4, LeadsSetting
  <2> QED BY <2>5 DEF q, C, InHandlerAt
<1>9. CASE x.key = "index"
  <2>1. g = [h EXCEPT !.indexfiles = Append(@, x.value)]
    <3>1. h.indexfiles = ValuesOf(k, {"index"})
          BY DEF HandlerOf
    <3>2. g = [h EXCEPT !.indexfiles = ValuesOf(Append(k, x), {"index"})]
          BY <1>5, <1>9 DEF HandlerOf
    <3> QED BY <1>6, <1>9, <3>1, <3>2
  <2>2. AfterValue("INDEX_VALUE", C, x.value) = q
    <3>1. h.type = LastValue(k, "type")
          BY DEF HandlerOf
    <3> HIDE DEF C, g, h
    <3>2. AfterValue("INDEX_VALUE", C, x.value) =
            IF LastHandler(C).type = <<"file">>
              THEN At("HANDLER_CONTENT", SetHandler(C, [LastHandler(C) EXCEPT !.indexfiles = Append(@, x.value)]))
              ELSE Failure
          BY DEF AfterValue
    <3>3. SetHandler(C, [LastHandler(C) EXCEPT !.indexfiles = Append(@, x.value)]) = SetHandler(C, g)
          BY <1>2, <2>1
    <3> QED BY <1>2, <1>3, <1>4, <1>9, <3>1, <3>2, <3>3 DEF InHandlerAt
  <2>3. KeywordTo("HANDLER_CONTENT", x.key, "INDEX_EQUALS") /\ KeywordTo("INDEX_EQUALS", "=", "INDEX_VALUE")
        BY <1>9 DEF KeywordTo
  <2>4. TakesValue("INDEX_VALUE")
        BY DEF TakesValue, ValueTo
  <2> HIDE DEF q, C
  <2>5. LeadsTo(At("HANDLER_CONTENT", C), SettingText(x), q)
        BY <2>2, <2>3, <2>4, LeadsSetting
  <2> QED BY <2>5 DEF q, C, InHandlerAt
<1> QED BY <1>7, <1>8, <1>9

SettingsText(keys) == [x \in Settings(keys) |-> SettingText(x)]

LEMMA SettingsTyped ==
  ASSUME NEW keys, keys \subseteq Words
  PROVE  /\ SettingsText(keys) \in [Settings(keys) -> Seq(Tokens)]
         /\ \A e : e.body \in Seq(Settings(keys)) =>
              FlatText(e) = BlockText(e, TextOf(SettingsText(keys), e.body))
<1>1. ASSUME NEW x \in Settings(keys) PROVE SettingText(x) \in Seq(Tokens)
  <2>1. x.key \in Words /\ x.value \in Values
        BY DEF Settings
  <2>2. <<x.key>> \in Tokens /\ x.value \in Tokens
        BY <2>1 DEF Tokens
  <2>3. <<"=">> \in Tokens
        BY DEF Tokens, Words
  <2>4. \A t1, t2, t3 \in Tokens : <<t1, t2, t3>> \in Seq(Tokens)
        OBVIOUS
  <2> QED BY <2>2, <2>3, <2>4 DEF SettingText
<1>2. ASSUME NEW e, e.body \in Seq(Settings(keys))
      PROVE  FlatText(e) = BlockText(e, TextOf(SettingsText(keys), e.body))
  <2>1. \A n \in DOMAIN e.body : SettingsText(keys)[e.body[n]] = SettingText(e.body[n])
        BY <1>2 DEF SettingsText
  <2>2. [n \in DOMAIN e.body |-> SettingsText(keys)[e.body[n]]] = [n \in DOMAIN e.body |-> SettingText(e.body[n])]
        BY <2>1
  <2> QED BY <2>2 DEF FlatText, TextOf
<1> QED BY <1>1, <1>2 DEF SettingsText

LEMMA BracesAreTokens == <<Opening>> \in Tokens /\ <<Closing>> \in Tokens
BY DEF Tokens, Words

LEMMA LeadsToWord ==
  ASSUME NEW s, NEW c, NEW w, NEW q, KeywordTo(s, w, q)
  PROVE  LeadsTo(At(s, c), <<<<w>>>>, At(q, c))
BY StepKeyword, LeadsToOne

LEMMA LeadsHandler ==
  ASSUME NEW c \in ConfigSet, NEW b \in BindConfigs, NEW s \in SiteConfigs, NEW e \in HandlerBlocks
  PROVE  /\ FlatText(e) \in Seq(Tokens)
         /\ LeadsTo(At("SITE_CONTENT", PutBind(c, PutSite(b, s))), FlatText(e),
                    IF TypedBody(e.body)
                      THEN At("SITE_CONTENT", PutBind(c, PutSite(b, PutHandler(s, HandlerOf(e.value, e.body)))))
                      ELSE Failure)
<1> DEFINE C(h) == PutBind(c, PutSite(b, PutHandler(s, h)))
           D(k) == HandlerOf(e.value, k)
           f == SettingsText({"type", "index"})
           inner == TextOf(f, e.body)
           R == [k \in Seq(HandlerSettings) |-> IF TypedBody(k) THEN InHandlerAt(c, b, s, D(k)) ELSE Failure]
           q == IF TypedBody(e.body) THEN At("SITE_CONTENT", C(D(e.body))) ELSE Failure
<1>1. e.key = "handler" /\ e.value \in Values /\ e.body \in Seq(HandlerSettings)
      BY DEF HandlerBlocks, HandlerSettings
<1>2. {"type", "index"} \subseteq Words
      BY DEF Words
<1>3. f \in [HandlerSettings -> Seq(Tokens)] /\ FlatText(e) = BlockText(e, inner)
      BY <1>1, <1>2, SettingsTyped DEF HandlerSettings
<1>4. <<>> \in Seq(HandlerSettings)
      OBVIOUS
<1>5. \A k \in Seq(HandlerSettings) : D(k) \in HandlerConfigs
      BY <1>1, HandlerOfType
<1>6. FreshHandler \in HandlerConfigs /\ D(<<>>) = [FreshHandler EXCEPT !.dir = e.value]
  <2>1. <<>> \in Seq(Values) /\ NULL \in Texts
        BY DEF Texts
  <2>2. LastValue(<<>>, "type") = NULL /\ ValuesOf(<<>>, {"index"}) = <<>>
        BY LastNone, ValuesNone
  <2> QED BY <2>1, <2>2 DEF HandlerOf, FreshHandler, HandlerConfigs
<1>7. LeadsTo(At("SITE_CONTENT", PutBind(c, PutSite(b, s))), <<<<e.key>>>>, At("HANDLER_VALUE", C(FreshHandler)))
  <2> DEFINE A == PutBind(c, PutSite(b, s))
  <2>1. LastSite(A) = s /\ \A a \in SiteConfigs : SetSite(A, a) = PutBind(c, PutSite(b, a))
        BY SiteIsPut
  <2>2. PutHandler(s, FreshHandler) \in SiteConfigs
        BY <1>6, HandlerIsPut
  <2> HIDE DEF A
  <2>3. SetSite(A, [LastSite(A) EXCEPT !.handlers = Append(@, FreshHandler)]) = C(FreshHandler)
        BY <2>1, <2>2 DEF PutHandler
  <2>4. Step(At("SITE_CONTENT", A), <<"handler">>) =
          IF Fits(<<"handler">>) THEN At("HANDLER_VALUE", C(FreshHandler)) ELSE Failure
        BY <2>3, StepStart
  <2>5. LeadsTo(At("SITE_CONTENT", A), <<<<"handler">>>>, At("HANDLER_VALUE", C(FreshHandler)))
        BY <2>4, LeadsToOne
  <2> QED BY <1>1, <2>5 DEF A
<1>8. LeadsTo(At("HANDLER_VALUE", C(FreshHandler)), <<e.value>>, At("HANDLER_BRACKETS_OPEN", C(D(<<>>))))
  <2> DEFINE A == C(FreshHandler)
  <2>1. LastHandler(A) = FreshHandler /\ SetHandler(A, D(<<>>)) = C(D(<<>>))
    <3>1. D(<<>>) \in HandlerConfigs
          BY <1>4, <1>5
    <3> HIDE DEF D
    <3> QED BY <1>6, <3>1, HandlerIsPut
  <2> HIDE DEF A
  <2>2. AfterValue("HANDLER_VALUE", A, e.value) =
          At("HANDLER_BRACKETS_OPEN", SetHandler(A, [LastHandler(A) EXCEPT !.dir = e.value]))
        BY DEF AfterValue
  <2>3. TakesValue("HANDLER_VALUE")
        BY DEF TakesValue, ValueTo
  <2>4. Step(At("HANDLER_VALUE", A), e.value) =
          IF Fits(e.value) THEN At("HANDLER_BRACKETS_OPEN", C(D(<<>>))) ELSE Failure
        BY <1>6, <2>1, <2>2, <2>3, StepValue
  <2>5. LeadsTo(At("HANDLER_VALUE", A), <<e.value>>, At("HANDLER_BRACKETS_OPEN", C(D(<<>>))))
        BY <2>4, LeadsToOne
  <2> QED BY <2>5 DEF A
<1>9. LeadsTo(At("HANDLER_BRACKETS_OPEN", C(D(<<>>))), <<<<Opening>>>>, R[<<>>])
  <2>1. KeywordTo("HANDLER_BRACKETS_OPEN", Opening, "HANDLER_CONTENT")
        BY DEF KeywordTo
  <2>2. R[<<>>] = At("HANDLER_CONTENT", C(D(<<>>)))
        BY <1>4, TypedNone DEF InHandlerAt
  <2> QED BY <2>1, <2>2, LeadsToWord
<1>10. inner \in Seq(Tokens) /\ LeadsTo(R[<<>>], inner, R[e.body])
  <2>1. ASSUME NEW k \in Seq(HandlerSettings), NEW x \in HandlerSettings
        PROVE  LeadsTo(R[k], f[x], R[Append(k, x)])
    <3>1. f[x] = SettingText(x) /\ f[x] \in Seq(Tokens) /\ Append(k, x) \in Seq(HandlerSettings)
          BY <1>3 DEF SettingsText, HandlerSettings
    <3>2. CASE TypedBody(k)
      <4>1. R[k] = InHandlerAt(c, b, s, D(k))
            BY <3>2
      <4>2. R[Append(k, x)] =
              IF TypedBody(Append(k, x)) THEN InHandlerAt(c, b, s, D(Append(k, x))) ELSE Failure
            BY <3>1
      <4>3. LeadsTo(InHandlerAt(c, b, s, D(k)), SettingText(x),
                    IF TypedBody(Append(k, x)) THEN InHandlerAt(c, b, s, D(Append(k, x))) ELSE Failure)
            BY <1>1, <3>2, LeadsHandlerSetting
      <4> HIDE DEF R, D, f
      <4> QED BY <3>1, <4>1, <4>2, <4>3
    <3>3. CASE ~TypedBody(k)
      <4>1. ~TypedBody(Append(k, x))
            BY <3>3, TypedNext
      <4>2. R[k] = Failure /\ R[Append(k, x)] = Failure
            BY <3>1, <3>3, <4>1
      <4> HIDE DEF R
      <4> QED BY <3>1, <4>2, LeadsToFailure
    <3> QED BY <3>2, <3>3
  <2> HIDE DEF R, f
  <2>2. \A k \in Seq(HandlerSettings) : TextOf(f, k) \in Seq(Tokens) /\ LeadsTo(R[<<>>], TextOf(f, k), R[k])
        BY <1>3, <2>1, LeadsBody
  <2> QED BY <1>1, <2>2
<1>11. LeadsTo(R[e.body], <<<<Closing>>>>, q)
  <2>1. KeywordTo("HANDLER_CONTENT", Closing, "SITE_CONTENT")
        BY DEF KeywordTo
  <2>2. R[e.body] = IF TypedBody(e.body) THEN At("HANDLER_CONTENT", C(D(e.body))) ELSE Failure
        BY <1>1 DEF InHandlerAt
  <2>3. <<<<Closing>>>> \in Seq(Tokens)
        BY BracesAreTokens
  <2> HIDE DEF R, C, D
  <2>4. LeadsTo(At("HANDLER_CONTENT", C(D(e.body))), <<<<Closing>>>>, At("SITE_CONTENT", C(D(e.body))))
        BY <2>1, LeadsToWord
  <2>5. LeadsTo(Failure, <<<<Closing>>>>, Failure)
        BY <2>3, LeadsToFailure
  <2> QED BY <2>2, <2>4, <2>5
<1>12. <<e.key>> \in Tokens /\ e.value \in Tokens /\ e.value # <<>>
      BY <1>1 DEF Tokens, Words, Values
<1> HIDE DEF C, D, f, inner, R, q
<1>13. /\ BlockText(e, inner) \in Seq(Tokens)
       /\ LeadsTo(At("SITE_CONTENT", PutBind(c, PutSite(b, s))), BlockText(e, inner), q)
      BY <1>7, <1>8, <1>9, <1>10, <1>11, <1>12, BracesAreTokens, LeadsValueBlock
<1> QED BY <1>3, <1>13 DEF q, C, D

-----------------------------------------------------------------------------
(* SSL settings.                                                           *)

SslSettings == Settings({"key", "cert"})
WithSsl(b, x) == [b EXCEPT !.ssl = x]

LEMMA SslType ==
  ASSUME NEW k \in Seq(SslSettings) PROVE DeclaredSsl(k) \in SslConfigs
<1>1. \A x \in SslSettings : x.value \in Values
      BY DEF SslSettings, Settings
<1>2. LastValue(k, "key") \in Values \cup {NULL} /\ LastValue(k, "cert") \in Values \cup {NULL}
      BY <1>1, LastType
<1> QED BY <1>2 DEF DeclaredSsl, SslConfigs, Texts

LEMMA SslIsPut ==
  ASSUME NEW c \in ConfigSet, NEW b \in BindConfigs, NEW x \in SslConfigs
  PROVE  /\ WithSsl(b, x) \in BindConfigs
         /\ LastBind(PutBind(c, WithSsl(b, x))) = WithSsl(b, x)
         /\ \A y \in SslConfigs : SetBind(PutBind(c, WithSsl(b, x)), WithSsl(b, y)) = PutBind(c, WithSsl(b, y))
<1>1. \A y \in SslConfigs : WithSsl(b, y) \in BindConfigs
      BY DEF WithSsl, BindConfigs
<1> QED BY <1>1, BindIsPut

InSslAt(c, b, x) == At("SSL_CONTENT", PutBind(c, WithSsl(b, x)))

LEMMA LeadsSslSetting ==
  ASSUME NEW c \in ConfigSet, NEW b \in BindConfigs, NEW k \in Seq(SslSettings), NEW x \in SslSettings
  PROVE  LeadsTo(InSslAt(c, b, DeclaredSsl(k)), SettingText(x), InSslAt(c, b, DeclaredSsl(Append(k, x))))
<1> DEFINE h == DeclaredSsl(k)
           g == DeclaredSsl(Append(k, x))
           C == PutBind(c, WithSsl(b, h))
           q == InSslAt(c, b, g)
<1>1. h \in SslConfigs /\ g \in SslConfigs
  <2>1. Append(k, x) \in Seq(SslSettings)
        OBVIOUS
  <2> QED BY <2>1, SslType
<1>2. LastBind(C) = WithSsl(b, h) /\ SetBind(C, WithSsl(b, g)) = PutBind(c, WithSsl(b, g))
  <2> HIDE DEF g, h
  <2> QED BY <1>1, SslIsPut
<1>3. /\ LastValue(Append(k, x), "key") = IF x.key = "key" THEN x.value ELSE LastValue(k, "key")
      /\ LastValue(Append(k, x), "cert") = IF x.key = "cert" THEN x.value ELSE LastValue(k, "cert")
      BY LastNext
<1>4. x.key = "key" \/ x.key = "cert"
      BY DEF SslSettings, Settings
<1>5. CASE x.key = "key"
  <2>1. g = [h EXCEPT !.privateKey = x.value]
        BY <1>3, <1>5 DEF DeclaredSsl
  <2>2. [WithSsl(b, h) EXCEPT !.ssl.privateKey = x.value] = WithSsl(b, g)
    <3> HIDE DEF g, h
    <3> QED BY <2>1 DEF WithSsl, BindConfigs
  <2>3. AfterValue("SSL_KEY_VALUE", C, x.value) = q
    <3> HIDE DEF C, g, h
    <3>1. AfterValue("SSL_KEY_VALUE", C, x.value) =
            At("SSL_CONTENT", SetBind(C, [LastBind(C) EXCEPT !.ssl.privateKey = x.value]))
          BY DEF AfterValue
    <3> QED BY <1>2, <2>2, <3>1 DEF InSslAt
  <2>4. KeywordTo("SSL_CONTENT", x.key, "SSL_KEY_EQUALS") /\ KeywordTo("SSL_KEY_EQUALS", "=", "SSL_KEY_VALUE")
        BY <1>5 DEF KeywordTo
  <2>5. TakesValue("SSL_KEY_VALUE")
        BY DEF TakesValue, ValueTo
  <2> HIDE DEF q, C
  <2>6. LeadsTo(At("SSL_CONTENT", C), SettingText(x), q)
        BY <2>3, <2>4, <2>5, LeadsSetting
  <2> QED BY <2>6 DEF q, C, InSslAt
<1>6. CASE x.key = "cert"
  <2>1. g = [h EXCEPT !.certificate = x.value]
        BY <1>3, <1>6 DEF DeclaredSsl
  <2>2. [WithSsl(b, h) EXCEPT !.ssl.certificate = x.value] = WithSsl(b, g)
    <3> HIDE DEF g, h
    <3> QED BY <2>1 DEF WithSsl, BindConfigs
  <2>3. AfterValue("SSL_CERT_VALUE", C, x.value) = q
    <3> HIDE DEF C, g, h
    <3>1. AfterValue("SSL_CERT_VALUE", C, x.value) =
            At("SSL_CONTENT", SetBind(C, [LastBind(C) EXCEPT !.ssl.certificate = x.value]))
          BY DEF AfterValue
    <3> QED BY <1>2, <2>2, <3>1 DEF InSslAt
  <2>4. KeywordTo("SSL_CONTENT", x.key, "SSL_CERT_EQUALS") /\ KeywordTo("SSL_CERT_EQUALS", "=", "SSL_CERT_VALUE")
        BY <1>6 DEF KeywordTo
  <2>5. TakesValue("SSL_CERT_VALUE")
        BY DEF TakesValue, ValueTo
  <2> HIDE DEF q, C
  <2>6. LeadsTo(At("SSL_CONTENT", C), SettingText(x), q)
        BY <2>3, <2>4, <2>5, LeadsSetting
  <2> QED BY <2>6 DEF q, C, InSslAt
<1> QED BY <1>4, <1>5, <1>6

LEMMA LeadsSsl ==
  ASSUME NEW c \in ConfigSet, NEW b \in BindConfigs, NEW e \in SslBlocks
  PROVE  /\ FlatText(e) \in Seq(Tokens)
         /\ LeadsTo(At("BIND_CONTENT", PutBind(c, b)), FlatText(e),
                    IF b.ssl = NULL THEN At("BIND_CONTENT", PutBind(c, WithSsl(b, DeclaredSsl(e.body)))) ELSE Failure)
<1> DEFINE C(x) == PutBind(c, WithSsl(b, x))
           D(k) == DeclaredSsl(k)
           f == SettingsText({"key", "cert"})
           inner == TextOf(f, e.body)
           free == b.ssl = NULL
           R == [k \in Seq(SslSettings) |-> IF free THEN InSslAt(c, b, D(k)) ELSE Failure]
           m == IF free THEN At("SSL_BRACKETS_OPEN", C(D(<<>>))) ELSE Failure
           q == IF free THEN At("BIND_CONTENT", C(D(e.body))) ELSE Failure
<1>1. e.key = "ssl" /\ e.value = <<>> /\ e.body \in Seq(SslSettings)
      BY DEF SslBlocks, SslSettings
<1>2. {"key", "cert"} \subseteq Words
      BY DEF Words
<1>3. f \in [SslSettings -> Seq(Tokens)] /\ FlatText(e) = BlockText(e, inner)
      BY <1>1, <1>2, SettingsTyped DEF SslSettings
<1>4. <<>> \in Seq(SslSettings)
      OBVIOUS
<1>5. FreshSsl = D(<<>>)
      BY LastNone DEF FreshSsl, DeclaredSsl
<1>6. LeadsTo(At("BIND_CONTENT", PutBind(c, b)), <<<<e.key>>>>, m)
  <2> DEFINE A == PutBind(c, b)
  <2>1. LastBind(A) = b /\ SetBind(A, WithSsl(b, D(<<>>))) = C(D(<<>>))
    <3>1. WithSsl(b, D(<<>>)) \in BindConfigs
          BY <1>4, SslType, SslIsPut
    <3> HIDE DEF D
    <3> QED BY <3>1, BindIsPut
  <2> HIDE DEF A, D
  <2>2. SetBind(A, [LastBind(A) EXCEPT !.ssl = FreshSsl]) = C(D(<<>>))
        BY <1>5, <2>1 DEF WithSsl
  <2>3. Step(At("BIND_CONTENT", A), <<"ssl">>) = IF Fits(<<"ssl">>) THEN m ELSE Failure
        BY <2>1, <2>2, StepStart
  <2> HIDE DEF m
  <2>4. LeadsTo(At("BIND_CONTENT", A), <<<<"ssl">>>>, m)
        BY <2>3, LeadsToOne
  <2> QED BY <1>1, <2>4 DEF A
<1>7. \A x \in Tokens : <<x>> \in Seq(Tokens) /\ LeadsTo(Failure, <<x>>, Failure)
  <2>1. \A x \in Tokens : <<x>> \in Seq(Tokens)
        OBVIOUS
  <2> QED BY <2>1, LeadsToFailure
<1>8. LeadsTo(m, <<<<Opening>>>>, R[<<>>])
  <2>1. KeywordTo("SSL_BRACKETS_OPEN", Opening, "SSL_CONTENT")
        BY DEF KeywordTo
  <2>2. R[<<>>] = IF free THEN At("SSL_CONTENT", C(D(<<>>))) ELSE Failure
        BY <1>4 DEF InSslAt
  <2> HIDE DEF R, C, D, free
  <2>3. LeadsTo(At("SSL_BRACKETS_OPEN", C(D(<<>>))), <<<<Opening>>>>, At("SSL_CONTENT", C(D(<<>>))))
        BY <2>1, LeadsToWord
  <2> QED BY <1>7, <2>2, <2>3, BracesAreTokens
<1>9. inner \in Seq(Tokens) /\ LeadsTo(R[<<>>], inner, R[e.body])
  <2>1. ASSUME NEW k \in Seq(SslSettings), NEW x \in SslSettings
        PROVE  LeadsTo(R[k], f[x], R[Append(k, x)])
    <3>1. f[x] = SettingText(x) /\ f[x] \in Seq(Tokens) /\ Append(k, x) \in Seq(SslSettings)
          BY <1>3 DEF SettingsText, SslSettings
    <3>2. R[k] = (IF free THEN InSslAt(c, b, D(k)) ELSE Failure)
          OBVIOUS
    <3>3. R[Append(k, x)] = (IF free THEN InSslAt(c, b, D(Append(k, x))) ELSE Failure)
          BY <3>1
    <3>4. LeadsTo(InSslAt(c, b, D(k)), SettingText(x), InSslAt(c, b, D(Append(k, x))))
          BY LeadsSslSetting
    <3>5. LeadsTo(Failure, f[x], Failure)
          BY <3>1, LeadsToFailure
    <3> HIDE DEF R, D, f, free
    <3> QED BY <3>1, <3>2, <3>3, <3>4, <3>5
  <2> HIDE DEF R, f
  <2>2. \A k \in Seq(SslSettings) : TextOf(f, k) \in Seq(Tokens) /\ LeadsTo(R[<<>>], TextOf(f, k), R[k])
        BY <1>3, <2>1, LeadsBody
  <2> QED BY <1>1, <2>2
<1>10. LeadsTo(R[e.body], <<<<Closing>>>>, q)
  <2>1. KeywordTo("SSL_CONTENT", Closing, "BIND_CONTENT")
        BY DEF KeywordTo
  <2>2. R[e.body] = IF free THEN At("SSL_CONTENT", C(D(e.body))) ELSE Failure
        BY <1>1 DEF InSslAt
  <2> HIDE DEF R, C, D, free
  <2>3. LeadsTo(At("SSL_CONTENT", C(D(e.body))), <<<<Closing>>>>, At("BIND_CONTENT", C(D(e.body))))
        BY <2>1, LeadsToWord
  <2> QED BY <1>7, <2>2, <2>3, BracesAreTokens
<1>11. <<e.key>> \in Tokens
      BY <1>1 DEF Tokens, Words
<1> HIDE DEF C, D, f, inner, R, m, q
<1>12. /\ BlockText(e, inner) \in Seq(Tokens)
       /\ LeadsTo(At("BIND_CONTENT", PutBind(c, b)), BlockText(e, inner), q)
      BY <1>1, <1>6, <1>8, <1>9, <1>10, <1>11, BracesAreTokens, LeadsBlock
<1> QED BY <1>3, <1>12 DEF q, C, D

-----------------------------------------------------------------------------
(* A site.                                                                 *)

SiteSettings == Settings({"hostname", "alias", "root"})
SiteEntries == HandlerBlocks \cup SiteSettings
HandlersOf(k) ==
  [n \in DOMAIN With(k, {"handler"}) |->
     HandlerOf(With(k, {"handler"})[n].value, With(k, {"handler"})[n].body)]
SiteOf(k) == [hostnames |-> ValuesOf(k, {"hostname", "alias"}), documentRoot |-> LastValue(k, "root"),
              handlers |-> HandlersOf(k)]
TypedSite(k) == \A h \in For(k, "handler") : TypedBody(h.body)

LEMMA SiteEntryIs ==
  ASSUME NEW x \in SiteEntries
  PROVE  /\ x.key = "handler" => x \in HandlerBlocks
         /\ x.key # "handler" => x \in SiteSettings
         /\ x.key \in {"handler", "hostname", "alias", "root"} /\ x.value \in Values
BY DEF SiteEntries, HandlerBlocks, SiteSettings, Settings

LEMMA HandlersNext ==
  ASSUME NEW k \in Seq(SiteEntries), NEW x \in SiteEntries
  PROVE  HandlersOf(Append(k, x)) =
           IF x.key = "handler" THEN Append(HandlersOf(k), HandlerOf(x.value, x.body)) ELSE HandlersOf(k)
<1> DEFINE f == [h \in SiteEntries |-> HandlerOf(h.value, h.body)]
           w == With(k, {"handler"})
<1>1. w \in Seq(SiteEntries)
      BY WithType
<1>2. \A v \in Seq(SiteEntries) :
        [n \in DOMAIN v |-> HandlerOf(v[n].value, v[n].body)] = [n \in DOMAIN v |-> f[v[n]]]
      OBVIOUS
<1>3. CASE x.key = "handler"
  <2>1. With(Append(k, x), {"handler"}) = Append(w, x)
        BY <1>3, WithNext
  <2>2. f[x] = HandlerOf(x.value, x.body)
        OBVIOUS
  <2> HIDE DEF f, w
  <2>3. [n \in DOMAIN Append(w, x) |-> f[Append(w, x)[n]]] = Append([n \in DOMAIN w |-> f[w[n]]], f[x])
        BY <1>1, MappedNext
  <2>4. Append(w, x) \in Seq(SiteEntries)
        BY <1>1
  <2>5. HandlersOf(Append(k, x)) = [n \in DOMAIN Append(w, x) |-> f[Append(w, x)[n]]]
        BY <1>2, <2>1, <2>4 DEF HandlersOf
  <2>6. HandlersOf(k) = [n \in DOMAIN w |-> f[w[n]]]
        BY <1>1, <1>2 DEF HandlersOf, w
  <2> QED BY <1>3, <2>2, <2>3, <2>5, <2>6
<1>4. CASE x.key # "handler"
  <2>1. With(Append(k, x), {"handler"}) = w
        BY <1>4, WithNext
  <2> QED BY <1>4, <2>1 DEF HandlersOf
<1> QED BY <1>3, <1>4

LEMMA HandlersNone == HandlersOf(<<>>) = <<>>
BY WithNone DEF HandlersOf

LEMMA HandlersType ==
  ASSUME NEW s \in Seq(SiteEntries) PROVE HandlersOf(s) \in Seq(HandlerConfigs)
<1> DEFINE T == {k \in Seq(SiteEntries) : HandlersOf(k) \in Seq(HandlerConfigs)}
<1>1. <<>> \in T
  <2>1. <<>> \in Seq(HandlerConfigs) /\ <<>> \in Seq(SiteEntries)
        OBVIOUS
  <2> QED BY <2>1, HandlersNone, Zenon
<1>2. ASSUME NEW k \in Seq(SiteEntries), k \in T, NEW x \in SiteEntries PROVE Append(k, x) \in T
  <2>1. HandlersOf(k) \in Seq(HandlerConfigs) /\ Append(k, x) \in Seq(SiteEntries)
        BY <1>2
  <2>2. x.key = "handler" => HandlerOf(x.value, x.body) \in HandlerConfigs
    <3>1. x.key = "handler" => x.value \in Values /\ x.body \in Seq(HandlerSettings)
          BY SiteEntryIs DEF HandlerBlocks, HandlerSettings
    <3> QED BY <3>1, HandlerOfType
  <2>3. x.key = "handler" => Append(HandlersOf(k), HandlerOf(x.value, x.body)) \in Seq(HandlerConfigs)
        BY <2>1, <2>2
  <2>4. HandlersOf(Append(k, x)) \in Seq(HandlerConfigs)
        BY <2>1, <2>3, HandlersNext
  <2> QED BY <2>1, <2>4, Zenon
<1> HIDE DEF T
<1>3. s \in T
      BY <1>1, <1>2, InductSequence
<1> QED BY <1>3 DEF T

LEMMA SiteOfType ==
  ASSUME NEW k \in Seq(SiteEntries) PROVE SiteOf(k) \in SiteConfigs
<1>1. \A x \in SiteEntries : x.value \in Values
      BY SiteEntryIs
<1>2. ValuesOf(k, {"hostname", "alias"}) \in Seq(Values)
      BY <1>1, ValuesType
<1>3. LastValue(k, "root") \in Values \cup {NULL}
      BY <1>1, LastType
<1>4. HandlersOf(k) \in Seq(HandlerConfigs)
      BY HandlersType
<1> QED BY <1>2, <1>3, <1>4 DEF SiteOf, SiteConfigs, Texts

LEMMA SiteOfNext ==
  ASSUME NEW k \in Seq(SiteEntries), NEW x \in SiteEntries
  PROVE  /\ x.key = "handler" => SiteOf(Append(k, x)) = PutHandler(SiteOf(k), HandlerOf(x.value, x.body))
         /\ x.key \in {"hostname", "alias"} =>
              SiteOf(Append(k, x)) = [SiteOf(k) EXCEPT !.hostnames = Append(@, x.value)]
         /\ x.key = "root" => SiteOf(Append(k, x)) = [SiteOf(k) EXCEPT !.documentRoot = x.value]
<1>1. ValuesOf(Append(k, x), {"hostname", "alias"}) =
        IF x.key \in {"hostname", "alias"} THEN Append(ValuesOf(k, {"hostname", "alias"}), x.value)
        ELSE ValuesOf(k, {"hostname", "alias"})
      BY ValuesNext
<1>2. LastValue(Append(k, x), "root") = IF x.key = "root" THEN x.value ELSE LastValue(k, "root")
      BY LastNext
<1>3. CASE x.key = "handler"
  <2>1. SiteOf(k).handlers = HandlersOf(k)
        BY DEF SiteOf
  <2>2. SiteOf(Append(k, x)) = [SiteOf(k) EXCEPT !.handlers = HandlersOf(Append(k, x))]
        BY <1>1, <1>2, <1>3 DEF SiteOf
  <2>3. HandlersOf(Append(k, x)) = Append(HandlersOf(k), HandlerOf(x.value, x.body))
        BY <1>3, HandlersNext
  <2> QED BY <1>3, <2>1, <2>2, <2>3 DEF PutHandler
<1>4. CASE x.key \in {"hostname", "alias"}
  <2>1. HandlersOf(Append(k, x)) = HandlersOf(k)
        BY <1>4, HandlersNext
  <2>2. SiteOf(k).hostnames = ValuesOf(k, {"hostname", "alias"})
        BY DEF SiteOf
  <2>3. SiteOf(Append(k, x)) = [SiteOf(k) EXCEPT !.hostnames = ValuesOf(Append(k, x), {"hostname", "alias"})]
        BY <1>2, <1>4, <2>1 DEF SiteOf
  <2> QED BY <1>1, <1>4, <2>2, <2>3
<1>5. CASE x.key = "root"
      BY <1>1, <1>2, <1>5, HandlersNext DEF SiteOf
<1>6. x.key \in {"handler", "hostname", "alias", "root"}
      BY SiteEntryIs
<1> QED BY <1>3, <1>4, <1>5, <1>6

LEMMA TypedSiteNext ==
  ASSUME NEW k \in Seq(SiteEntries), NEW x \in SiteEntries
  PROVE  TypedSite(Append(k, x)) <=> TypedSite(k) /\ (x.key = "handler" => TypedBody(x.body))
<1>1. For(Append(k, x), "handler") = For(k, "handler") \cup (IF x.key = "handler" THEN {x} ELSE {})
      BY ForNext
<1> QED BY <1>1 DEF TypedSite

InSiteAt(c, b, s) == At("SITE_CONTENT", PutBind(c, PutSite(b, s)))

LEMMA LeadsSiteEntry ==
  ASSUME NEW c \in ConfigSet, NEW b \in BindConfigs,
         NEW k \in Seq(SiteEntries), NEW x \in SiteEntries, TypedSite(k)
  PROVE  /\ InSiteText(x) \in Seq(Tokens)
         /\ LeadsTo(InSiteAt(c, b, SiteOf(k)), InSiteText(x),
                    IF TypedSite(Append(k, x)) THEN InSiteAt(c, b, SiteOf(Append(k, x))) ELSE Failure)
<1> DEFINE h == SiteOf(k)
           g == SiteOf(Append(k, x))
           C == PutBind(c, PutSite(b, h))
           q == InSiteAt(c, b, g)
<1>1. h \in SiteConfigs /\ g \in SiteConfigs
  <2>1. Append(k, x) \in Seq(SiteEntries)
        OBVIOUS
  <2> QED BY <2>1, SiteOfType
<1>2. LastSite(C) = h /\ SetSite(C, g) = PutBind(c, PutSite(b, g))
  <2> HIDE DEF g, h
  <2> QED BY <1>1, SiteIsPut
<1>3. TypedSite(Append(k, x)) <=> (x.key = "handler" => TypedBody(x.body))
      BY TypedSiteNext
<1>4. x.key # "handler" => InSiteText(x) \in Seq(Tokens)
  <2>1. {"hostname", "alias", "root"} \subseteq Words
        BY DEF Words
  <2>2. SettingsText({"hostname", "alias", "root"}) \in [SiteSettings -> Seq(Tokens)]
        BY <2>1, SettingsTyped DEF SiteSettings
  <2>3. x.key # "handler" => x \in SiteSettings
        BY SiteEntryIs
  <2>4. x.key # "handler" => SettingsText({"hostname", "alias", "root"})[x] = SettingText(x)
        BY <2>3 DEF SettingsText, SiteSettings
  <2> QED BY <2>2, <2>3, <2>4 DEF InSiteText
<1>5. CASE x.key = "handler"
  <2>1. x \in HandlerBlocks /\ InSiteText(x) = FlatText(x)
        BY <1>5, SiteEntryIs DEF InSiteText
  <2>2. g = PutHandler(h, HandlerOf(x.value, x.body))
        BY <1>5, SiteOfNext
  <2> HIDE DEF g, h
  <2>3. /\ FlatText(x) \in Seq(Tokens)
        /\ LeadsTo(InSiteAt(c, b, h), FlatText(x),
             IF TypedBody(x.body)
               THEN At("SITE_CONTENT", PutBind(c, PutSite(b, PutHandler(h, HandlerOf(x.value, x.body)))))
               ELSE Failure)
        BY <1>1, <2>1, LeadsHandler DEF InSiteAt
  <2>4. LeadsTo(InSiteAt(c, b, h), InSiteText(x), IF TypedSite(Append(k, x)) THEN InSiteAt(c, b, g) ELSE Failure)
        BY <1>3, <1>5, <2>1, <2>2, <2>3 DEF InSiteAt
  <2> QED BY <2>1, <2>3, <2>4 DEF g, h
<1>6. CASE x.key \in {"hostname", "alias"}
  <2>1. g = [h EXCEPT !.hostnames = Append(@, x.value)]
        BY <1>6, SiteOfNext
  <2>2. AfterValue("SITE_HOST_VALUE", C, x.value) = q
    <3> HIDE DEF C, g, h
    <3>1. AfterValue("SITE_HOST_VALUE", C, x.value) =
            At("SITE_CONTENT", SetSite(C, [LastSite(C) EXCEPT !.hostnames = Append(@, x.value)]))
          BY DEF AfterValue
    <3>2. SetSite(C, [LastSite(C) EXCEPT !.hostnames = Append(@, x.value)]) = SetSite(C, g)
          BY <1>2, <2>1
    <3> QED BY <1>2, <3>1, <3>2 DEF InSiteAt
  <2>3. KeywordTo("SITE_CONTENT", x.key, "SITE_HOST_EQUALS") /\ KeywordTo("SITE_HOST_EQUALS", "=", "SITE_HOST_VALUE")
        BY <1>6 DEF KeywordTo
  <2>4. TakesValue("SITE_HOST_VALUE")
        BY DEF TakesValue, ValueTo
  <2> HIDE DEF q, C
  <2>5. LeadsTo(At("SITE_CONTENT", C), SettingText(x), q)
        BY <2>2, <2>3, <2>4, LeadsSetting
  <2>6. InSiteText(x) = SettingText(x) /\ TypedSite(Append(k, x))
        BY <1>3, <1>6 DEF InSiteText
  <2> QED BY <1>4, <1>6, <2>5, <2>6 DEF q, C, InSiteAt
<1>7. CASE x.key = "root"
  <2>1. g = [h EXCEPT !.documentRoot = x.value]
        BY <1>7, SiteOfNext
  <2>2. AfterValue("SITE_ROOT_VALUE", C, x.value) = q
    <3> HIDE DEF C, g, h
    <3>1. AfterValue("SITE_ROOT_VALUE", C, x.value) =
            At("SITE_CONTENT", SetSite(C, [LastSite(C) EXCEPT !.documentRoot = x.value]))
          BY DEF AfterValue
    <3> QED BY <1>2, <2>1, <3>1 DEF InSiteAt
  <2>3. KeywordTo("SITE_CONTENT", x.key, "SITE_ROOT_EQUALS") /\ KeywordTo("SITE_ROOT_EQUALS", "=", "SITE_ROOT_VALUE")
        BY <1>7 DEF KeywordTo
  <2>4. TakesValue("SITE_ROOT_VALUE")
        BY DEF TakesValue, ValueTo
  <2> HIDE DEF q, C
  <2>5. LeadsTo(At("SITE_CONTENT", C), SettingText(x), q)
        BY <2>2, <2>3, <2>4, LeadsSetting
  <2>6. InSiteText(x) = SettingText(x) /\ TypedSite(Append(k, x))
        BY <1>3, <1>7 DEF InSiteText
  <2> QED BY <1>4, <1>7, <2>5, <2>6 DEF q, C, InSiteAt
<1>8. x.key \in {"handler", "hostname", "alias", "root"}
      BY SiteEntryIs
<1> QED BY <1>5, <1>6, <1>7, <1>8

LEMMA LeadsSite ==
  ASSUME NEW c \in ConfigSet, NEW b \in BindConfigs, NEW e \in SiteBlocks
  PROVE  /\ SiteText(e) \in Seq(Tokens)
         /\ LeadsTo(At("BIND_CONTENT", PutBind(c, b)), SiteText(e),
                    IF TypedSite(e.body) THEN At("BIND_CONTENT", PutBind(c, PutSite(b, SiteOf(e.body)))) ELSE Failure)
<1> DEFINE C(x) == PutBind(c, PutSite(b, x))
           D(k) == SiteOf(k)
           f == [x \in SiteEntries |-> InSiteText(x)]
           inner == TextOf(f, e.body)
           R == [k \in Seq(SiteEntries) |-> IF TypedSite(k) THEN InSiteAt(c, b, D(k)) ELSE Failure]
           q == IF TypedSite(e.body) THEN At("BIND_CONTENT", C(D(e.body))) ELSE Failure
<1>1. e.key = "site" /\ e.value = <<>> /\ e.body \in Seq(SiteEntries)
      BY DEF SiteBlocks, SiteEntries, SiteSettings
<1>2. <<>> \in Seq(SiteEntries) /\ TypedSite(<<>>)
      BY ForNone DEF TypedSite
<1>3. f \in [SiteEntries -> Seq(Tokens)]
  <2>1. ASSUME NEW x \in SiteEntries PROVE InSiteText(x) \in Seq(Tokens)
        BY <1>2, LeadsSiteEntry
  <2> QED BY <2>1
<1>4. SiteText(e) = BlockText(e, inner)
  <2>1. [n \in DOMAIN e.body |-> InSiteText(e.body[n])] = [n \in DOMAIN e.body |-> f[e.body[n]]]
        BY <1>1
  <2> HIDE DEF f
  <2> QED BY <2>1 DEF SiteText, TextOf
<1>5. FreshSite = D(<<>>)
      BY LastNone, ValuesNone, HandlersNone DEF FreshSite, SiteOf
<1>6. LeadsTo(At("BIND_CONTENT", PutBind(c, b)), <<<<e.key>>>>, At("SITE_BRACKETS_OPEN", C(D(<<>>))))
  <2> DEFINE A == PutBind(c, b)
  <2>1. LastBind(A) = b /\ SetBind(A, PutSite(b, D(<<>>))) = C(D(<<>>))
    <3>1. D(<<>>) \in SiteConfigs
          BY <1>2, SiteOfType
    <3> HIDE DEF D
    <3>2. PutSite(b, D(<<>>)) \in BindConfigs
          BY <3>1, SiteIsPut
    <3> QED BY <3>2, BindIsPut
  <2> HIDE DEF A, D
  <2>2. SetBind(A, [LastBind(A) EXCEPT !.sites = Append(@, FreshSite)]) = C(D(<<>>))
        BY <1>5, <2>1 DEF PutSite
  <2>3. Step(At("BIND_CONTENT", A), <<"site">>) =
          IF Fits(<<"site">>) THEN At("SITE_BRACKETS_OPEN", C(D(<<>>))) ELSE Failure
        BY <2>2, StepStart
  <2> HIDE DEF C
  <2>4. LeadsTo(At("BIND_CONTENT", A), <<<<"site">>>>, At("SITE_BRACKETS_OPEN", C(D(<<>>))))
        BY <2>3, LeadsToOne
  <2> QED BY <1>1, <2>4 DEF A
<1>7. LeadsTo(At("SITE_BRACKETS_OPEN", C(D(<<>>))), <<<<Opening>>>>, R[<<>>])
  <2>1. KeywordTo("SITE_BRACKETS_OPEN", Opening, "SITE_CONTENT")
        BY DEF KeywordTo
  <2>2. R[<<>>] = At("SITE_CONTENT", C(D(<<>>)))
        BY <1>2 DEF InSiteAt
  <2> HIDE DEF R, C, D
  <2> QED BY <2>1, <2>2, LeadsToWord
<1>8. inner \in Seq(Tokens) /\ LeadsTo(R[<<>>], inner, R[e.body])
  <2>1. ASSUME NEW k \in Seq(SiteEntries), NEW x \in SiteEntries
        PROVE  LeadsTo(R[k], f[x], R[Append(k, x)])
    <3>1. f[x] = InSiteText(x) /\ f[x] \in Seq(Tokens) /\ Append(k, x) \in Seq(SiteEntries)
          BY <1>3
    <3>2. CASE TypedSite(k)
      <4>1. R[k] = InSiteAt(c, b, D(k))
            BY <3>2
      <4>2. R[Append(k, x)] =
              IF TypedSite(Append(k, x)) THEN InSiteAt(c, b, D(Append(k, x))) ELSE Failure
            BY <3>1
      <4>3. LeadsTo(InSiteAt(c, b, D(k)), InSiteText(x),
                    IF TypedSite(Append(k, x)) THEN InSiteAt(c, b, D(Append(k, x))) ELSE Failure)
            BY <3>2, LeadsSiteEntry
      <4> HIDE DEF R, D, f
      <4> QED BY <3>1, <4>1, <4>2, <4>3
    <3>3. CASE ~TypedSite(k)
      <4>1. ~TypedSite(Append(k, x))
            BY <3>3, TypedSiteNext
      <4>2. R[k] = Failure /\ R[Append(k, x)] = Failure
            BY <3>1, <3>3, <4>1
      <4> HIDE DEF R
      <4> QED BY <3>1, <4>2, LeadsToFailure
    <3> QED BY <3>2, <3>3
  <2> HIDE DEF R, f
  <2>2. \A k \in Seq(SiteEntries) : TextOf(f, k) \in Seq(Tokens) /\ LeadsTo(R[<<>>], TextOf(f, k), R[k])
        BY <1>3, <2>1, LeadsBody
  <2> QED BY <1>1, <2>2
<1>9. LeadsTo(R[e.body], <<<<Closing>>>>, q)
  <2>1. KeywordTo("SITE_CONTENT", Closing, "BIND_CONTENT")
        BY DEF KeywordTo
  <2>2. R[e.body] = IF TypedSite(e.body) THEN At("SITE_CONTENT", C(D(e.body))) ELSE Failure
        BY <1>1 DEF InSiteAt
  <2>3. <<<<Closing>>>> \in Seq(Tokens)
        BY BracesAreTokens
  <2> HIDE DEF R, C, D
  <2>4. LeadsTo(At("SITE_CONTENT", C(D(e.body))), <<<<Closing>>>>, At("BIND_CONTENT", C(D(e.body))))
        BY <2>1, LeadsToWord
  <2>5. LeadsTo(Failure, <<<<Closing>>>>, Failure)
        BY <2>3, LeadsToFailure
  <2> QED BY <2>2, <2>4, <2>5
<1>10. <<e.key>> \in Tokens
      BY <1>1 DEF Tokens, Words
<1> HIDE DEF C, D, f, inner, R, q
<1>11. /\ BlockText(e, inner) \in Seq(Tokens)
       /\ LeadsTo(At("BIND_CONTENT", PutBind(c, b)), BlockText(e, inner), q)
      BY <1>1, <1>6, <1>7, <1>8, <1>9, <1>10, BracesAreTokens, LeadsBlock
<1> QED BY <1>4, <1>11 DEF q, C, D

-----------------------------------------------------------------------------
(* A bind.                                                                 *)

BindEntries == SiteBlocks \cup SslBlocks
SitesOf(k) == [n \in DOMAIN With(k, {"site"}) |-> SiteOf(With(k, {"site"})[n].body)]
SslOf(k) == IF For(k, "ssl") = {} THEN NULL ELSE DeclaredSsl(Last(With(k, {"ssl"})).body)
BindOf(v, k) == [addr |-> Address(v), port |-> Port(v), ssl |-> SslOf(k), sites |-> SitesOf(k)]
TypedBind(k) == Len(With(k, {"ssl"})) <= 1 /\ \A s \in For(k, "site") : TypedSite(s.body)

LEMMA BindEntryIs ==
  ASSUME NEW x \in BindEntries
  PROVE  /\ x.key = "site" => x \in SiteBlocks /\ x.body \in Seq(SiteEntries)
         /\ x.key # "site" => x \in SslBlocks /\ x.body \in Seq(SslSettings)
         /\ x.key \in {"site", "ssl"}
BY DEF BindEntries, SiteBlocks, SslBlocks, SiteEntries, SiteSettings, SslSettings

LEMMA SitesNone == SitesOf(<<>>) = <<>>
BY WithNone DEF SitesOf

LEMMA SitesNext ==
  ASSUME NEW k \in Seq(BindEntries), NEW x \in BindEntries
  PROVE  SitesOf(Append(k, x)) = IF x.key = "site" THEN Append(SitesOf(k), SiteOf(x.body)) ELSE SitesOf(k)
<1> DEFINE f == [s \in BindEntries |-> SiteOf(s.body)]
           w == With(k, {"site"})
<1>1. w \in Seq(BindEntries)
      BY WithType
<1>2. \A v \in Seq(BindEntries) : [n \in DOMAIN v |-> SiteOf(v[n].body)] = [n \in DOMAIN v |-> f[v[n]]]
      OBVIOUS
<1>3. CASE x.key = "site"
  <2>1. With(Append(k, x), {"site"}) = Append(w, x)
        BY <1>3, WithNext
  <2>2. f[x] = SiteOf(x.body)
        OBVIOUS
  <2> HIDE DEF f, w
  <2>3. [n \in DOMAIN Append(w, x) |-> f[Append(w, x)[n]]] = Append([n \in DOMAIN w |-> f[w[n]]], f[x])
        BY <1>1, MappedNext
  <2>4. Append(w, x) \in Seq(BindEntries)
        BY <1>1
  <2>5. SitesOf(Append(k, x)) = [n \in DOMAIN Append(w, x) |-> f[Append(w, x)[n]]]
        BY <1>2, <2>1, <2>4 DEF SitesOf
  <2>6. SitesOf(k) = [n \in DOMAIN w |-> f[w[n]]]
        BY <1>1, <1>2 DEF SitesOf, w
  <2> QED BY <1>3, <2>2, <2>3, <2>5, <2>6
<1>4. CASE x.key # "site"
  <2>1. With(Append(k, x), {"site"}) = w
        BY <1>4, WithNext
  <2> QED BY <1>4, <2>1 DEF SitesOf
<1> QED BY <1>3, <1>4

LEMMA SitesType ==
  ASSUME NEW s \in Seq(BindEntries) PROVE SitesOf(s) \in Seq(SiteConfigs)
<1> DEFINE T == {k \in Seq(BindEntries) : SitesOf(k) \in Seq(SiteConfigs)}
<1>1. <<>> \in T
  <2>1. <<>> \in Seq(SiteConfigs) /\ <<>> \in Seq(BindEntries)
        OBVIOUS
  <2> QED BY <2>1, SitesNone, Zenon
<1>2. ASSUME NEW k \in Seq(BindEntries), k \in T, NEW x \in BindEntries PROVE Append(k, x) \in T
  <2>1. SitesOf(k) \in Seq(SiteConfigs) /\ Append(k, x) \in Seq(BindEntries)
        BY <1>2
  <2>2. x.key = "site" => SiteOf(x.body) \in SiteConfigs
        BY BindEntryIs, SiteOfType
  <2>3. x.key = "site" => Append(SitesOf(k), SiteOf(x.body)) \in Seq(SiteConfigs)
        BY <2>1, <2>2
  <2>4. SitesOf(Append(k, x)) \in Seq(SiteConfigs)
        BY <2>1, <2>3, SitesNext
  <2> QED BY <2>1, <2>4, Zenon
<1> HIDE DEF T
<1>3. s \in T
      BY <1>1, <1>2, InductSequence
<1> QED BY <1>3 DEF T

\* There is none of a key exactly if nothing has it.
LEMMA WithEmpty ==
  ASSUME NEW B, NEW s \in Seq(B), NEW key
  PROVE  Len(With(s, {key})) \in Nat /\ (Len(With(s, {key})) = 0 <=> For(s, key) = {})
<1> DEFINE w == With(s, {key})
<1>1. w \in Seq(B) /\ ToSet(w) = For(s, key)
      BY WithType, WithIsFor
<1> HIDE DEF w
<1>2. Len(w) \in Nat /\ DOMAIN w = 1..Len(w)
      BY <1>1
<1>3. ToSet(w) = {} <=> DOMAIN w = {}
      BY DEF ToSet
<1>4. 1..Len(w) = {} <=> Len(w) = 0
      BY <1>2
<1> QED BY <1>1, <1>2, <1>3, <1>4 DEF w

LEMMA SslOfType ==
  ASSUME NEW k \in Seq(BindEntries)
  PROVE  /\ SslOf(k) \in SslConfigs \cup {NULL}
         /\ SslOf(k) = NULL <=> For(k, "ssl") = {}
<1>1. CASE For(k, "ssl") = {}
      BY <1>1 DEF SslOf
<1>2. CASE For(k, "ssl") # {}
  <2>1. Last(With(k, {"ssl"})) \in For(k, "ssl")
        BY <1>2, LastIs
  <2>2. Last(With(k, {"ssl"})) \in BindEntries /\ Last(With(k, {"ssl"})).key = "ssl"
        BY <2>1 DEF For, ToSet
  <2>3. Last(With(k, {"ssl"})).body \in Seq(SslSettings)
        BY <2>2, BindEntryIs
  <2>4. DeclaredSsl(Last(With(k, {"ssl"})).body) \in SslConfigs
        BY <2>3, SslType
  <2>5. NULL \notin SslConfigs
        BY ConfigAssumption
  <2> QED BY <1>2, <2>4, <2>5 DEF SslOf
<1> QED BY <1>1, <1>2

LEMMA SslOfNext ==
  ASSUME NEW k \in Seq(BindEntries), NEW x \in BindEntries
  PROVE  SslOf(Append(k, x)) = IF x.key = "ssl" THEN DeclaredSsl(x.body) ELSE SslOf(k)
<1>1. For(Append(k, x), "ssl") = For(k, "ssl") \cup (IF x.key = "ssl" THEN {x} ELSE {})
      BY ForNext
<1>2. CASE x.key = "ssl"
  <2>1. With(Append(k, x), {"ssl"}) = Append(With(k, {"ssl"}), x)
        BY <1>2, WithNext
  <2>2. With(k, {"ssl"}) \in Seq(BindEntries)
        BY WithType
  <2>3. Last(Append(With(k, {"ssl"}), x)) = x
        BY <2>2, LastIsPut
  <2> QED BY <1>1, <1>2, <2>1, <2>3 DEF SslOf
<1>3. CASE x.key # "ssl"
  <2>1. With(Append(k, x), {"ssl"}) = With(k, {"ssl"})
        BY <1>3, WithNext
  <2> QED BY <1>1, <1>3, <2>1 DEF SslOf
<1> QED BY <1>2, <1>3

LEMMA AddressType ==
  ASSUME NEW v \in Values PROVE Address(v) \in Addresses /\ Port(v) \in Addresses
<1>1. v \in Seq(Symbols) /\ Len(v) \in Nat
      BY DEF Values
<1>2. Colon(v) \in 0..Len(v)
  <2> DEFINE I == {i \in 1..Len(v) : v[i] = ":"}
  <2>1. Colon(v) = IF I # {} THEN Min(I) ELSE 0
        BY DEF Colon, SelectInSeq
  <2>2. I \subseteq 1..Len(v) /\ I \subseteq Nat
        OBVIOUS
  <2> HIDE DEF I
  <2>3. ASSUME I # {} PROVE Min(I) \in I
    <3>1. PICK x \in I : \A y \in I : x <= y
          BY <2>2, <2>3, Minimum
    <3>2. Min(I) = x
          BY <2>2, <3>1, MinIs
    <3> QED BY <3>1, <3>2
  <2>4. CASE I # {}
    <3>1. Colon(v) \in 1..Len(v)
          BY <2>1, <2>2, <2>3, <2>4
    <3> QED BY <1>1, <3>1
  <2>5. CASE I = {}
    <3>1. Colon(v) = 0
          BY <2>1, <2>5
    <3> QED BY <1>1, <3>1
  <2> QED BY <2>4, <2>5
<1>3. SubSeq(v, 1, Colon(v) - 1) \in Seq(Symbols)
      BY <1>1, <1>2
<1>4. SubSeq(v, Colon(v) + 1, Len(v)) \in Seq(Symbols)
      BY <1>1, <1>2
<1>5. Port(v) \in Addresses
      BY <1>4 DEF Port, Addresses
<1>6. Address(v) \in Addresses
      BY <1>3 DEF Address, Addresses
<1> QED BY <1>5, <1>6

LEMMA BindOfType ==
  ASSUME NEW v \in Values, NEW k \in Seq(BindEntries) PROVE BindOf(v, k) \in BindConfigs
BY AddressType, SslOfType, SitesType DEF BindOf, BindConfigs

LEMMA BindOfNext ==
  ASSUME NEW v, NEW k \in Seq(BindEntries), NEW x \in BindEntries
  PROVE  /\ x.key = "site" => BindOf(v, Append(k, x)) = PutSite(BindOf(v, k), SiteOf(x.body))
         /\ x.key = "ssl" => BindOf(v, Append(k, x)) = WithSsl(BindOf(v, k), DeclaredSsl(x.body))
<1>1. CASE x.key = "site"
  <2>1. BindOf(v, k).sites = SitesOf(k)
        BY DEF BindOf
  <2>2. SslOf(Append(k, x)) = SslOf(k)
        BY <1>1, SslOfNext
  <2>3. SitesOf(Append(k, x)) = Append(SitesOf(k), SiteOf(x.body))
        BY <1>1, SitesNext
  <2>4. BindOf(v, Append(k, x)) = [BindOf(v, k) EXCEPT !.sites = SitesOf(Append(k, x))]
        BY <2>2 DEF BindOf
  <2> QED BY <1>1, <2>1, <2>3, <2>4 DEF PutSite
<1>2. CASE x.key = "ssl"
  <2>1. SslOf(Append(k, x)) = DeclaredSsl(x.body) /\ SitesOf(Append(k, x)) = SitesOf(k)
        BY <1>2, SslOfNext, SitesNext
  <2> QED BY <1>2, <2>1 DEF BindOf, WithSsl
<1> QED BY <1>1, <1>2

LEMMA TypedBindNext ==
  ASSUME NEW k \in Seq(BindEntries), NEW x \in BindEntries
  PROVE  TypedBind(Append(k, x)) <=>
           /\ TypedBind(k) /\ (x.key = "site" => TypedSite(x.body))
           /\ x.key = "ssl" => SslOf(k) = NULL
<1>1. For(Append(k, x), "site") = For(k, "site") \cup (IF x.key = "site" THEN {x} ELSE {})
      BY ForNext
<1>2. With(k, {"ssl"}) \in Seq(BindEntries)
      BY WithType
<1>3. With(Append(k, x), {"ssl"}) = IF x.key = "ssl" THEN Append(With(k, {"ssl"}), x) ELSE With(k, {"ssl"})
  <2>1. With(Append(k, x), {"ssl"}) =
          IF x.key \in {"ssl"} THEN Append(With(k, {"ssl"}), x) ELSE With(k, {"ssl"})
        BY WithNext
  <2> QED BY <2>1
<1>4. Len(With(k, {"ssl"})) \in Nat /\ (Len(With(k, {"ssl"})) = 0 <=> SslOf(k) = NULL)
      BY WithEmpty, SslOfType
<1>5. Len(Append(With(k, {"ssl"}), x)) = Len(With(k, {"ssl"})) + 1
      BY <1>2
<1>6. Len(With(Append(k, x), {"ssl"})) <= 1 <=>
        Len(With(k, {"ssl"})) <= 1 /\ (x.key = "ssl" => SslOf(k) = NULL)
      BY <1>3, <1>4, <1>5
<1>7. (\A s \in For(Append(k, x), "site") : TypedSite(s.body)) <=>
        (\A s \in For(k, "site") : TypedSite(s.body)) /\ (x.key = "site" => TypedSite(x.body))
      BY <1>1
<1> QED BY <1>6, <1>7 DEF TypedBind

InBindAt(c, b) == At("BIND_CONTENT", PutBind(c, b))

LEMMA LeadsBindEntry ==
  ASSUME NEW c \in ConfigSet, NEW v \in Values,
         NEW k \in Seq(BindEntries), NEW x \in BindEntries, TypedBind(k)
  PROVE  /\ InBindText(x) \in Seq(Tokens)
         /\ LeadsTo(InBindAt(c, BindOf(v, k)), InBindText(x),
                    IF TypedBind(Append(k, x)) THEN InBindAt(c, BindOf(v, Append(k, x))) ELSE Failure)
<1> DEFINE h == BindOf(v, k)
           g == BindOf(v, Append(k, x))
<1>1. h \in BindConfigs
      BY BindOfType
<1>2. TypedBind(Append(k, x)) <=>
        (x.key = "site" => TypedSite(x.body)) /\ (x.key = "ssl" => SslOf(k) = NULL)
      BY TypedBindNext
<1>3. h.ssl = SslOf(k)
      BY DEF BindOf
<1>4. CASE x.key = "site"
  <2>1. x \in SiteBlocks /\ InBindText(x) = SiteText(x)
        BY <1>4, BindEntryIs DEF InBindText
  <2>2. g = PutSite(h, SiteOf(x.body))
        BY <1>4, BindOfNext
  <2> HIDE DEF g, h
  <2>3. /\ SiteText(x) \in Seq(Tokens)
        /\ LeadsTo(InBindAt(c, h), SiteText(x),
             IF TypedSite(x.body) THEN At("BIND_CONTENT", PutBind(c, PutSite(h, SiteOf(x.body)))) ELSE Failure)
        BY <1>1, <2>1, LeadsSite DEF InBindAt
  <2>4. LeadsTo(InBindAt(c, h), InBindText(x), IF TypedBind(Append(k, x)) THEN InBindAt(c, g) ELSE Failure)
        BY <1>2, <1>4, <2>1, <2>2, <2>3 DEF InBindAt
  <2> QED BY <2>1, <2>3, <2>4 DEF g, h
<1>5. CASE x.key = "ssl"
  <2>1. x \in SslBlocks /\ InBindText(x) = FlatText(x)
        BY <1>5, BindEntryIs DEF InBindText
  <2>2. g = WithSsl(h, DeclaredSsl(x.body))
        BY <1>5, BindOfNext
  <2> HIDE DEF g, h
  <2>3. /\ FlatText(x) \in Seq(Tokens)
        /\ LeadsTo(InBindAt(c, h), FlatText(x),
             IF h.ssl = NULL THEN At("BIND_CONTENT", PutBind(c, WithSsl(h, DeclaredSsl(x.body)))) ELSE Failure)
        BY <1>1, <2>1, LeadsSsl DEF InBindAt
  <2>4. LeadsTo(InBindAt(c, h), InBindText(x), IF TypedBind(Append(k, x)) THEN InBindAt(c, g) ELSE Failure)
        BY <1>2, <1>3, <1>5, <2>1, <2>2, <2>3 DEF InBindAt
  <2> QED BY <2>1, <2>3, <2>4 DEF g, h
<1>6. x.key \in {"site", "ssl"}
      BY BindEntryIs
<1> QED BY <1>4, <1>5, <1>6

GoodBind(e) == Contains(e.value, ":") /\ TypedBind(e.body)

LEMMA LeadsBind ==
  ASSUME NEW c \in ConfigSet, NEW e \in BindBlocks
  PROVE  /\ EntryText(e) \in Seq(Tokens)
         /\ LeadsTo(At("ROOT", c), EntryText(e),
                    IF GoodBind(e) THEN At("ROOT", PutBind(c, BindOf(e.value, e.body))) ELSE Failure)
<1> DEFINE C(x) == PutBind(c, x)
           D(k) == BindOf(e.value, k)
           f == [x \in BindEntries |-> InBindText(x)]
           inner == TextOf(f, e.body)
           named == Contains(e.value, ":")
           R == [k \in Seq(BindEntries) |-> IF named /\ TypedBind(k) THEN InBindAt(c, D(k)) ELSE Failure]
           m == IF named THEN At("BIND_BRACKETS_OPEN", C(D(<<>>))) ELSE Failure
           q == IF GoodBind(e) THEN At("ROOT", C(D(e.body))) ELSE Failure
<1>1. e.key = "bind" /\ e.value \in Values /\ e.body \in Seq(BindEntries)
      BY DEF BindBlocks, BindEntries
<1>2. <<>> \in Seq(BindEntries) /\ TypedBind(<<>>)
  <2>1. Len(With(<<>>, {"ssl"})) <= 1
        BY WithNone
  <2> QED BY <2>1, ForNone DEF TypedBind
<1>3. f \in [BindEntries -> Seq(Tokens)]
  <2>1. ASSUME NEW x \in BindEntries PROVE InBindText(x) \in Seq(Tokens)
        BY <1>1, <1>2, LeadsBindEntry
  <2> QED BY <2>1
<1>4. EntryText(e) = BlockText(e, inner)
  <2>1. [n \in DOMAIN e.body |-> InBindText(e.body[n])] = [n \in DOMAIN e.body |-> f[e.body[n]]]
        BY <1>1
  <2> HIDE DEF f
  <2> QED BY <1>1, <2>1 DEF EntryText, BindText, TextOf
<1>5. /\ FreshBind \in BindConfigs /\ D(<<>>) \in BindConfigs
      /\ D(<<>>) = [FreshBind EXCEPT !.addr = Address(e.value), !.port = Port(e.value)]
  <2>1. FreshBind \in BindConfigs
    <3>1. <<>> \in Seq(SiteConfigs)
          OBVIOUS
    <3>2. NULL \in Addresses
          BY DEF Addresses
    <3> QED BY <3>1, <3>2 DEF FreshBind, BindConfigs
  <2>2. D(<<>>) \in BindConfigs
        BY <1>1, <1>2, BindOfType
  <2>3. SslOf(<<>>) = NULL /\ SitesOf(<<>>) = <<>>
        BY ForNone, SitesNone DEF SslOf
  <2>4. D(<<>>) = [FreshBind EXCEPT !.addr = Address(e.value), !.port = Port(e.value)]
    <3> DEFINE a == Address(e.value)
               p == Port(e.value)
    <3>1. D(<<>>) = [addr |-> a, port |-> p, ssl |-> NULL, sites |-> <<>>]
          BY <2>3 DEF BindOf
    <3> HIDE DEF a, p
    <3>2. [FreshBind EXCEPT !.addr = a, !.port = p] = [addr |-> a, port |-> p, ssl |-> NULL, sites |-> <<>>]
      <4> DEFINE r == [FreshBind EXCEPT !.addr = a]
      <4>1. r = [addr |-> a, port |-> NULL, ssl |-> NULL, sites |-> <<>>]
            BY DEF FreshBind
      <4>2. [FreshBind EXCEPT !.addr = a, !.port = p] = [r EXCEPT !.port = p]
            BY DEF FreshBind
      <4> HIDE DEF r
      <4>3. [r EXCEPT !.port = p] = [addr |-> a, port |-> p, ssl |-> NULL, sites |-> <<>>]
            BY <4>1
      <4> QED BY <4>2, <4>3
    <3> QED BY <3>1, <3>2 DEF a, p
  <2> QED BY <2>1, <2>2, <2>4
<1>6. LeadsTo(At("ROOT", c), <<<<e.key>>>>, At("BIND_VALUE", C(FreshBind)))
  <2>1. Step(At("ROOT", c), <<"bind">>) = IF Fits(<<"bind">>) THEN At("BIND_VALUE", C(FreshBind)) ELSE Failure
        BY StepStart DEF PutBind
  <2> HIDE DEF C
  <2>2. LeadsTo(At("ROOT", c), <<<<"bind">>>>, At("BIND_VALUE", C(FreshBind)))
        BY <2>1, LeadsToOne
  <2> QED BY <1>1, <2>2
<1>7. LeadsTo(At("BIND_VALUE", C(FreshBind)), <<e.value>>, m)
  <2> DEFINE A == C(FreshBind)
  <2>1. LastBind(A) = FreshBind /\ SetBind(A, D(<<>>)) = C(D(<<>>))
    <3> HIDE DEF D
    <3> QED BY <1>5, BindIsPut
  <2> HIDE DEF A, D
  <2>2. AfterValue("BIND_VALUE", A, e.value) =
          IF named THEN At("BIND_BRACKETS_OPEN",
                           SetBind(A, [LastBind(A) EXCEPT !.addr = Address(e.value), !.port = Port(e.value)]))
          ELSE Failure
        BY DEF AfterValue
  <2>3. TakesValue("BIND_VALUE")
        BY DEF TakesValue, ValueTo
  <2>4. AfterValue("BIND_VALUE", A, e.value) = m
        BY <1>5, <2>1, <2>2
  <2> HIDE DEF m
  <2>5. Step(At("BIND_VALUE", A), e.value) = IF Fits(e.value) THEN m ELSE Failure
        BY <2>3, <2>4, StepValue
  <2>6. LeadsTo(At("BIND_VALUE", A), <<e.value>>, m)
        BY <2>5, LeadsToOne
  <2> QED BY <2>6 DEF A
<1>8. \A x \in Tokens : <<x>> \in Seq(Tokens) /\ LeadsTo(Failure, <<x>>, Failure)
  <2>1. \A x \in Tokens : <<x>> \in Seq(Tokens)
        OBVIOUS
  <2> QED BY <2>1, LeadsToFailure
<1>9. LeadsTo(m, <<<<Opening>>>>, R[<<>>])
  <2>1. KeywordTo("BIND_BRACKETS_OPEN", Opening, "BIND_CONTENT")
        BY DEF KeywordTo
  <2>2. R[<<>>] = IF named THEN At("BIND_CONTENT", C(D(<<>>))) ELSE Failure
        BY <1>2 DEF InBindAt
  <2> HIDE DEF R, C, D, named
  <2>3. LeadsTo(At("BIND_BRACKETS_OPEN", C(D(<<>>))), <<<<Opening>>>>, At("BIND_CONTENT", C(D(<<>>))))
        BY <2>1, LeadsToWord
  <2> QED BY <1>8, <2>2, <2>3, BracesAreTokens
<1>10. inner \in Seq(Tokens) /\ LeadsTo(R[<<>>], inner, R[e.body])
  <2>1. ASSUME NEW k \in Seq(BindEntries), NEW x \in BindEntries
        PROVE  LeadsTo(R[k], f[x], R[Append(k, x)])
    <3>1. f[x] = InBindText(x) /\ f[x] \in Seq(Tokens) /\ Append(k, x) \in Seq(BindEntries)
          BY <1>3
    <3>2. CASE named /\ TypedBind(k)
      <4>1. R[k] = InBindAt(c, D(k))
            BY <3>2
      <4>2. R[Append(k, x)] =
              IF TypedBind(Append(k, x)) THEN InBindAt(c, D(Append(k, x))) ELSE Failure
            BY <3>1, <3>2
      <4>3. LeadsTo(InBindAt(c, D(k)), InBindText(x),
                    IF TypedBind(Append(k, x)) THEN InBindAt(c, D(Append(k, x))) ELSE Failure)
            BY <1>1, <3>2, LeadsBindEntry
      <4> HIDE DEF R, D, f
      <4> QED BY <3>1, <4>1, <4>2, <4>3
    <3>3. CASE ~(named /\ TypedBind(k))
      <4>1. ~(named /\ TypedBind(Append(k, x)))
            BY <3>3, TypedBindNext
      <4>2. R[k] = Failure /\ R[Append(k, x)] = Failure
            BY <3>1, <3>3, <4>1
      <4> HIDE DEF R
      <4> QED BY <3>1, <4>2, LeadsToFailure
    <3> QED BY <3>2, <3>3
  <2> HIDE DEF R, f
  <2>2. \A k \in Seq(BindEntries) : TextOf(f, k) \in Seq(Tokens) /\ LeadsTo(R[<<>>], TextOf(f, k), R[k])
        BY <1>3, <2>1, LeadsBody
  <2> QED BY <1>1, <2>2
<1>11. LeadsTo(R[e.body], <<<<Closing>>>>, q)
  <2>1. KeywordTo("BIND_CONTENT", Closing, "ROOT")
        BY DEF KeywordTo
  <2>2. R[e.body] = IF GoodBind(e) THEN At("BIND_CONTENT", C(D(e.body))) ELSE Failure
        BY <1>1 DEF InBindAt, GoodBind
  <2> HIDE DEF R, C, D
  <2>3. LeadsTo(At("BIND_CONTENT", C(D(e.body))), <<<<Closing>>>>, At("ROOT", C(D(e.body))))
        BY <2>1, LeadsToWord
  <2> QED BY <1>8, <2>2, <2>3, BracesAreTokens
<1>12. <<e.key>> \in Tokens /\ e.value \in Tokens /\ e.value # <<>>
      BY <1>1 DEF Tokens, Words, Values
<1> HIDE DEF C, D, f, inner, R, m, q
<1>13. BlockText(e, inner) \in Seq(Tokens) /\ LeadsTo(At("ROOT", c), BlockText(e, inner), q)
      BY <1>6, <1>7, <1>9, <1>10, <1>11, <1>12, BracesAreTokens, LeadsValueBlock
<1> QED BY <1>4, <1>13 DEF q, C, D

-----------------------------------------------------------------------------
(* The logging settings, which add up, and the whole.                      *)

LoggingSettings == Settings({"access", "server", "verbosity"})
VerbosityOf(log) == IF For(log, "verbosity") = {} THEN <<"warn">> ELSE LastValue(log, "verbosity")
ConfigFrom(binds, log) ==
  [binds |-> binds, accessLogfile |-> LastValue(log, "access"), serverLogfile |-> LastValue(log, "server"),
   serverVerbosity |-> VerbosityOf(log)]
LevelsBody(k) == \A x \in For(k, "verbosity") : x.value \in Levels

LEMMA ConfigFromType ==
  ASSUME NEW bs \in Seq(BindConfigs), NEW log \in Seq(LoggingSettings)
  PROVE  ConfigFrom(bs, log) \in ConfigSet
<1>1. \A x \in LoggingSettings : x.value \in Values
      BY DEF LoggingSettings, Settings
<1>2. LastValue(log, "access") \in Texts /\ LastValue(log, "server") \in Texts
      BY <1>1, LastType DEF Texts
<1>3. CASE For(log, "verbosity") = {}
  <2>1. <<"warn">> \in Values \cup Levels
        BY DEF Levels
  <2> QED BY <1>2, <1>3, <2>1 DEF ConfigFrom, VerbosityOf, ConfigSet
<1>4. CASE For(log, "verbosity") # {}
  <2>1. /\ Last(With(log, {"verbosity"})) \in For(log, "verbosity")
        /\ LastValue(log, "verbosity") = Last(With(log, {"verbosity"})).value
        BY <1>4, LastIs
  <2>2. Last(With(log, {"verbosity"})) \in LoggingSettings
        BY <2>1 DEF For, ToSet
  <2>3. LastValue(log, "verbosity") \in Values
        BY <1>1, <2>1, <2>2
  <2> QED BY <1>2, <1>4, <2>3 DEF ConfigFrom, VerbosityOf, ConfigSet
<1> QED BY <1>3, <1>4

InLoggingAt(bs, log) == At("LOGGING_CONTENT", ConfigFrom(bs, log))

LEMMA LeadsLoggingSetting ==
  ASSUME NEW bs, NEW log \in Seq(LoggingSettings), NEW x \in LoggingSettings
  PROVE  LeadsTo(InLoggingAt(bs, log), SettingText(x),
                 IF x.key = "verbosity" => x.value \in Levels THEN InLoggingAt(bs, Append(log, x)) ELSE Failure)
<1> DEFINE C == ConfigFrom(bs, log)
           D == ConfigFrom(bs, Append(log, x))
           q == IF x.key = "verbosity" => x.value \in Levels THEN InLoggingAt(bs, Append(log, x)) ELSE Failure
<1>1. /\ LastValue(Append(log, x), "access") = IF x.key = "access" THEN x.value ELSE LastValue(log, "access")
      /\ LastValue(Append(log, x), "server") = IF x.key = "server" THEN x.value ELSE LastValue(log, "server")
      /\ LastValue(Append(log, x), "verbosity") = IF x.key = "verbosity" THEN x.value ELSE LastValue(log, "verbosity")
      BY LastNext
<1>2. VerbosityOf(Append(log, x)) = IF x.key = "verbosity" THEN x.value ELSE VerbosityOf(log)
  <2>1. For(Append(log, x), "verbosity") = For(log, "verbosity") \cup (IF x.key = "verbosity" THEN {x} ELSE {})
        BY ForNext
  <2> QED BY <1>1, <2>1 DEF VerbosityOf
<1>3. x.key \in {"access", "server", "verbosity"}
      BY DEF LoggingSettings, Settings
<1>4. CASE x.key = "access"
  <2>1. D = [C EXCEPT !.accessLogfile = x.value]
        BY <1>1, <1>2, <1>4 DEF ConfigFrom
  <2>2. AfterValue("LOGGING_ACCESS_FILE_VALUE", C, x.value) = q
    <3> HIDE DEF C
    <3>1. AfterValue("LOGGING_ACCESS_FILE_VALUE", C, x.value) =
            At("LOGGING_CONTENT", [C EXCEPT !.accessLogfile = x.value])
          BY DEF AfterValue
    <3> QED BY <1>4, <2>1, <3>1 DEF InLoggingAt
  <2>3. /\ KeywordTo("LOGGING_CONTENT", x.key, "LOGGING_ACCESS_FILE_EQUALS")
        /\ KeywordTo("LOGGING_ACCESS_FILE_EQUALS", "=", "LOGGING_ACCESS_FILE_VALUE")
        BY <1>4 DEF KeywordTo
  <2>4. TakesValue("LOGGING_ACCESS_FILE_VALUE")
        BY DEF TakesValue, ValueTo
  <2> HIDE DEF q, C
  <2>5. LeadsTo(At("LOGGING_CONTENT", C), SettingText(x), q)
        BY <2>2, <2>3, <2>4, LeadsSetting
  <2> QED BY <2>5 DEF q, C, InLoggingAt
<1>5. CASE x.key = "server"
  <2>1. D = [C EXCEPT !.serverLogfile = x.value]
        BY <1>1, <1>2, <1>5 DEF ConfigFrom
  <2>2. AfterValue("LOGGING_SERVER_FILE_VALUE", C, x.value) = q
    <3> HIDE DEF C
    <3>1. AfterValue("LOGGING_SERVER_FILE_VALUE", C, x.value) =
            At("LOGGING_CONTENT", [C EXCEPT !.serverLogfile = x.value])
          BY DEF AfterValue
    <3> QED BY <1>5, <2>1, <3>1 DEF InLoggingAt
  <2>3. /\ KeywordTo("LOGGING_CONTENT", x.key, "LOGGING_SERVER_FILE_EQUALS")
        /\ KeywordTo("LOGGING_SERVER_FILE_EQUALS", "=", "LOGGING_SERVER_FILE_VALUE")
        BY <1>5 DEF KeywordTo
  <2>4. TakesValue("LOGGING_SERVER_FILE_VALUE")
        BY DEF TakesValue, ValueTo
  <2> HIDE DEF q, C
  <2>5. LeadsTo(At("LOGGING_CONTENT", C), SettingText(x), q)
        BY <2>2, <2>3, <2>4, LeadsSetting
  <2> QED BY <2>5 DEF q, C, InLoggingAt
<1>6. CASE x.key = "verbosity"
  <2>1. D = [C EXCEPT !.serverVerbosity = x.value]
        BY <1>1, <1>2, <1>6 DEF ConfigFrom
  <2>2. AfterValue("LOGGING_SERVER_VERBOSITY_VALUE", C, x.value) = q
    <3> HIDE DEF C
    <3>1. AfterValue("LOGGING_SERVER_VERBOSITY_VALUE", C, x.value) =
            IF x.value \in Levels THEN At("LOGGING_CONTENT", [C EXCEPT !.serverVerbosity = x.value]) ELSE Failure
          BY DEF AfterValue
    <3> QED BY <1>6, <2>1, <3>1 DEF InLoggingAt
  <2>3. /\ KeywordTo("LOGGING_CONTENT", x.key, "LOGGING_SERVER_VERBOSITY_EQUALS")
        /\ KeywordTo("LOGGING_SERVER_VERBOSITY_EQUALS", "=", "LOGGING_SERVER_VERBOSITY_VALUE")
        BY <1>6 DEF KeywordTo
  <2>4. TakesValue("LOGGING_SERVER_VERBOSITY_VALUE")
        BY DEF TakesValue, ValueTo
  <2> HIDE DEF q, C
  <2>5. LeadsTo(At("LOGGING_CONTENT", C), SettingText(x), q)
        BY <2>2, <2>3, <2>4, LeadsSetting
  <2> QED BY <2>5 DEF q, C, InLoggingAt
<1> QED BY <1>3, <1>4, <1>5, <1>6

LEMMA LevelsBodyNext ==
  ASSUME NEW k \in Seq(LoggingSettings), NEW x \in LoggingSettings
  PROVE  LevelsBody(Append(k, x)) <=> LevelsBody(k) /\ (x.key = "verbosity" => x.value \in Levels)
<1>1. For(Append(k, x), "verbosity") = For(k, "verbosity") \cup (IF x.key = "verbosity" THEN {x} ELSE {})
      BY ForNext
<1> QED BY <1>1 DEF LevelsBody

LEMMA LeadsLogging ==
  ASSUME NEW bs, NEW log \in Seq(LoggingSettings), NEW e \in LoggingBlocks
  PROVE  /\ EntryText(e) \in Seq(Tokens)
         /\ LeadsTo(At("ROOT", ConfigFrom(bs, log)), EntryText(e),
                    IF LevelsBody(e.body) THEN At("ROOT", ConfigFrom(bs, log \o e.body)) ELSE Failure)
<1> DEFINE D(k) == ConfigFrom(bs, log \o k)
           f == SettingsText({"access", "server", "verbosity"})
           inner == TextOf(f, e.body)
           R == [k \in Seq(LoggingSettings) |-> IF LevelsBody(k) THEN InLoggingAt(bs, log \o k) ELSE Failure]
           q == IF LevelsBody(e.body) THEN At("ROOT", D(e.body)) ELSE Failure
<1>1. e.key = "logging" /\ e.value = <<>> /\ e.body \in Seq(LoggingSettings)
      BY DEF LoggingBlocks, LoggingSettings
<1>2. {"access", "server", "verbosity"} \subseteq Words
      BY DEF Words
<1>3. f \in [LoggingSettings -> Seq(Tokens)] /\ EntryText(e) = BlockText(e, inner)
      BY <1>1, <1>2, SettingsTyped DEF LoggingSettings, EntryText
<1>4. <<>> \in Seq(LoggingSettings) /\ LevelsBody(<<>>) /\ log \o <<>> = log
  <2>1. <<>> \in Seq(LoggingSettings) /\ log \o <<>> = log
        OBVIOUS
  <2>2. LevelsBody(<<>>)
        BY ForNone DEF LevelsBody
  <2> QED BY <2>1, <2>2, Zenon
<1>5. LeadsTo(At("ROOT", ConfigFrom(bs, log)), <<<<e.key>>>>, At("LOGGING_BRACKETS_OPEN", ConfigFrom(bs, log)))
  <2>1. KeywordTo("ROOT", "logging", "LOGGING_BRACKETS_OPEN")
        BY DEF KeywordTo
  <2>2. LeadsTo(At("ROOT", ConfigFrom(bs, log)), <<<<"logging">>>>, At("LOGGING_BRACKETS_OPEN", ConfigFrom(bs, log)))
        BY <2>1, LeadsToWord
  <2> QED BY <1>1, <2>2
<1>6. LeadsTo(At("LOGGING_BRACKETS_OPEN", ConfigFrom(bs, log)), <<<<Opening>>>>, R[<<>>])
  <2>1. KeywordTo("LOGGING_BRACKETS_OPEN", Opening, "LOGGING_CONTENT")
        BY DEF KeywordTo
  <2>2. R[<<>>] = At("LOGGING_CONTENT", ConfigFrom(bs, log))
        BY <1>4 DEF InLoggingAt
  <2> HIDE DEF R
  <2> QED BY <2>1, <2>2, LeadsToWord
<1>7. inner \in Seq(Tokens) /\ LeadsTo(R[<<>>], inner, R[e.body])
  <2>1. ASSUME NEW k \in Seq(LoggingSettings), NEW x \in LoggingSettings
        PROVE  LeadsTo(R[k], f[x], R[Append(k, x)])
    <3>1. f[x] = SettingText(x) /\ f[x] \in Seq(Tokens) /\ Append(k, x) \in Seq(LoggingSettings)
          BY <1>3 DEF SettingsText, LoggingSettings
    <3>2. log \o k \in Seq(LoggingSettings) /\ log \o Append(k, x) = Append(log \o k, x)
          OBVIOUS
    <3>3. CASE LevelsBody(k)
      <4>1. R[k] = InLoggingAt(bs, log \o k)
            BY <3>3
      <4>2. R[Append(k, x)] =
              IF LevelsBody(Append(k, x)) THEN InLoggingAt(bs, log \o Append(k, x)) ELSE Failure
            BY <3>1
      <4>3. LevelsBody(Append(k, x)) <=> (x.key = "verbosity" => x.value \in Levels)
            BY <3>3, LevelsBodyNext
      <4> HIDE DEF R, f
      <4>4. LeadsTo(InLoggingAt(bs, log \o k), SettingText(x),
              IF x.key = "verbosity" => x.value \in Levels THEN InLoggingAt(bs, Append(log \o k, x)) ELSE Failure)
            BY <3>2, LeadsLoggingSetting
      <4> QED BY <3>1, <3>2, <4>1, <4>2, <4>3, <4>4
    <3>4. CASE ~LevelsBody(k)
      <4>1. ~LevelsBody(Append(k, x))
            BY <3>4, LevelsBodyNext
      <4>2. R[k] = Failure /\ R[Append(k, x)] = Failure
            BY <3>1, <3>4, <4>1
      <4> HIDE DEF R
      <4> QED BY <3>1, <4>2, LeadsToFailure
    <3> QED BY <3>3, <3>4
  <2> HIDE DEF R, f
  <2>2. \A k \in Seq(LoggingSettings) : TextOf(f, k) \in Seq(Tokens) /\ LeadsTo(R[<<>>], TextOf(f, k), R[k])
        BY <1>3, <2>1, LeadsBody
  <2> QED BY <1>1, <2>2
<1>8. LeadsTo(R[e.body], <<<<Closing>>>>, q)
  <2>1. KeywordTo("LOGGING_CONTENT", Closing, "ROOT")
        BY DEF KeywordTo
  <2>2. R[e.body] = IF LevelsBody(e.body) THEN At("LOGGING_CONTENT", D(e.body)) ELSE Failure
        BY <1>1 DEF InLoggingAt
  <2>3. <<<<Closing>>>> \in Seq(Tokens)
        BY BracesAreTokens
  <2> HIDE DEF R, D
  <2>4. LeadsTo(At("LOGGING_CONTENT", D(e.body)), <<<<Closing>>>>, At("ROOT", D(e.body)))
        BY <2>1, LeadsToWord
  <2>5. LeadsTo(Failure, <<<<Closing>>>>, Failure)
        BY <2>3, LeadsToFailure
  <2> QED BY <2>2, <2>4, <2>5
<1>9. <<e.key>> \in Tokens
      BY <1>1 DEF Tokens, Words
<1> HIDE DEF D, f, inner, R, q
<1>10. BlockText(e, inner) \in Seq(Tokens) /\ LeadsTo(At("ROOT", ConfigFrom(bs, log)), BlockText(e, inner), q)
      BY <1>1, <1>5, <1>6, <1>7, <1>8, <1>9, BracesAreTokens, LeadsBlock
<1> QED BY <1>3, <1>10 DEF q, D

Entries == BindBlocks \cup LoggingBlocks
BindsOf(es) ==
  [n \in DOMAIN With(es, {"bind"}) |-> BindOf(With(es, {"bind"})[n].value, With(es, {"bind"})[n].body)]
ConfigOf(es) == ConfigFrom(BindsOf(es), LoggingBody(es))
TypedPlan(es) ==
  /\ \A b \in For(es, "bind") : GoodBind(b)
  /\ \A l \in For(es, "logging") : LevelsBody(l.body)

LEMMA EntryIs ==
  ASSUME NEW x \in Entries
  PROVE  /\ x.key = "bind" => x \in BindBlocks /\ x.value \in Values /\ x.body \in Seq(BindEntries)
         /\ x.key # "bind" => x \in LoggingBlocks /\ x.body \in Seq(LoggingSettings)
         /\ x.key \in {"bind", "logging"}
BY DEF Entries, BindBlocks, LoggingBlocks, BindEntries, LoggingSettings

LEMMA BindsNone == BindsOf(<<>>) = <<>>
BY WithNone DEF BindsOf

LEMMA BindsNext ==
  ASSUME NEW k \in Seq(Entries), NEW x \in Entries
  PROVE  BindsOf(Append(k, x)) =
           IF x.key = "bind" THEN Append(BindsOf(k), BindOf(x.value, x.body)) ELSE BindsOf(k)
<1> DEFINE f == [b \in Entries |-> BindOf(b.value, b.body)]
           w == With(k, {"bind"})
<1>1. w \in Seq(Entries)
      BY WithType
<1>2. \A v \in Seq(Entries) :
        [n \in DOMAIN v |-> BindOf(v[n].value, v[n].body)] = [n \in DOMAIN v |-> f[v[n]]]
      OBVIOUS
<1>3. CASE x.key = "bind"
  <2>1. With(Append(k, x), {"bind"}) = Append(w, x)
        BY <1>3, WithNext
  <2>2. f[x] = BindOf(x.value, x.body)
        OBVIOUS
  <2> HIDE DEF f, w
  <2>3. [n \in DOMAIN Append(w, x) |-> f[Append(w, x)[n]]] = Append([n \in DOMAIN w |-> f[w[n]]], f[x])
        BY <1>1, MappedNext
  <2>4. Append(w, x) \in Seq(Entries)
        BY <1>1
  <2>5. BindsOf(Append(k, x)) = [n \in DOMAIN Append(w, x) |-> f[Append(w, x)[n]]]
        BY <1>2, <2>1, <2>4 DEF BindsOf
  <2>6. BindsOf(k) = [n \in DOMAIN w |-> f[w[n]]]
        BY <1>1, <1>2 DEF BindsOf, w
  <2> QED BY <1>3, <2>2, <2>3, <2>5, <2>6
<1>4. CASE x.key # "bind"
  <2>1. With(Append(k, x), {"bind"}) = w
        BY <1>4, WithNext
  <2> QED BY <1>4, <2>1 DEF BindsOf
<1> QED BY <1>3, <1>4

LEMMA BindsType ==
  ASSUME NEW s \in Seq(Entries) PROVE BindsOf(s) \in Seq(BindConfigs)
<1> DEFINE T == {k \in Seq(Entries) : BindsOf(k) \in Seq(BindConfigs)}
<1>1. <<>> \in T
  <2>1. <<>> \in Seq(BindConfigs) /\ <<>> \in Seq(Entries)
        OBVIOUS
  <2> QED BY <2>1, BindsNone, Zenon
<1>2. ASSUME NEW k \in Seq(Entries), k \in T, NEW x \in Entries PROVE Append(k, x) \in T
  <2>1. BindsOf(k) \in Seq(BindConfigs) /\ Append(k, x) \in Seq(Entries)
        BY <1>2
  <2>2. x.key = "bind" => BindOf(x.value, x.body) \in BindConfigs
        BY EntryIs, BindOfType
  <2>3. x.key = "bind" => Append(BindsOf(k), BindOf(x.value, x.body)) \in Seq(BindConfigs)
        BY <2>1, <2>2
  <2>4. BindsOf(Append(k, x)) \in Seq(BindConfigs)
        BY <2>1, <2>3, BindsNext
  <2> QED BY <2>1, <2>4, Zenon
<1> HIDE DEF T
<1>3. s \in T
      BY <1>1, <1>2, InductSequence
<1> QED BY <1>3 DEF T

LEMMA LoggingBodyNone == LoggingBody(<<>>) = <<>>
<1>1. With(<<>>, {"logging"}) = <<>>
      BY WithNone
<1>2. [n \in DOMAIN <<>> |-> <<>>[n].body] = <<>>
      OBVIOUS
<1> QED BY <1>1, <1>2, FlattenEmpty DEF LoggingBody

LEMMA LoggingBodyNext ==
  ASSUME NEW k \in Seq(Entries), NEW x \in Entries
  PROVE  /\ LoggingBody(k) \in Seq(LoggingSettings)
         /\ LoggingBody(Append(k, x)) =
              IF x.key = "logging" THEN LoggingBody(k) \o x.body ELSE LoggingBody(k)
<1> DEFINE S == Seq(LoggingSettings)
           f == [l \in LoggingBlocks |-> l.body]
           w == With(k, {"logging"})
<1>1. w \in Seq(LoggingBlocks)
  <2>1. w \in Seq(Entries) /\ ToSet(w) = For(k, "logging")
        BY WithType, WithIsFor
  <2>2. For(k, "logging") \subseteq LoggingBlocks
    <3>1. ASSUME NEW l \in For(k, "logging") PROVE l \in LoggingBlocks
      <4>1. l \in Entries /\ l.key = "logging"
            BY DEF For, ToSet
      <4> QED BY <4>1, EntryIs
    <3> QED BY <3>1
  <2> HIDE DEF w
  <2>3. \A n \in DOMAIN w : w[n] \in LoggingBlocks
        BY <2>1, <2>2 DEF ToSet
  <2>4. Len(w) \in Nat /\ DOMAIN w = 1..Len(w) /\ w = [n \in 1..Len(w) |-> w[n]]
        BY <2>1
  <2> QED BY <2>3, <2>4
<1>2. \A v \in Seq(LoggingBlocks) :
        /\ [n \in DOMAIN v |-> v[n].body] = [n \in DOMAIN v |-> f[v[n]]]
        /\ [n \in DOMAIN v |-> f[v[n]]] \in Seq(S)
  <2>1. \A l \in LoggingBlocks : f[l] \in S /\ f[l] = l.body
        BY DEF LoggingBlocks, LoggingSettings
  <2> HIDE DEF f, S
  <2> QED BY <2>1
<1> HIDE DEF f
<1>3. LoggingBody(k) = FlattenSeq([n \in DOMAIN w |-> f[w[n]]])
      BY <1>1, <1>2 DEF LoggingBody
<1>4. LoggingBody(k) \in S
      BY <1>1, <1>2, <1>3, FlattenType
<1>5. CASE x.key = "logging"
  <2>1. With(Append(k, x), {"logging"}) = Append(w, x)
        BY <1>5, WithNext
  <2>2. x \in LoggingBlocks /\ f[x] = x.body /\ f[x] \in S
        BY <1>5, EntryIs DEF f, LoggingSettings
  <2> HIDE DEF w
  <2>3. Append(w, x) \in Seq(LoggingBlocks)
        BY <1>1, <2>2
  <2>4. LoggingBody(Append(k, x)) = FlattenSeq([n \in DOMAIN Append(w, x) |-> f[Append(w, x)[n]]])
        BY <1>2, <2>1, <2>3 DEF LoggingBody
  <2> DEFINE a == [n \in DOMAIN w |-> f[w[n]]]
  <2>5. [n \in DOMAIN Append(w, x) |-> f[Append(w, x)[n]]] = Append(a, f[x])
        BY <1>1, <2>2, MappedNext
  <2>6. a \in Seq(S) /\ FlattenSeq(a) \in S
        BY <1>1, <1>2, <1>3, <1>4 DEF w
  <2> HIDE DEF a
  <2>7. FlattenSeq(Append(a, f[x])) = FlattenSeq(a) \o f[x]
        BY <2>2, <2>6, FlattenAppend
  <2>8. LoggingBody(Append(k, x)) = LoggingBody(k) \o x.body
        BY <1>3, <2>2, <2>4, <2>5, <2>7 DEF a, w
  <2> QED BY <1>4, <1>5, <2>8
<1>6. CASE x.key # "logging"
  <2>1. With(Append(k, x), {"logging"}) = w
        BY <1>6, WithNext
  <2> QED BY <1>4, <1>6, <2>1 DEF LoggingBody
<1> QED BY <1>5, <1>6

LEMMA TypedPlanNext ==
  ASSUME NEW k \in Seq(Entries), NEW x \in Entries
  PROVE  TypedPlan(Append(k, x)) <=>
           /\ TypedPlan(k) /\ (x.key = "bind" => GoodBind(x))
           /\ x.key = "logging" => LevelsBody(x.body)
<1>1. For(Append(k, x), "bind") = For(k, "bind") \cup (IF x.key = "bind" THEN {x} ELSE {})
      BY ForNext
<1>2. For(Append(k, x), "logging") = For(k, "logging") \cup (IF x.key = "logging" THEN {x} ELSE {})
      BY ForNext
<1>3. (\A b \in For(Append(k, x), "bind") : GoodBind(b)) <=>
        (\A b \in For(k, "bind") : GoodBind(b)) /\ (x.key = "bind" => GoodBind(x))
      BY <1>1
<1>4. (\A l \in For(Append(k, x), "logging") : LevelsBody(l.body)) <=>
        (\A l \in For(k, "logging") : LevelsBody(l.body)) /\ (x.key = "logging" => LevelsBody(x.body))
      BY <1>2
<1> QED BY <1>3, <1>4 DEF TypedPlan

LEMMA LeadsEntry ==
  ASSUME NEW k \in Seq(Entries), NEW x \in Entries, TypedPlan(k)
  PROVE  /\ EntryText(x) \in Seq(Tokens)
         /\ LeadsTo(At("ROOT", ConfigOf(k)), EntryText(x),
                    IF TypedPlan(Append(k, x)) THEN At("ROOT", ConfigOf(Append(k, x))) ELSE Failure)
<1> DEFINE bs == BindsOf(k)
           log == LoggingBody(k)
<1>1. bs \in Seq(BindConfigs) /\ log \in Seq(LoggingSettings)
      BY BindsType, LoggingBodyNext
<1>2. TypedPlan(Append(k, x)) <=>
        (x.key = "bind" => GoodBind(x)) /\ (x.key = "logging" => LevelsBody(x.body))
      BY TypedPlanNext
<1>3. CASE x.key = "bind"
  <2>1. x \in BindBlocks
        BY <1>3, EntryIs
  <2>2. BindsOf(Append(k, x)) = Append(bs, BindOf(x.value, x.body)) /\ LoggingBody(Append(k, x)) = log
        BY <1>3, BindsNext, LoggingBodyNext
  <2> HIDE DEF bs, log
  <2>3. ConfigOf(Append(k, x)) = PutBind(ConfigFrom(bs, log), BindOf(x.value, x.body))
    <3> DEFINE b == BindOf(x.value, x.body)
    <3>1. ConfigOf(Append(k, x)) = ConfigFrom(Append(bs, b), log)
          BY <2>2 DEF ConfigOf
    <3> HIDE DEF b
    <3>2. PutBind(ConfigFrom(bs, log), b) = ConfigFrom(Append(bs, b), log)
      <4> DEFINE X == Append(bs, b)
      <4>1. ConfigFrom(bs, log).binds = bs
            BY DEF ConfigFrom
      <4>2. PutBind(ConfigFrom(bs, log), b) = [ConfigFrom(bs, log) EXCEPT !.binds = X]
            BY <4>1 DEF PutBind
      <4> HIDE DEF X
      <4>3. [ConfigFrom(bs, log) EXCEPT !.binds = X] = ConfigFrom(X, log)
            BY DEF ConfigFrom
      <4> QED BY <4>2, <4>3 DEF X
    <3> QED BY <3>1, <3>2 DEF b
  <2>4. ConfigFrom(bs, log) \in ConfigSet
        BY <1>1, ConfigFromType
  <2>5. /\ EntryText(x) \in Seq(Tokens)
        /\ LeadsTo(At("ROOT", ConfigFrom(bs, log)), EntryText(x),
             IF GoodBind(x) THEN At("ROOT", PutBind(ConfigFrom(bs, log), BindOf(x.value, x.body))) ELSE Failure)
        BY <2>1, <2>4, LeadsBind
  <2> QED BY <1>2, <1>3, <2>3, <2>5 DEF ConfigOf, bs, log
<1>4. CASE x.key = "logging"
  <2>1. x \in LoggingBlocks
        BY <1>4, EntryIs
  <2>2. BindsOf(Append(k, x)) = bs /\ LoggingBody(Append(k, x)) = log \o x.body
        BY <1>4, BindsNext, LoggingBodyNext
  <2> HIDE DEF bs, log
  <2>3. ConfigOf(Append(k, x)) = ConfigFrom(bs, log \o x.body)
        BY <2>2 DEF ConfigOf
  <2>4. /\ EntryText(x) \in Seq(Tokens)
        /\ LeadsTo(At("ROOT", ConfigFrom(bs, log)), EntryText(x),
             IF LevelsBody(x.body) THEN At("ROOT", ConfigFrom(bs, log \o x.body)) ELSE Failure)
        BY <1>1, <2>1, LeadsLogging
  <2> QED BY <1>2, <1>4, <2>3, <2>4 DEF ConfigOf, bs, log
<1> QED BY <1>3, <1>4, EntryIs

\* What the parser makes of a whole plan.
LEMMA LeadsPlan ==
  ASSUME NEW es \in Seq(Entries)
  PROVE  /\ Printed(es) \in Seq(Tokens)
         /\ LeadsTo(At("ROOT", ConfigOf(<<>>)), Printed(es),
                    IF TypedPlan(es) THEN At("ROOT", ConfigOf(es)) ELSE Failure)
<1> DEFINE f == [x \in Entries |-> EntryText(x)]
           R == [k \in Seq(Entries) |-> IF TypedPlan(k) THEN At("ROOT", ConfigOf(k)) ELSE Failure]
<1>1. <<>> \in Seq(Entries) /\ TypedPlan(<<>>)
  <2>1. TypedPlan(<<>>)
        BY ForNone DEF TypedPlan
  <2> QED BY <2>1
<1>2. f \in [Entries -> Seq(Tokens)]
  <2>1. ASSUME NEW x \in Entries PROVE EntryText(x) \in Seq(Tokens)
        BY <1>1, LeadsEntry
  <2> QED BY <2>1
<1>3. Printed(es) = TextOf(f, es)
  <2>1. [n \in DOMAIN es |-> EntryText(es[n])] = [n \in DOMAIN es |-> f[es[n]]]
        OBVIOUS
  <2> HIDE DEF f
  <2> QED BY <2>1 DEF Printed, TextOf
<1>4. ASSUME NEW k \in Seq(Entries), NEW x \in Entries PROVE LeadsTo(R[k], f[x], R[Append(k, x)])
  <2>1. f[x] = EntryText(x) /\ f[x] \in Seq(Tokens) /\ Append(k, x) \in Seq(Entries)
        BY <1>2
  <2>2. CASE TypedPlan(k)
    <3>1. R[k] = At("ROOT", ConfigOf(k))
          BY <2>2
    <3>2. R[Append(k, x)] = IF TypedPlan(Append(k, x)) THEN At("ROOT", ConfigOf(Append(k, x))) ELSE Failure
          BY <2>1
    <3> HIDE DEF R, f
    <3> QED BY <2>1, <2>2, <3>1, <3>2, LeadsEntry
  <2>3. CASE ~TypedPlan(k)
    <3>1. ~TypedPlan(Append(k, x))
          BY <2>3, TypedPlanNext
    <3>2. R[k] = Failure /\ R[Append(k, x)] = Failure
          BY <2>1, <2>3, <3>1
    <3> HIDE DEF R
    <3> QED BY <2>1, <3>2, LeadsToFailure
  <2> QED BY <2>2, <2>3
<1>5. R[<<>>] = At("ROOT", ConfigOf(<<>>))
      BY <1>1
<1>6. R[es] = IF TypedPlan(es) THEN At("ROOT", ConfigOf(es)) ELSE Failure
      OBVIOUS
<1> HIDE DEF R, f
<1>7. \A k \in Seq(Entries) : TextOf(f, k) \in Seq(Tokens) /\ LeadsTo(R[<<>>], TextOf(f, k), R[k])
      BY <1>2, <1>4, LeadsBody
<1> QED BY <1>3, <1>5, <1>6, <1>7

-----------------------------------------------------------------------------
(* What is valid, and what is declared.                                    *)

\* There is a last value exactly if there is one, as NULL is no value.
LEMMA LastIsSet ==
  ASSUME NEW B, NEW s \in Seq(B), NEW key, \A x \in B : x.key = key => x.value \in Values
  PROVE  LastValue(s, key) # NULL <=> For(s, key) # {}
<1>1. CASE For(s, key) = {}
      BY <1>1 DEF LastValue
<1>2. CASE For(s, key) # {}
  <2>1. Last(With(s, {key})) \in For(s, key) /\ LastValue(s, key) = Last(With(s, {key})).value
        BY <1>2, LastIs
  <2>2. \A x \in For(s, key) : x \in B /\ x.key = key
        BY DEF For, ToSet
  <2>3. LastValue(s, key) \in Values
        BY <2>1, <2>2
  <2> QED BY <1>2, <2>3, ConfigAssumption
<1> QED BY <1>1, <1>2

\* The members of what a function makes of a sequence.
Mapped(s, key, f) == [n \in DOMAIN With(s, {key}) |-> f[With(s, {key})[n]]]
LEMMA MappedSet ==
  ASSUME NEW B, NEW s \in Seq(B), NEW key, NEW f, NEW P
  PROVE  (\A y \in ToSet(Mapped(s, key, f)) : y \in P) <=> \A x \in For(s, key) : f[x] \in P
<1> DEFINE w == With(s, {key})
           g == Mapped(s, key, f)
<1>1. ToSet(w) = For(s, key)
      BY WithIsFor
<1>2. g = [n \in DOMAIN w |-> f[w[n]]]
      BY DEF Mapped
<1> HIDE DEF w, g
<1>3. ToSet(g) = {f[w[n]] : n \in DOMAIN w}
  <2>1. DOMAIN g = DOMAIN w /\ \A n \in DOMAIN w : g[n] = f[w[n]]
        BY <1>2
  <2> QED BY <2>1 DEF ToSet
<1>4. For(s, key) = {w[n] : n \in DOMAIN w}
      BY <1>1 DEF ToSet
<1> QED BY <1>3, <1>4 DEF g

LEMMA ValidHandlerIs ==
  ASSUME NEW h \in HandlerBlocks
  PROVE  ValidHandler(h) /\ TypeFirst(h) <=> TypedBody(h.body) /\ HandlerOf(h.value, h.body).type # NULL
<1>1. h.body \in Seq(HandlerSettings)
      BY DEF HandlerBlocks, HandlerSettings
<1>2. \A x \in HandlerSettings : x.value \in Values
      BY DEF HandlerSettings, Settings
<1>3. LastValue(h.body, "type") # NULL <=> For(h.body, "type") # {}
      BY <1>1, <1>2, LastIsSet
<1>4. HandlerOf(h.value, h.body).type = LastValue(h.body, "type")
      BY DEF HandlerOf
<1> QED BY <1>3, <1>4 DEF ValidHandler, TypeFirst, TypedBody

CompleteSite(s) == s.documentRoot # NULL /\ \A h \in ToSet(s.handlers) : h.type # NULL

LEMMA ValidSiteIs ==
  ASSUME NEW s \in SiteBlocks
  PROVE  ValidSite(s) /\ (\A h \in For(s.body, "handler") : TypeFirst(h))
           <=> TypedSite(s.body) /\ CompleteSite(SiteOf(s.body))
<1> DEFINE k == s.body
           f == [h \in SiteEntries |-> HandlerOf(h.value, h.body)]
           w == With(k, {"handler"})
<1>1. k \in Seq(SiteEntries)
      BY DEF SiteBlocks, SiteEntries, SiteSettings
<1>2. \A h \in For(k, "handler") : h \in SiteEntries /\ h \in HandlerBlocks
  <2>1. \A h \in For(k, "handler") : h \in SiteEntries /\ h.key = "handler"
        BY <1>1 DEF For, ToSet
  <2> QED BY <2>1, SiteEntryIs
<1>3. LastValue(k, "root") # NULL <=> For(k, "root") # {}
      BY <1>1, SiteEntryIs, LastIsSet
<1>4. SiteOf(k).documentRoot = LastValue(k, "root") /\ SiteOf(k).handlers = HandlersOf(k)
      BY DEF SiteOf
<1>5. (\A h \in ToSet(HandlersOf(k)) : h.type # NULL) <=>
        \A h \in For(k, "handler") : HandlerOf(h.value, h.body).type # NULL
  <2> DEFINE P == {h \in ToSet(HandlersOf(k)) \cup {f[x] : x \in For(k, "handler")} : h.type # NULL}
  <2>1. w \in Seq(SiteEntries)
        BY <1>1, WithType
  <2>2. HandlersOf(k) = Mapped(k, "handler", f)
        BY <2>1 DEF HandlersOf, Mapped
  <2>3. \A h \in For(k, "handler") : f[h] = HandlerOf(h.value, h.body)
        BY <1>2
  <2>4. (\A y \in ToSet(HandlersOf(k)) : y \in P) <=> \A x \in For(k, "handler") : f[x] \in P
    <3> HIDE DEF f, P, k
    <3> QED BY <1>1, <2>2, MappedSet
  <2> HIDE DEF f, k
  <2> QED BY <2>3, <2>4
<1> HIDE DEF f, w
<1>6. (\A h \in For(k, "handler") : ValidHandler(h) /\ TypeFirst(h)) <=>
        (\A h \in For(k, "handler") : TypedBody(h.body) /\ HandlerOf(h.value, h.body).type # NULL)
      BY <1>2, ValidHandlerIs
<1> QED BY <1>3, <1>4, <1>5, <1>6 DEF ValidSite, TypedSite, CompleteSite

LEMMA CompleteIs ==
  ASSUME NEW b
  PROVE  Complete(b) <=> /\ b.ssl # NULL => b.ssl.privateKey # NULL /\ b.ssl.certificate # NULL
                         /\ \A s \in ToSet(b.sites) : CompleteSite(s)
BY DEF Complete, CompleteSite

LEMMA ValidSslIs ==
  ASSUME NEW k \in Seq(BindEntries), Len(With(k, {"ssl"})) <= 1
  PROVE  (\A x \in For(k, "ssl") : For(x.body, "key") # {} /\ For(x.body, "cert") # {}) <=>
           (SslOf(k) # NULL => SslOf(k).privateKey # NULL /\ SslOf(k).certificate # NULL)
<1> DEFINE w == With(k, {"ssl"})
           l == Last(w)
<1>1. CASE For(k, "ssl") = {}
      BY <1>1, SslOfType
<1>2. CASE For(k, "ssl") # {}
  <2>1. w \in Seq(BindEntries) /\ ToSet(w) = For(k, "ssl") /\ l \in For(k, "ssl") /\ w # <<>>
        BY <1>2, WithType, WithIsFor, LastIs
  <2>2. For(k, "ssl") = {l}
    <3> HIDE DEF w
    <3>0. Len(w) <= 1 /\ Len(w) \in Nat /\ DOMAIN w = 1..Len(w) /\ Len(w) # 0
      <4>1. Len(w) <= 1
            BY DEF w
      <4> QED BY <2>1, <4>1, EmptySeq
    <3>1. Len(w) = 1 /\ DOMAIN w = 1..1 /\ w[1] = Last(w)
          BY <3>0 DEF Last
    <3>2. \A n \in 1..1 : n = 1
          OBVIOUS
    <3>3. ToSet(w) = {Last(w)}
          BY <3>1, <3>2 DEF ToSet
    <3> QED BY <2>1, <3>3 DEF w
  <2>3. l \in BindEntries /\ l.key = "ssl"
        BY <2>1 DEF For, ToSet
  <2>4. l.body \in Seq(SslSettings)
        BY <2>3, BindEntryIs
  <2>5. \A x \in SslSettings : x.value \in Values
        BY DEF SslSettings, Settings
  <2> HIDE DEF l
  <2>6. /\ LastValue(l.body, "key") # NULL <=> For(l.body, "key") # {}
        /\ LastValue(l.body, "cert") # NULL <=> For(l.body, "cert") # {}
        BY <2>4, <2>5, LastIsSet
  <2>7. SslOf(k) = DeclaredSsl(l.body) /\ SslOf(k) # NULL
        BY <1>2, SslOfType DEF SslOf, l
  <2>8. DeclaredSsl(l.body).privateKey = LastValue(l.body, "key") /\ DeclaredSsl(l.body).certificate = LastValue(l.body, "cert")
        BY DEF DeclaredSsl
  <2> QED BY <2>2, <2>6, <2>7, <2>8
<1> QED BY <1>1, <1>2

LEMMA ValidBindIs ==
  ASSUME NEW e \in BindBlocks
  PROVE  ValidBind(e) /\ (\A s \in For(e.body, "site") : \A h \in For(s.body, "handler") : TypeFirst(h))
           <=> GoodBind(e) /\ Complete(BindOf(e.value, e.body))
<1> DEFINE k == e.body
           b == BindOf(e.value, k)
           f == [s \in BindEntries |-> SiteOf(s.body)]
           w == With(k, {"site"})
<1>1. k \in Seq(BindEntries)
      BY DEF BindBlocks, BindEntries
<1>2. \A s \in For(k, "site") : s \in BindEntries /\ s \in SiteBlocks
  <2>1. \A s \in For(k, "site") : s \in BindEntries /\ s.key = "site"
        BY <1>1 DEF For, ToSet
  <2> QED BY <2>1, BindEntryIs
<1>3. b.ssl = SslOf(k) /\ b.sites = SitesOf(k)
      BY DEF BindOf
<1>4. (\A s \in ToSet(SitesOf(k)) : CompleteSite(s)) <=> \A s \in For(k, "site") : CompleteSite(SiteOf(s.body))
  <2> DEFINE P == {s \in ToSet(SitesOf(k)) \cup {f[x] : x \in For(k, "site")} : CompleteSite(s)}
  <2>1. w \in Seq(BindEntries)
        BY <1>1, WithType
  <2>2. SitesOf(k) = Mapped(k, "site", f)
        BY <2>1 DEF SitesOf, Mapped
  <2>3. \A s \in For(k, "site") : f[s] = SiteOf(s.body)
        BY <1>2
  <2>4. (\A y \in ToSet(SitesOf(k)) : y \in P) <=> \A x \in For(k, "site") : f[x] \in P
    <3> HIDE DEF f, P, k
    <3> QED BY <1>1, <2>2, MappedSet
  <2> HIDE DEF f, k
  <2> QED BY <2>3, <2>4
<1> HIDE DEF f, w, b
<1>5. (\A s \in For(k, "site") :
          ValidSite(s) /\ \A h \in For(s.body, "handler") : TypeFirst(h)) <=>
        (\A s \in For(k, "site") : TypedSite(s.body) /\ CompleteSite(SiteOf(s.body)))
      BY <1>2, ValidSiteIs
<1>6. Len(With(k, {"ssl"})) <= 1 =>
        ((\A x \in For(k, "ssl") : For(x.body, "key") # {} /\ For(x.body, "cert") # {}) <=>
          (SslOf(k) # NULL => SslOf(k).privateKey # NULL /\ SslOf(k).certificate # NULL))
      BY <1>1, ValidSslIs
<1>7. Complete(b) <=> /\ SslOf(k) # NULL => SslOf(k).privateKey # NULL /\ SslOf(k).certificate # NULL
                      /\ \A s \in For(k, "site") : CompleteSite(SiteOf(s.body))
      BY <1>3, <1>4, CompleteIs
<1>8. ValidBind(e) /\ (\A s \in For(k, "site") : \A h \in For(s.body, "handler") : TypeFirst(h))
        <=> GoodBind(e) /\ Complete(b)
      BY <1>5, <1>6, <1>7 DEF ValidBind, GoodBind, TypedBind
<1> QED BY <1>8 DEF b

LEMMA ReadableIs ==
  ASSUME NEW es \in Seq(Entries)
  PROVE  Readable(es) <=> FitAll(Printed(es)) /\ TypedPlan(es) /\ \A b \in ToSet(BindsOf(es)) : Complete(b)
<1> DEFINE f == [b \in Entries |-> BindOf(b.value, b.body)]
           w == With(es, {"bind"})
           x == Printed(es)
<1>1. x \in Seq(Tokens)
      BY LeadsPlan
<1>2. (\A t \in ToSet(x) : Len(t) < MAX_TOKEN_LENGTH) <=> FitAll(x)
  <2> HIDE DEF x
  <2>1. DOMAIN x = 1..Len(x)
        BY <1>1
  <2> QED BY <2>1 DEF ToSet, FitAll, Fits
<1>3. \A b \in For(es, "bind") : b \in Entries /\ b \in BindBlocks
  <2>1. \A b \in For(es, "bind") : b \in Entries /\ b.key = "bind"
        BY DEF For, ToSet
  <2> QED BY <2>1, EntryIs
<1>4. (\A b \in ToSet(BindsOf(es)) : Complete(b)) <=> \A b \in For(es, "bind") : Complete(BindOf(b.value, b.body))
  <2> DEFINE P == {b \in ToSet(BindsOf(es)) \cup {f[y] : y \in For(es, "bind")} : Complete(b)}
  <2>1. w \in Seq(Entries)
        BY WithType
  <2>2. BindsOf(es) = Mapped(es, "bind", f)
        BY <2>1 DEF BindsOf, Mapped
  <2>3. \A b \in For(es, "bind") : f[b] = BindOf(b.value, b.body)
        BY <1>3
  <2>4. (\A y \in ToSet(BindsOf(es)) : y \in P) <=> \A y \in For(es, "bind") : f[y] \in P
    <3> HIDE DEF f, P
    <3> QED BY <2>2, MappedSet
  <2> HIDE DEF f
  <2> QED BY <2>3, <2>4
<1>5. (\A b \in For(es, "bind") :
          ValidBind(b) /\ \A s \in For(b.body, "site") : \A h \in For(s.body, "handler") : TypeFirst(h)) <=>
        (\A b \in For(es, "bind") : GoodBind(b) /\ Complete(BindOf(b.value, b.body)))
      BY <1>3, ValidBindIs
<1> HIDE DEF x, f, w
<1> QED BY <1>2, <1>4, <1>5 DEF Readable, Valid, TypesFirst, TypedPlan, LevelsBody, x

LEMMA RootedSiteIs ==
  ASSUME NEW s \in SiteBlocks PROVE RootedSite(SiteOf(s.body)) = DeclaredSite(s)
<1> DEFINE t == SiteOf(s.body)
           w == With(s.body, {"handler"})
           root == LastValue(s.body, "root")
           hs == HandlersOf(s.body)
           names == ValuesOf(s.body, {"hostname", "alias"})
           rooted == [k \in DOMAIN hs |-> [hs[k] EXCEPT !.documentRoot = root]]
           declared == [n \in DOMAIN w |-> DeclaredHandler(w[n], root)]
<1>1. t = [hostnames |-> names, documentRoot |-> root, handlers |-> hs]
      BY DEF SiteOf
<1>2. DeclaredSite(s) = [hostnames |-> names, documentRoot |-> root, handlers |-> declared]
      BY DEF DeclaredSite
<1>3. rooted = declared
  <2>1. DOMAIN hs = DOMAIN w /\ \A n \in DOMAIN w : hs[n] = HandlerOf(w[n].value, w[n].body)
        BY DEF HandlersOf
  <2>2. ASSUME NEW n \in DOMAIN w PROVE [hs[n] EXCEPT !.documentRoot = root] = DeclaredHandler(w[n], root)
    <3> DEFINE h == w[n]
    <3>1. hs[n] = HandlerOf(h.value, h.body)
          BY <2>1
    <3> HIDE DEF h, hs, root
    <3>2. [HandlerOf(h.value, h.body) EXCEPT !.documentRoot = root] = DeclaredHandler(h, root)
          BY DEF HandlerOf, DeclaredHandler
    <3> QED BY <3>1, <3>2 DEF h
  <2> HIDE DEF hs, w, root
  <2> QED BY <2>1, <2>2
<1> HIDE DEF t, names, root, hs, declared, w
<1>4. RootedSite(t) = [t EXCEPT !.handlers = rooted]
  <2>1. t.handlers = hs /\ t.documentRoot = root
        BY <1>1
  <2> QED BY <2>1 DEF RootedSite
<1> HIDE DEF rooted
<1>5. [t EXCEPT !.handlers = rooted] = [hostnames |-> names, documentRoot |-> root, handlers |-> rooted]
      BY <1>1
<1>6. RootedSite(t) = DeclaredSite(s)
      BY <1>2, <1>3, <1>4, <1>5
<1> QED BY <1>6 DEF t

LEMMA RootedBindIs ==
  ASSUME NEW e \in BindBlocks PROVE Rooted(BindOf(e.value, e.body)) = DeclaredBind(e)
<1> DEFINE b == BindOf(e.value, e.body)
           w == With(e.body, {"site"})
           a == Address(e.value)
           p == Port(e.value)
           l == SslOf(e.body)
           ss == SitesOf(e.body)
           rooted == [n \in DOMAIN ss |-> RootedSite(ss[n])]
           declared == [n \in DOMAIN w |-> DeclaredSite(w[n])]
<1>1. b = [addr |-> a, port |-> p, ssl |-> l, sites |-> ss]
      BY DEF BindOf
<1>2. DeclaredBind(e) = [addr |-> a, port |-> p, ssl |-> l, sites |-> declared]
      BY DEF DeclaredBind, SslOf
<1>3. rooted = declared
  <2>1. DOMAIN ss = DOMAIN w /\ \A n \in DOMAIN w : ss[n] = SiteOf(w[n].body)
        BY DEF SitesOf
  <2>2. ASSUME NEW n \in DOMAIN w PROVE w[n] \in SiteBlocks
    <3>1. e.body \in Seq(BindEntries)
          BY DEF BindBlocks, BindEntries
    <3>2. w \in Seq(BindEntries) /\ ToSet(w) = For(e.body, "site")
          BY <3>1, WithType, WithIsFor
    <3> HIDE DEF w
    <3>3. w[n] \in For(e.body, "site")
          BY <3>2 DEF ToSet
    <3>4. w[n] \in BindEntries /\ w[n].key = "site"
          BY <3>1, <3>3 DEF For, ToSet
    <3> QED BY <3>4, BindEntryIs
  <2> HIDE DEF ss, w
  <2>3. \A n \in DOMAIN w : RootedSite(ss[n]) = DeclaredSite(w[n])
        BY <2>1, <2>2, RootedSiteIs
  <2> QED BY <2>1, <2>3
<1> HIDE DEF b, a, p, l, ss, w, declared
<1>4. Rooted(b) = [b EXCEPT !.sites = rooted]
  <2>1. b.sites = ss
        BY <1>1
  <2>2. Rooted(b) = [b EXCEPT !.sites = [n \in DOMAIN b.sites |-> RootedSite(b.sites[n])]]
        BY DEF Rooted
  <2> QED BY <2>1, <2>2
<1> HIDE DEF rooted
<1>5. [b EXCEPT !.sites = rooted] = [addr |-> a, port |-> p, ssl |-> l, sites |-> rooted]
      BY <1>1
<1>6. Rooted(b) = DeclaredBind(e)
      BY <1>2, <1>3, <1>4, <1>5
<1> QED BY <1>6 DEF b

\* What is made of the config at the end of the file is what was declared.
LEMMA RootedIs ==
  ASSUME NEW es \in Seq(Entries)
  PROVE  [ConfigOf(es) EXCEPT !.binds = [n \in DOMAIN @ |-> Rooted(@[n])]] = Declared(es)
<1> DEFINE c == ConfigOf(es)
           w == With(es, {"bind"})
           bs == BindsOf(es)
           log == LoggingBody(es)
           v == VerbosityOf(log)
           x == LastValue(log, "access")
           y == LastValue(log, "server")
           rooted == [n \in DOMAIN bs |-> Rooted(bs[n])]
           declared == [n \in DOMAIN w |-> DeclaredBind(w[n])]
<1>1. c = [binds |-> bs, accessLogfile |-> x, serverLogfile |-> y, serverVerbosity |-> v]
      BY DEF ConfigOf, ConfigFrom
<1>2. Declared(es) = [binds |-> declared, accessLogfile |-> x, serverLogfile |-> y, serverVerbosity |-> v]
      BY DEF Declared, VerbosityOf
<1>3. rooted = declared
  <2>1. DOMAIN bs = DOMAIN w /\ \A n \in DOMAIN w : bs[n] = BindOf(w[n].value, w[n].body)
        BY DEF BindsOf
  <2>2. ASSUME NEW n \in DOMAIN w PROVE w[n] \in BindBlocks
    <3>1. w \in Seq(Entries) /\ ToSet(w) = For(es, "bind")
          BY WithType, WithIsFor
    <3> HIDE DEF w
    <3>2. w[n] \in For(es, "bind")
          BY <3>1 DEF ToSet
    <3>3. w[n] \in Entries /\ w[n].key = "bind"
          BY <3>2 DEF For, ToSet
    <3> QED BY <3>3, EntryIs
  <2> HIDE DEF bs, w
  <2>3. \A n \in DOMAIN w : Rooted(bs[n]) = DeclaredBind(w[n])
        BY <2>1, <2>2, RootedBindIs
  <2> QED BY <2>1, <2>3
<1> HIDE DEF c, bs, log, v, x, y, w, declared
<1>4. c.binds = bs
      BY <1>1
<1>5. [c EXCEPT !.binds = [n \in DOMAIN @ |-> Rooted(@[n])]] = [c EXCEPT !.binds = rooted]
      BY <1>4
<1> HIDE DEF rooted
<1>6. [c EXCEPT !.binds = rooted] = [binds |-> rooted, accessLogfile |-> x, serverLogfile |-> y, serverVerbosity |-> v]
      BY <1>1
<1>7. [c EXCEPT !.binds = [n \in DOMAIN @ |-> Rooted(@[n])]] = Declared(es)
      BY <1>2, <1>3, <1>5, <1>6
<1> QED BY <1>7 DEF c

-----------------------------------------------------------------------------
(* The states on the way through a text, whether or not the parser fails.  *)

Route(s, x, q) ==
  \E st : /\ st[0] = s /\ st[Len(x)] = q
          /\ \A n \in 1..Len(x) : Arrow(st[n - 1], x[n], st[n])
          /\ \A n \in 1..(Len(x) - 1) : st[n] # "ROOT"

LEMMA RouteNone == \A s : Route(s, <<>>, s)
<1> TAKE s
<1> DEFINE st == [n \in {0} |-> s]
<1>1. st[0] = s /\ Len(<<>>) = 0 /\ 1..0 = {} /\ 1..(0 - 1) = {}
      OBVIOUS
<1> HIDE DEF st
<1>2. /\ st[Len(<<>>)] = s /\ \A n \in 1..Len(<<>>) : Arrow(st[n - 1], <<>>[n], st[n])
      /\ \A n \in 1..(Len(<<>>) - 1) : st[n] # "ROOT"
      BY <1>1
<1> QED BY <1>1, <1>2 DEF Route

LEMMA RouteOne == ASSUME NEW s, NEW t, NEW q, Arrow(s, t, q) PROVE Route(s, <<t>>, q)
<1> DEFINE st == [n \in {0, 1} |-> IF n = 0 THEN s ELSE q]
           x == <<t>>
<1>1. st[0] = s /\ st[1] = q
      OBVIOUS
<1>2. Len(x) = 1 /\ x[1] = t
      OBVIOUS
<1>3. 1..(1 - 1) = {} /\ \A n \in 1..1 : n = 1 /\ n - 1 = 0
      OBVIOUS
<1> HIDE DEF st, x
<1>4. st[0] = s /\ st[Len(x)] = q
      BY <1>1, <1>2
<1>5. \A n \in 1..Len(x) : Arrow(st[n - 1], x[n], st[n])
  <2>1. ASSUME NEW n \in 1..Len(x) PROVE Arrow(st[n - 1], x[n], st[n])
    <3>1. n = 1 /\ n - 1 = 0
          BY <1>2, <1>3
    <3> QED BY <1>1, <1>2, <3>1
  <2> QED BY <2>1
<1>6. \A n \in 1..(Len(x) - 1) : st[n] # "ROOT"
      BY <1>2, <1>3
<1>7. Route(s, x, q)
      BY <1>4, <1>5, <1>6 DEF Route
<1> QED BY <1>7 DEF x

LEMMA RouteOn ==
  ASSUME NEW T, NEW x \in Seq(T), NEW y \in Seq(T), NEW s, NEW m, NEW q,
         Route(s, x, m), Route(m, y, q), m # "ROOT"
  PROVE  Route(s, x \o y, q)
<1>1. PICK f : /\ f[0] = s /\ f[Len(x)] = m
               /\ \A n \in 1..Len(x) : Arrow(f[n - 1], x[n], f[n])
               /\ \A n \in 1..(Len(x) - 1) : f[n] # "ROOT"
      BY DEF Route
<1>2. PICK g : /\ g[0] = m /\ g[Len(y)] = q
               /\ \A n \in 1..Len(y) : Arrow(g[n - 1], y[n], g[n])
               /\ \A n \in 1..(Len(y) - 1) : g[n] # "ROOT"
      BY DEF Route
<1> DEFINE z == x \o y
           st == [n \in 0..Len(z) |-> IF n <= Len(x) THEN f[n] ELSE g[n - Len(x)]]
<1>3. /\ Len(x) \in Nat /\ Len(y) \in Nat /\ Len(z) = Len(x) + Len(y)
      /\ \A n \in 1..Len(z) : z[n] = IF n <= Len(x) THEN x[n] ELSE y[n - Len(x)]
      OBVIOUS
<1> HIDE DEF z
<1>4. st[0] = s /\ st[Len(z)] = q
      BY <1>1, <1>2, <1>3
<1>5. ASSUME NEW n \in 1..Len(z) PROVE Arrow(st[n - 1], z[n], st[n])
  <2>1. CASE n <= Len(x)
    <3>1. st[n] = f[n] /\ st[n - 1] = f[n - 1] /\ n \in 1..Len(x) /\ z[n] = x[n]
          BY <1>3, <2>1
    <3> HIDE DEF st
    <3> QED BY <1>1, <3>1
  <2>2. CASE n = Len(x) + 1
    <3>1. st[n] = g[1] /\ st[n - 1] = f[Len(x)] /\ 1 \in 1..Len(y) /\ z[n] = y[1] /\ 1 - 1 = 0
          BY <1>3, <2>2
    <3> HIDE DEF st
    <3>2. Arrow(g[0], y[1], g[1])
          BY <1>2, <3>1
    <3> QED BY <1>1, <1>2, <3>1, <3>2
  <2>3. CASE n > Len(x) + 1
    <3> DEFINE k == n - Len(x)
    <3>0. k \in 1..Len(y) /\ ~(n <= Len(x)) /\ ~(n - 1 <= Len(x)) /\ (n - 1) - Len(x) = k - 1
          BY <1>3, <2>3
    <3>1. k \in 1..Len(y) /\ st[n] = g[k] /\ st[n - 1] = g[k - 1] /\ z[n] = y[k]
          BY <1>3, <3>0
    <3> HIDE DEF st, k
    <3> QED BY <1>2, <3>1
  <2>4. n <= Len(x) \/ n = Len(x) + 1 \/ n > Len(x) + 1
    <3>1. n \in Int /\ Len(x) \in Int
          BY <1>3
    <3> QED BY <3>1
  <2> QED BY <2>1, <2>2, <2>3, <2>4
<1>6. ASSUME NEW n \in 1..(Len(z) - 1) PROVE st[n] # "ROOT"
  <2>1. CASE n < Len(x)
    <3>1. st[n] = f[n] /\ n \in 1..(Len(x) - 1)
          BY <1>3, <2>1
    <3> QED BY <1>1, <3>1
  <2>2. CASE n = Len(x)
    <3>1. st[n] = f[Len(x)]
          BY <1>3, <2>2
    <3> QED BY <1>1, <3>1
  <2>3. CASE n > Len(x)
    <3>1. st[n] = g[n - Len(x)] /\ n - Len(x) \in 1..(Len(y) - 1)
          BY <1>3, <2>3
    <3> QED BY <1>2, <3>1
  <2>4. n < Len(x) \/ n = Len(x) \/ n > Len(x)
    <3>1. n \in Int /\ Len(x) \in Int
          BY <1>3
    <3> QED BY <3>1
  <2> QED BY <2>1, <2>2, <2>3, <2>4
<1> HIDE DEF st
<1>7. Route(s, z, q)
      BY <1>4, <1>5, <1>6 DEF Route
<1> QED BY <1>7 DEF z

LEMMA RouteBody ==
  ASSUME NEW T, NEW B, NEW f \in [B -> Seq(T)], NEW s, s # "ROOT", \A x \in B : Route(s, f[x], s)
  PROVE  \A k \in Seq(B) : Route(s, TextOf(f, k), s)
<1> DEFINE S == {k \in Seq(B) : Route(s, TextOf(f, k), s)}
<1>1. <<>> \in S
  <2>1. Route(s, TextOf(f, <<>>), s)
        BY TextNone, RouteNone
  <2>2. <<>> \in Seq(B)
        OBVIOUS
  <2> QED BY <2>1, <2>2, Zenon
<1>2. ASSUME NEW k \in Seq(B), k \in S, NEW x \in B PROVE Append(k, x) \in S
  <2>1. TextOf(f, k) \in Seq(T) /\ TextOf(f, Append(k, x)) = TextOf(f, k) \o f[x]
        BY TextNext
  <2>2. f[x] \in Seq(T) /\ Append(k, x) \in Seq(B) /\ Route(s, TextOf(f, k), s)
        BY <1>2
  <2>3. Route(s, TextOf(f, k) \o f[x], s)
        BY <2>1, <2>2, RouteOn
  <2>4. Route(s, TextOf(f, Append(k, x)), s)
        BY <2>1, <2>3
  <2> QED BY <2>2, <2>4, Zenon
<1> HIDE DEF S
<1>3. \A k \in Seq(B) : k \in S
      BY <1>1, <1>2, InductSequence
<1> QED BY <1>3 DEF S

LEMMA RouteBraces ==
  ASSUME NEW T, NEW a \in T, NEW b \in T, NEW x \in Seq(T), NEW inner \in Seq(T),
         NEW r, NEW m, NEW n, NEW q, Route(r, x, m), Arrow(m, a, n), Route(n, inner, n), Arrow(n, b, q),
         m # "ROOT", n # "ROOT"
  PROVE  Route(r, x \o <<a>> \o inner \o <<b>>, q)
<1> DEFINE u == <<a>>
           v == <<b>>
           y == x \o u
           z == y \o inner
<1>1. u \in Seq(T) /\ v \in Seq(T)
      OBVIOUS
<1>2. Route(m, u, n) /\ Route(n, v, q)
      BY RouteOne
<1> HIDE DEF u, v
<1>3. y \in Seq(T)
      BY <1>1
<1>4. Route(r, y, n)
      BY <1>1, <1>2, RouteOn
<1> HIDE DEF y
<1>5. z \in Seq(T)
      BY <1>3
<1>6. Route(r, z, n)
      BY <1>3, <1>4, RouteOn
<1> HIDE DEF z
<1>7. Route(r, z \o v, q)
      BY <1>1, <1>2, <1>5, <1>6, RouteOn
<1> QED BY <1>7 DEF y, z, u, v

LEMMA RouteBlock ==
  ASSUME NEW T, NEW a \in T, NEW b \in T, a = <<Opening>>, b = <<Closing>>, NEW inner \in Seq(T),
         NEW e, <<e.key>> \in T, e.value = <<>>, NEW r, NEW m, NEW n, NEW q,
         Arrow(r, <<e.key>>, m), Arrow(m, a, n), Route(n, inner, n), Arrow(n, b, q),
         m # "ROOT", n # "ROOT"
  PROVE  Route(r, BlockText(e, inner), q)
<1> DEFINE x == <<<<e.key>>>>
<1>1. x \in Seq(T)
      OBVIOUS
<1>2. x \o <<>> = x
      BY <1>1
<1>3. BlockText(e, inner) = x \o <<a>> \o inner \o <<b>>
      BY <1>2 DEF BlockText
<1>4. Route(r, x, m)
      BY RouteOne
<1> HIDE DEF x
<1>5. Route(r, x \o <<a>> \o inner \o <<b>>, q)
      BY <1>1, <1>4, RouteBraces
<1> QED BY <1>3, <1>5

LEMMA RouteValueBlock ==
  ASSUME NEW T, NEW a \in T, NEW b \in T, a = <<Opening>>, b = <<Closing>>, NEW inner \in Seq(T),
         NEW e, <<e.key>> \in T, e.value \in T, e.value # <<>>, NEW r, NEW l, NEW m, NEW n, NEW q,
         Arrow(r, <<e.key>>, l), Arrow(l, e.value, m), Arrow(m, a, n), Route(n, inner, n), Arrow(n, b, q),
         l # "ROOT", m # "ROOT", n # "ROOT"
  PROVE  Route(r, BlockText(e, inner), q)
<1> DEFINE k == <<<<e.key>>>>
           v == <<e.value>>
           x == k \o v
<1>1. k \in Seq(T) /\ v \in Seq(T)
      OBVIOUS
<1>2. Route(r, k, l) /\ Route(l, v, m)
      BY RouteOne
<1>3. BlockText(e, inner) = x \o <<a>> \o inner \o <<b>>
      BY DEF BlockText
<1> HIDE DEF k, v
<1>4. x \in Seq(T)
      BY <1>1
<1>5. Route(r, x, m)
      BY <1>1, <1>2, RouteOn
<1> HIDE DEF x
<1>6. Route(r, x \o <<a>> \o inner \o <<b>>, q)
      BY <1>4, <1>5, RouteBraces
<1> QED BY <1>3, <1>6

LEMMA RouteSetting ==
  ASSUME NEW s, NEW x, NEW p, NEW v, NEW q, KeywordTo(s, x.key, p), KeywordTo(p, "=", v), ValueTo(v, q)
  PROVE  Route(s, SettingText(x), q)
<1> DEFINE a == <<x.key>>
           b == <<"=">>
           c == x.value
           T == {a, b, c}
           u == <<a>>
           w == u \o <<b>>
<1>1. Arrow(s, a, p) /\ Arrow(p, b, v) /\ Arrow(v, c, q)
  <2>1. WordArrow(s, a, p) /\ WordArrow(p, b, v)
        BY DEF WordArrow, WordTo
  <2>2. ValueArrow(v, c, q)
    <3>1. v # "BIND_VALUE"
          BY DEF KeywordTo
    <3> QED BY <3>1 DEF ValueArrow
  <2> QED BY <2>1, <2>2 DEF Arrow
<1>2. p # "ROOT" /\ v # "ROOT"
      BY DEF KeywordTo, ValueTo
<1>3. SettingText(x) = w \o <<c>>
      BY DEF SettingText
<1>4. u \in Seq(T) /\ <<b>> \in Seq(T) /\ <<c>> \in Seq(T)
      OBVIOUS
<1>5. Route(s, u, p) /\ Route(p, <<b>>, v) /\ Route(v, <<c>>, q)
      BY <1>1, RouteOne
<1> HIDE DEF a, b, c, T, u
<1>6. w \in Seq(T)
      BY <1>4
<1>7. Route(s, w, v)
      BY <1>2, <1>4, <1>5, RouteOn
<1> HIDE DEF w
<1>8. Route(s, w \o <<c>>, q)
      BY <1>2, <1>4, <1>5, <1>6, <1>7, RouteOn
<1> QED BY <1>3, <1>8


LEMMA TextType ==
  ASSUME NEW T, NEW B, NEW f \in [B -> Seq(T)], NEW k \in Seq(B) PROVE TextOf(f, k) \in Seq(T)
<1> DEFINE a == [n \in DOMAIN k |-> f[k[n]]]
<1>1. a \in Seq(Seq(T))
  <2> DEFINE U == Seq(T)
  <2>1. f \in [B -> U]
        OBVIOUS
  <2> HIDE DEF U
  <2>2. a \in Seq(U)
        BY <2>1
  <2> QED BY <2>2 DEF U
<1> HIDE DEF a
<1>2. FlattenSeq(a) \in Seq(T)
      BY <1>1, FlattenType
<1> QED BY <1>2 DEF TextOf, a

LEMMA RouteSettings ==
  ASSUME NEW keys, keys \subseteq Words, NEW s, s # "ROOT",
         \A x \in Settings(keys) : Route(s, SettingText(x), s),
         NEW k \in Seq(Settings(keys))
  PROVE  TextOf(SettingsText(keys), k) \in Seq(Tokens) /\ Route(s, TextOf(SettingsText(keys), k), s)
<1> DEFINE f == SettingsText(keys)
<1>1. f \in [Settings(keys) -> Seq(Tokens)]
      BY SettingsTyped
<1>2. \A x \in Settings(keys) : Route(s, f[x], s)
      BY DEF SettingsText
<1> HIDE DEF f
<1>3. TextOf(f, k) \in Seq(Tokens)
      BY <1>1, TextType
<1>4. Route(s, TextOf(f, k), s)
      BY <1>1, <1>2, RouteBody
<1> QED BY <1>3, <1>4 DEF f

LEMMA WordLeads == ASSUME NEW s, NEW w, NEW q, WordTo(s, w, q) PROVE Arrow(s, <<w>>, q)
BY DEF Arrow, WordArrow

LEMMA RouteHandler ==
  ASSUME NEW e \in HandlerBlocks PROVE Route("SITE_CONTENT", FlatText(e), "SITE_CONTENT")
<1> DEFINE keys == {"type", "index"}
           inner == TextOf(SettingsText(keys), e.body)
<1>1. e.key = "handler" /\ e.value \in Values /\ e.body \in Seq(Settings(keys))
      BY DEF HandlerBlocks
<1>2. keys \subseteq Words
      BY DEF Words
<1>3. FlatText(e) = BlockText(e, inner)
      BY <1>1, <1>2, SettingsTyped
<1>4. ASSUME NEW x \in Settings(keys) PROVE Route("HANDLER_CONTENT", SettingText(x), "HANDLER_CONTENT")
  <2>1. CASE x.key = "type"
    <3>1. /\ KeywordTo("HANDLER_CONTENT", x.key, "TYPE_EQUALS") /\ KeywordTo("TYPE_EQUALS", "=", "TYPE_VALUE")
          /\ ValueTo("TYPE_VALUE", "HANDLER_CONTENT")
          BY <2>1 DEF KeywordTo, ValueTo
    <3> QED BY <3>1, RouteSetting
  <2>2. CASE x.key = "index"
    <3>1. /\ KeywordTo("HANDLER_CONTENT", x.key, "INDEX_EQUALS") /\ KeywordTo("INDEX_EQUALS", "=", "INDEX_VALUE")
          /\ ValueTo("INDEX_VALUE", "HANDLER_CONTENT")
          BY <2>2 DEF KeywordTo, ValueTo
    <3> QED BY <3>1, RouteSetting
  <2>3. x.key = "type" \/ x.key = "index"
        BY DEF Settings
  <2> QED BY <2>1, <2>2, <2>3
<1>5. inner \in Seq(Tokens) /\ Route("HANDLER_CONTENT", inner, "HANDLER_CONTENT")
  <2> HIDE DEF keys
  <2>1. "HANDLER_CONTENT" # "ROOT"
        OBVIOUS
  <2> QED BY <1>1, <1>2, <1>4, <2>1, RouteSettings
<1>6. <<e.key>> \in Tokens /\ e.value \in Tokens /\ e.value # <<>>
      BY <1>1 DEF Tokens, Words, Values
<1>7. /\ Arrow("SITE_CONTENT", <<e.key>>, "HANDLER_VALUE")
      /\ Arrow("HANDLER_BRACKETS_OPEN", <<Opening>>, "HANDLER_CONTENT")
      /\ Arrow("HANDLER_CONTENT", <<Closing>>, "SITE_CONTENT")
  <2>1. /\ WordTo("SITE_CONTENT", e.key, "HANDLER_VALUE")
        /\ WordTo("HANDLER_BRACKETS_OPEN", Opening, "HANDLER_CONTENT")
        /\ WordTo("HANDLER_CONTENT", Closing, "SITE_CONTENT")
        BY <1>1 DEF WordTo, KeywordTo, StartTo
  <2> QED BY <2>1, WordLeads
<1>8. Arrow("HANDLER_VALUE", e.value, "HANDLER_BRACKETS_OPEN")
      BY DEF Arrow, ValueArrow, ValueTo
<1> HIDE DEF inner, keys
<1>9. Route("SITE_CONTENT", BlockText(e, inner), "SITE_CONTENT")
      BY <1>5, <1>6, <1>7, <1>8, BracesAreTokens, RouteValueBlock
<1> QED BY <1>3, <1>9

LEMMA RouteSsl ==
  ASSUME NEW e \in SslBlocks PROVE Route("BIND_CONTENT", FlatText(e), "BIND_CONTENT")
<1> DEFINE keys == {"key", "cert"}
           inner == TextOf(SettingsText(keys), e.body)
<1>1. e.key = "ssl" /\ e.value = <<>> /\ e.body \in Seq(Settings(keys))
      BY DEF SslBlocks
<1>2. keys \subseteq Words
      BY DEF Words
<1>3. FlatText(e) = BlockText(e, inner)
      BY <1>1, <1>2, SettingsTyped
<1>4. ASSUME NEW x \in Settings(keys) PROVE Route("SSL_CONTENT", SettingText(x), "SSL_CONTENT")
  <2>1. CASE x.key = "key"
    <3>1. /\ KeywordTo("SSL_CONTENT", x.key, "SSL_KEY_EQUALS") /\ KeywordTo("SSL_KEY_EQUALS", "=", "SSL_KEY_VALUE")
          /\ ValueTo("SSL_KEY_VALUE", "SSL_CONTENT")
          BY <2>1 DEF KeywordTo, ValueTo
    <3> QED BY <3>1, RouteSetting
  <2>2. CASE x.key = "cert"
    <3>1. /\ KeywordTo("SSL_CONTENT", x.key, "SSL_CERT_EQUALS") /\ KeywordTo("SSL_CERT_EQUALS", "=", "SSL_CERT_VALUE")
          /\ ValueTo("SSL_CERT_VALUE", "SSL_CONTENT")
          BY <2>2 DEF KeywordTo, ValueTo
    <3> QED BY <3>1, RouteSetting
  <2>3. x.key = "key" \/ x.key = "cert"
        BY DEF Settings
  <2> QED BY <2>1, <2>2, <2>3
<1>5. inner \in Seq(Tokens) /\ Route("SSL_CONTENT", inner, "SSL_CONTENT")
  <2> HIDE DEF keys
  <2>1. "SSL_CONTENT" # "ROOT"
        OBVIOUS
  <2> QED BY <1>1, <1>2, <1>4, <2>1, RouteSettings
<1>6. <<e.key>> \in Tokens
      BY <1>1 DEF Tokens, Words
<1>7. /\ Arrow("BIND_CONTENT", <<e.key>>, "SSL_BRACKETS_OPEN")
      /\ Arrow("SSL_BRACKETS_OPEN", <<Opening>>, "SSL_CONTENT")
      /\ Arrow("SSL_CONTENT", <<Closing>>, "BIND_CONTENT")
  <2>1. /\ WordTo("BIND_CONTENT", e.key, "SSL_BRACKETS_OPEN")
        /\ WordTo("SSL_BRACKETS_OPEN", Opening, "SSL_CONTENT")
        /\ WordTo("SSL_CONTENT", Closing, "BIND_CONTENT")
        BY <1>1 DEF WordTo, KeywordTo, StartTo
  <2> QED BY <2>1, WordLeads
<1> HIDE DEF inner, keys
<1>8. Route("BIND_CONTENT", BlockText(e, inner), "BIND_CONTENT")
      BY <1>1, <1>5, <1>6, <1>7, BracesAreTokens, RouteBlock
<1> QED BY <1>3, <1>8

LEMMA RouteLogging ==
  ASSUME NEW e \in LoggingBlocks PROVE Route("ROOT", FlatText(e), "ROOT")
<1> DEFINE keys == {"access", "server", "verbosity"}
           inner == TextOf(SettingsText(keys), e.body)
<1>1. e.key = "logging" /\ e.value = <<>> /\ e.body \in Seq(Settings(keys))
      BY DEF LoggingBlocks
<1>2. keys \subseteq Words
      BY DEF Words
<1>3. FlatText(e) = BlockText(e, inner)
      BY <1>1, <1>2, SettingsTyped
<1>4. ASSUME NEW x \in Settings(keys) PROVE Route("LOGGING_CONTENT", SettingText(x), "LOGGING_CONTENT")
  <2>1. CASE x.key = "access"
    <3>1. /\ KeywordTo("LOGGING_CONTENT", x.key, "LOGGING_ACCESS_FILE_EQUALS")
          /\ KeywordTo("LOGGING_ACCESS_FILE_EQUALS", "=", "LOGGING_ACCESS_FILE_VALUE")
          /\ ValueTo("LOGGING_ACCESS_FILE_VALUE", "LOGGING_CONTENT")
          BY <2>1 DEF KeywordTo, ValueTo
    <3> QED BY <3>1, RouteSetting
  <2>2. CASE x.key = "server"
    <3>1. /\ KeywordTo("LOGGING_CONTENT", x.key, "LOGGING_SERVER_FILE_EQUALS")
          /\ KeywordTo("LOGGING_SERVER_FILE_EQUALS", "=", "LOGGING_SERVER_FILE_VALUE")
          /\ ValueTo("LOGGING_SERVER_FILE_VALUE", "LOGGING_CONTENT")
          BY <2>2 DEF KeywordTo, ValueTo
    <3> QED BY <3>1, RouteSetting
  <2>3. CASE x.key = "verbosity"
    <3>1. /\ KeywordTo("LOGGING_CONTENT", x.key, "LOGGING_SERVER_VERBOSITY_EQUALS")
          /\ KeywordTo("LOGGING_SERVER_VERBOSITY_EQUALS", "=", "LOGGING_SERVER_VERBOSITY_VALUE")
          /\ ValueTo("LOGGING_SERVER_VERBOSITY_VALUE", "LOGGING_CONTENT")
          BY <2>3 DEF KeywordTo, ValueTo
    <3> QED BY <3>1, RouteSetting
  <2>4. x.key \in {"access", "server", "verbosity"}
        BY DEF Settings
  <2> QED BY <2>1, <2>2, <2>3, <2>4
<1>5. inner \in Seq(Tokens) /\ Route("LOGGING_CONTENT", inner, "LOGGING_CONTENT")
  <2> HIDE DEF keys
  <2>1. "LOGGING_CONTENT" # "ROOT"
        OBVIOUS
  <2> QED BY <1>1, <1>2, <1>4, <2>1, RouteSettings
<1>6. <<e.key>> \in Tokens
      BY <1>1 DEF Tokens, Words
<1>7. /\ Arrow("ROOT", <<e.key>>, "LOGGING_BRACKETS_OPEN")
      /\ Arrow("LOGGING_BRACKETS_OPEN", <<Opening>>, "LOGGING_CONTENT")
      /\ Arrow("LOGGING_CONTENT", <<Closing>>, "ROOT")
  <2>1. /\ WordTo("ROOT", e.key, "LOGGING_BRACKETS_OPEN")
        /\ WordTo("LOGGING_BRACKETS_OPEN", Opening, "LOGGING_CONTENT")
        /\ WordTo("LOGGING_CONTENT", Closing, "ROOT")
        BY <1>1 DEF WordTo, KeywordTo, StartTo
  <2> QED BY <2>1, WordLeads
<1> HIDE DEF inner, keys
<1>8. Route("ROOT", BlockText(e, inner), "ROOT")
      BY <1>1, <1>5, <1>6, <1>7, BracesAreTokens, RouteBlock
<1> QED BY <1>3, <1>8

\* What stands in a site, and in a bind.
LEMMA InnerTexts ==
  /\ \A x \in SiteEntries : InSiteText(x) \in Seq(Tokens)
  /\ \A v \in Values : \A x \in BindEntries : InBindText(x) \in Seq(Tokens)
<1> DEFINE c == ConfigFrom(<<>>, <<>>)
<1>1. c \in ConfigSet
  <2>1. <<>> \in Seq(BindConfigs) /\ <<>> \in Seq(LoggingSettings)
        OBVIOUS
  <2> QED BY <2>1, ConfigFromType
<1>2. FreshBind \in BindConfigs
  <2>1. <<>> \in Seq(SiteConfigs)
        OBVIOUS
  <2>2. NULL \in Addresses
        BY DEF Addresses
  <2> QED BY <2>1, <2>2 DEF FreshBind, BindConfigs
<1>3. <<>> \in Seq(SiteEntries) /\ <<>> \in Seq(BindEntries)
      OBVIOUS
<1>4. TypedSite(<<>>)
      BY ForNone DEF TypedSite
<1>5. TypedBind(<<>>)
  <2>1. Len(With(<<>>, {"ssl"})) <= 1
        BY WithNone
  <2> QED BY <2>1, ForNone DEF TypedBind
<1> HIDE DEF c
<1>6. \A x \in SiteEntries : InSiteText(x) \in Seq(Tokens)
      BY <1>1, <1>2, <1>3, <1>4, LeadsSiteEntry
<1>7. \A v \in Values : \A x \in BindEntries : InBindText(x) \in Seq(Tokens)
      BY <1>1, <1>3, <1>5, LeadsBindEntry
<1> QED BY <1>6, <1>7

LEMMA RouteSite ==
  ASSUME NEW e \in SiteBlocks PROVE Route("BIND_CONTENT", SiteText(e), "BIND_CONTENT")
<1> DEFINE f == [x \in SiteEntries |-> InSiteText(x)]
           inner == TextOf(f, e.body)
<1>1. e.key = "site" /\ e.value = <<>> /\ e.body \in Seq(SiteEntries)
      BY DEF SiteBlocks, SiteEntries, SiteSettings
<1>2. f \in [SiteEntries -> Seq(Tokens)]
  <2>1. ASSUME NEW x \in SiteEntries PROVE InSiteText(x) \in Seq(Tokens)
        BY InnerTexts
  <2> QED BY <2>1
<1>3. SiteText(e) = BlockText(e, inner)
  <2>1. [n \in DOMAIN e.body |-> InSiteText(e.body[n])] = [n \in DOMAIN e.body |-> f[e.body[n]]]
        BY <1>1
  <2> HIDE DEF f
  <2> QED BY <2>1 DEF SiteText, TextOf
<1>4. ASSUME NEW x \in SiteEntries PROVE Route("SITE_CONTENT", f[x], "SITE_CONTENT")
  <2>0. f[x] = InSiteText(x)
        OBVIOUS
  <2> HIDE DEF f
  <2>1. CASE x.key = "handler"
    <3>1. x \in HandlerBlocks /\ InSiteText(x) = FlatText(x)
          BY <2>1, SiteEntryIs DEF InSiteText
    <3> QED BY <2>0, <3>1, RouteHandler
  <2>2. CASE x.key \in {"hostname", "alias"}
    <3>1. /\ KeywordTo("SITE_CONTENT", x.key, "SITE_HOST_EQUALS") /\ KeywordTo("SITE_HOST_EQUALS", "=", "SITE_HOST_VALUE")
          /\ ValueTo("SITE_HOST_VALUE", "SITE_CONTENT")
          BY <2>2 DEF KeywordTo, ValueTo
    <3>2. InSiteText(x) = SettingText(x)
          BY <2>2 DEF InSiteText
    <3> QED BY <2>0, <3>1, <3>2, RouteSetting
  <2>3. CASE x.key = "root"
    <3>1. /\ KeywordTo("SITE_CONTENT", x.key, "SITE_ROOT_EQUALS") /\ KeywordTo("SITE_ROOT_EQUALS", "=", "SITE_ROOT_VALUE")
          /\ ValueTo("SITE_ROOT_VALUE", "SITE_CONTENT")
          BY <2>3 DEF KeywordTo, ValueTo
    <3>2. InSiteText(x) = SettingText(x)
          BY <2>3 DEF InSiteText
    <3> QED BY <2>0, <3>1, <3>2, RouteSetting
  <2>4. x.key \in {"handler", "hostname", "alias", "root"}
        BY SiteEntryIs
  <2> QED BY <2>1, <2>2, <2>3, <2>4
<1> HIDE DEF f
<1>5. inner \in Seq(Tokens) /\ Route("SITE_CONTENT", inner, "SITE_CONTENT")
  <2>1. inner \in Seq(Tokens)
        BY <1>1, <1>2, TextType
  <2>2. "SITE_CONTENT" # "ROOT"
        OBVIOUS
  <2> QED BY <1>1, <1>2, <1>4, <2>1, <2>2, RouteBody
<1>6. <<e.key>> \in Tokens
      BY <1>1 DEF Tokens, Words
<1>7. /\ Arrow("BIND_CONTENT", <<e.key>>, "SITE_BRACKETS_OPEN")
      /\ Arrow("SITE_BRACKETS_OPEN", <<Opening>>, "SITE_CONTENT")
      /\ Arrow("SITE_CONTENT", <<Closing>>, "BIND_CONTENT")
  <2>1. /\ WordTo("BIND_CONTENT", e.key, "SITE_BRACKETS_OPEN")
        /\ WordTo("SITE_BRACKETS_OPEN", Opening, "SITE_CONTENT")
        /\ WordTo("SITE_CONTENT", Closing, "BIND_CONTENT")
        BY <1>1 DEF WordTo, KeywordTo, StartTo
  <2> QED BY <2>1, WordLeads
<1> HIDE DEF inner
<1>8. Route("BIND_CONTENT", BlockText(e, inner), "BIND_CONTENT")
      BY <1>1, <1>5, <1>6, <1>7, BracesAreTokens, RouteBlock
<1> QED BY <1>3, <1>8

LEMMA RouteBind ==
  ASSUME NEW e \in BindBlocks PROVE Route("ROOT", BindText(e), "ROOT")
<1> DEFINE f == [x \in BindEntries |-> InBindText(x)]
           inner == TextOf(f, e.body)
<1>1. /\ e.key = "bind" /\ e.value \in Values /\ e.value # <<"logging">>
      /\ e.body \in Seq(BindEntries)
      BY DEF BindBlocks, BindEntries
<1>2. f \in [BindEntries -> Seq(Tokens)]
  <2>1. ASSUME NEW x \in BindEntries PROVE InBindText(x) \in Seq(Tokens)
        BY <1>1, InnerTexts
  <2> QED BY <2>1
<1>3. BindText(e) = BlockText(e, inner)
  <2>1. [n \in DOMAIN e.body |-> InBindText(e.body[n])] = [n \in DOMAIN e.body |-> f[e.body[n]]]
        BY <1>1
  <2> HIDE DEF f
  <2> QED BY <2>1 DEF BindText, TextOf
<1>4. ASSUME NEW x \in BindEntries PROVE Route("BIND_CONTENT", f[x], "BIND_CONTENT")
  <2>0. f[x] = InBindText(x)
        OBVIOUS
  <2> HIDE DEF f
  <2>1. CASE x.key = "site"
    <3>1. x \in SiteBlocks /\ InBindText(x) = SiteText(x)
          BY <2>1, BindEntryIs DEF InBindText
    <3> QED BY <2>0, <3>1, RouteSite
  <2>2. CASE x.key = "ssl"
    <3>1. x \in SslBlocks /\ InBindText(x) = FlatText(x)
          BY <2>2, BindEntryIs DEF InBindText
    <3> QED BY <2>0, <3>1, RouteSsl
  <2>3. x.key \in {"site", "ssl"}
        BY BindEntryIs
  <2> QED BY <2>1, <2>2, <2>3
<1> HIDE DEF f
<1>5. inner \in Seq(Tokens) /\ Route("BIND_CONTENT", inner, "BIND_CONTENT")
  <2>1. inner \in Seq(Tokens)
        BY <1>1, <1>2, TextType
  <2>2. "BIND_CONTENT" # "ROOT"
        OBVIOUS
  <2> QED BY <1>1, <1>2, <1>4, <2>1, <2>2, RouteBody
<1>6. <<e.key>> \in Tokens /\ e.value \in Tokens /\ e.value # <<>>
      BY <1>1 DEF Tokens, Words, Values
<1>7. /\ Arrow("ROOT", <<e.key>>, "BIND_VALUE")
      /\ Arrow("BIND_BRACKETS_OPEN", <<Opening>>, "BIND_CONTENT")
      /\ Arrow("BIND_CONTENT", <<Closing>>, "ROOT")
  <2>1. /\ WordTo("ROOT", e.key, "BIND_VALUE")
        /\ WordTo("BIND_BRACKETS_OPEN", Opening, "BIND_CONTENT")
        /\ WordTo("BIND_CONTENT", Closing, "ROOT")
        BY <1>1 DEF WordTo, KeywordTo, StartTo
  <2> QED BY <2>1, WordLeads
<1>8. Arrow("BIND_VALUE", e.value, "BIND_BRACKETS_OPEN")
      BY <1>1 DEF Arrow, ValueArrow, ValueTo
<1> HIDE DEF inner
<1>9. Route("ROOT", BlockText(e, inner), "ROOT")
      BY <1>5, <1>6, <1>7, <1>8, BracesAreTokens, RouteValueBlock
<1> QED BY <1>3, <1>9

LEMMA RouteEntry ==
  ASSUME NEW e \in Entries PROVE Route("ROOT", EntryText(e), "ROOT")
<1>1. CASE e.key = "bind"
      BY <1>1, EntryIs, RouteBind DEF EntryText
<1>2. CASE e.key # "bind"
      BY <1>2, EntryIs, RouteLogging DEF EntryText
<1> QED BY <1>1, <1>2

-----------------------------------------------------------------------------
(* The way through a whole plan: the parser is at the end of an entry      *)
(* exactly where one ends.                                                 *)

Way(es, st) ==
  /\ st[0] = "ROOT" /\ st[Len(Printed(es))] = "ROOT"
  /\ \A n \in 1..Len(Printed(es)) : Arrow(st[n - 1], Printed(es)[n], st[n])
  /\ \A n \in 0..Len(Printed(es)) : st[n] = "ROOT" =>
       \E m \in 0..Len(es) : SubSeq(Printed(es), 1, n) = Printed(SubSeq(es, 1, m))

LEMMA PrintedNone == Printed(<<>>) = <<>>
<1>1. [n \in DOMAIN <<>> |-> EntryText(<<>>[n])] = <<>>
      OBVIOUS
<1> QED BY <1>1, FlattenEmpty DEF Printed

LEMMA EntryTyped == ASSUME NEW x \in Entries PROVE EntryText(x) \in Seq(Tokens)
<1>1. <<>> \in Seq(Entries) /\ TypedPlan(<<>>)
  <2>1. TypedPlan(<<>>)
        BY ForNone DEF TypedPlan
  <2> QED BY <2>1
<1> QED BY <1>1, LeadsEntry

LEMMA PrintedNext ==
  ASSUME NEW k \in Seq(Entries), NEW x \in Entries
  PROVE  Printed(k) \in Seq(Tokens) /\ Printed(Append(k, x)) = Printed(k) \o EntryText(x)
<1> DEFINE f == [y \in Entries |-> EntryText(y)]
<1>1. f \in [Entries -> Seq(Tokens)]
      BY EntryTyped
<1>2. \A es \in Seq(Entries) : Printed(es) = TextOf(f, es)
  <2>1. ASSUME NEW es \in Seq(Entries) PROVE Printed(es) = TextOf(f, es)
    <3>1. [n \in DOMAIN es |-> EntryText(es[n])] = [n \in DOMAIN es |-> f[es[n]]]
          OBVIOUS
    <3> HIDE DEF f
    <3> QED BY <3>1 DEF Printed, TextOf
  <2> QED BY <2>1
<1>3. f[x] = EntryText(x) /\ Append(k, x) \in Seq(Entries)
      OBVIOUS
<1> HIDE DEF f
<1>4. TextOf(f, Append(k, x)) = TextOf(f, k) \o f[x] /\ TextOf(f, k) \in Seq(Tokens)
      BY <1>1, TextNext
<1> QED BY <1>2, <1>3, <1>4

LEMMA PartOfBoth ==
  ASSUME NEW T, NEW x \in Seq(T), NEW y \in Seq(T), NEW n \in 0..Len(x)
  PROVE  SubSeq(x \o y, 1, n) = SubSeq(x, 1, n)
OBVIOUS

LEMMA WayNext ==
  ASSUME NEW k \in Seq(Entries), NEW x \in Entries, NEW f, Way(k, f)
  PROVE  \E st : Way(Append(k, x), st)
<1> DEFINE t == EntryText(x)
           es == Append(k, x)
           p == Printed(k)
           z == p \o t
<1>1. /\ p \in Seq(Tokens) /\ t \in Seq(Tokens) /\ Printed(es) = z
      BY EntryTyped, PrintedNext
<1>2. PICK g : /\ g[0] = "ROOT" /\ g[Len(t)] = "ROOT"
               /\ \A n \in 1..Len(t) : Arrow(g[n - 1], t[n], g[n])
               /\ \A n \in 1..(Len(t) - 1) : g[n] # "ROOT"
      BY RouteEntry DEF Route
<1> DEFINE st == [n \in 0..Len(z) |-> IF n <= Len(p) THEN f[n] ELSE g[n - Len(p)]]
<1> HIDE DEF t, p
<1>3. /\ Len(p) \in Nat /\ Len(t) \in Nat /\ Len(z) = Len(p) + Len(t) /\ z \in Seq(Tokens)
      /\ \A n \in 1..Len(z) : z[n] = IF n <= Len(p) THEN p[n] ELSE t[n - Len(p)]
      BY <1>1
<1>4. /\ f[0] = "ROOT" /\ f[Len(p)] = "ROOT"
      /\ \A n \in 1..Len(p) : Arrow(f[n - 1], p[n], f[n])
      /\ \A n \in 0..Len(p) : f[n] = "ROOT" =>
           \E m \in 0..Len(k) : SubSeq(p, 1, n) = Printed(SubSeq(k, 1, m))
      BY DEF Way, p
<1>5. \A n \in 0..Len(p) : SubSeq(z, 1, n) = SubSeq(p, 1, n)
      BY <1>1, PartOfBoth
<1>6. /\ es \in Seq(Entries) /\ Len(k) \in Nat /\ Len(es) = Len(k) + 1
      /\ \A m \in 0..Len(k) : SubSeq(es, 1, m) = SubSeq(k, 1, m)
      /\ SubSeq(es, 1, Len(es)) = es
      OBVIOUS
<1>7. SubSeq(z, 1, Len(z)) = z
      BY <1>3
<1> HIDE DEF z, es
<1>8. st[0] = "ROOT" /\ st[Len(z)] = "ROOT"
      BY <1>2, <1>3, <1>4
<1>9. ASSUME NEW n \in 1..Len(z) PROVE Arrow(st[n - 1], z[n], st[n])
  <2>1. CASE n <= Len(p)
    <3>1. st[n] = f[n] /\ st[n - 1] = f[n - 1] /\ n \in 1..Len(p) /\ z[n] = p[n]
          BY <1>3, <2>1
    <3> HIDE DEF st
    <3> QED BY <1>4, <3>1
  <2>2. CASE n = Len(p) + 1
    <3>1. st[n] = g[1] /\ st[n - 1] = f[Len(p)] /\ 1 \in 1..Len(t) /\ z[n] = t[1] /\ 1 - 1 = 0
          BY <1>3, <2>2
    <3> HIDE DEF st
    <3>2. Arrow(g[0], t[1], g[1])
          BY <1>2, <3>1
    <3> QED BY <1>2, <1>4, <3>1, <3>2
  <2>3. CASE n > Len(p) + 1
    <3> DEFINE j == n - Len(p)
    <3>0. j \in 1..Len(t) /\ ~(n <= Len(p)) /\ ~(n - 1 <= Len(p)) /\ (n - 1) - Len(p) = j - 1
          BY <1>3, <2>3
    <3>1. j \in 1..Len(t) /\ st[n] = g[j] /\ st[n - 1] = g[j - 1] /\ z[n] = t[j]
          BY <1>3, <3>0
    <3> HIDE DEF st, j
    <3> QED BY <1>2, <3>1
  <2>4. n <= Len(p) \/ n = Len(p) + 1 \/ n > Len(p) + 1
    <3>1. n \in Int /\ Len(p) \in Int
          BY <1>3
    <3> QED BY <3>1
  <2> QED BY <2>1, <2>2, <2>3, <2>4
<1>10. ASSUME NEW n \in 0..Len(z), st[n] = "ROOT"
       PROVE  \E m \in 0..Len(es) : SubSeq(z, 1, n) = Printed(SubSeq(es, 1, m))
  <2>1. CASE n <= Len(p)
    <3>1. n \in 0..Len(p) /\ st[n] = f[n]
          BY <1>3, <2>1
    <3> HIDE DEF st
    <3>2. PICK m \in 0..Len(k) : SubSeq(p, 1, n) = Printed(SubSeq(k, 1, m))
          BY <1>4, <1>10, <3>1
    <3>3. m \in 0..Len(es)
          BY <1>6, <3>2
    <3>4. SubSeq(es, 1, m) = SubSeq(k, 1, m)
          BY <1>6
    <3>5. SubSeq(z, 1, n) = SubSeq(p, 1, n)
          BY <1>5, <3>1
    <3>6. SubSeq(z, 1, n) = Printed(SubSeq(es, 1, m))
          BY <3>2, <3>4, <3>5
    <3> QED BY <3>3, <3>6
  <2>2. CASE n > Len(p)
    <3>1. st[n] = g[n - Len(p)] /\ n - Len(p) \in 1..Len(t)
          BY <1>3, <2>2
    <3>2. ~(n - Len(p) \in 1..(Len(t) - 1))
          BY <1>2, <1>10, <3>1
    <3>3. n = Len(z)
      <4>1. n \in Int /\ Len(p) \in Int /\ Len(t) \in Int /\ n <= Len(z) /\ n > Len(p)
            BY <1>3, <2>2
      <4>2. n - Len(p) > Len(t) - 1
            BY <3>1, <3>2, <4>1
      <4>3. Len(z) = Len(p) + Len(t)
            BY <1>3
      <4> QED BY <4>1, <4>2, <4>3
    <3>4. SubSeq(z, 1, n) = Printed(es)
          BY <1>1, <1>7, <3>3
    <3>5. Len(es) \in 0..Len(es)
          BY <1>6
    <3>6. SubSeq(z, 1, n) = Printed(SubSeq(es, 1, Len(es)))
          BY <1>6, <3>4
    <3> QED BY <3>5, <3>6
  <2>3. n <= Len(p) \/ n > Len(p)
    <3>1. n \in Int /\ Len(p) \in Int
          BY <1>3
    <3> QED BY <3>1
  <2> QED BY <2>1, <2>2, <2>3
<1> HIDE DEF st
<1>11. Way(es, st)
      BY <1>1, <1>8, <1>9, <1>10 DEF Way
<1> QED BY <1>11 DEF es

LEMMA PlanWay == ASSUME NEW es \in Seq(Entries) PROVE \E st : Way(es, st)
<1> DEFINE S == {k \in Seq(Entries) : \E st : Way(k, st)}
<1>1. <<>> \in S
  <2> DEFINE st == [n \in {0} |-> "ROOT"]
  <2>1. st[0] = "ROOT" /\ Len(<<>>) = 0 /\ 1..0 = {} /\ 0..0 = {0}
        OBVIOUS
  <2>2. SubSeq(<<>>, 1, 0) = <<>> /\ <<>> \in Seq(Entries)
        OBVIOUS
  <2> HIDE DEF st
  <2>3. Way(<<>>, st)
        BY <2>1, <2>2, PrintedNone DEF Way
  <2>4. \E g : Way(<<>>, g)
        BY <2>3
  <2> QED BY <2>2, <2>4, Zenon
<1>2. ASSUME NEW k \in Seq(Entries), k \in S, NEW x \in Entries PROVE Append(k, x) \in S
  <2>1. \E st : Way(Append(k, x), st)
        BY <1>2, WayNext
  <2>2. Append(k, x) \in Seq(Entries)
        OBVIOUS
  <2> QED BY <2>1, <2>2, Zenon
<1> HIDE DEF S
<1>3. \A k \in Seq(Entries) : k \in S
      BY <1>1, <1>2, InductSequence
<1> QED BY <1>3 DEF S

-----------------------------------------------------------------------------
(* The steps of the parser are those of the function.                      *)

LEMMA UnderstoodIs ==
  ASSUME Understood
  PROVE  /\ Reading /\ read' = read + 1 /\ UNCHANGED <<input, phase, logger, failed, ended>>
         /\ At(state', config') = Step(At(state, config), currentToken)
         /\ state' # "REJECTED"
<1> DEFINE c == config
           t == currentToken
<1>1. CASE Keyword
  <2>1. PICK k \in Keywords : Word(k[1], k[2]) /\ Becomes(k[3], config)
        BY <1>1 DEF Keyword
  <2>2. KeywordTo(k[1], k[2], k[3])
        BY <2>1, KeywordsAre
  <2>3. /\ Reading /\ state = k[1] /\ t = <<k[2]>> /\ Fits(t)
        BY <2>1 DEF Word, Token, Fits
  <2>4. state' = k[3] /\ config' = config /\ read' = read + 1 /\ UNCHANGED <<input, phase, logger, failed, ended>>
        BY <2>1 DEF Becomes
  <2>5. Step(At(state, config), t) = At(k[3], config)
    <3> HIDE DEF t
    <3> QED BY <2>2, <2>3, StepKeyword
  <2>6. k[3] # "REJECTED"
        BY <2>2 DEF KeywordTo
  <2> QED BY <2>3, <2>4, <2>5, <2>6
<1>2. CASE NewBind
  <2>1. Reading /\ state = "ROOT" /\ t = <<"bind">> /\ Fits(t)
        BY <1>2 DEF NewBind, Word, Token, Fits
  <2>2. /\ state' = "BIND_VALUE" /\ config' = [c EXCEPT !.binds = Append(@, FreshBind)]
        /\ read' = read + 1 /\ UNCHANGED <<input, phase, logger, failed, ended>>
        BY <1>2 DEF NewBind, Becomes, FreshBind
  <2>3. Step(At(state, config), t) = At("BIND_VALUE", [c EXCEPT !.binds = Append(@, FreshBind)])
    <3> HIDE DEF t, c
    <3> QED BY <2>1, StepStart DEF c
  <2> QED BY <2>1, <2>2, <2>3
<1>3. CASE BindValue
  <2>1. Reading /\ state = "BIND_VALUE" /\ Fits(t) /\ Contains(t, ":")
        BY <1>3 DEF BindValue, HasAddress, Token, Fits
  <2>2. /\ state' = "BIND_BRACKETS_OPEN"
        /\ config' = SetBind(c, [LastBind(c) EXCEPT !.addr = Address(t), !.port = Port(t)])
        /\ read' = read + 1 /\ UNCHANGED <<input, phase, logger, failed, ended>>
        BY <1>3 DEF BindValue, Becomes, InBind, SetBind, currentBind, LastBind
  <2>3. TakesValue(state)
        BY <2>1 DEF TakesValue, ValueTo
  <2>4. AfterValue(state, c, t) = At(state', config')
    <3> HIDE DEF t, c
    <3> QED BY <2>1, <2>2 DEF AfterValue
  <2>5. Step(At(state, config), t) = At(state', config')
    <3> HIDE DEF t
    <3> QED BY <2>1, <2>3, <2>4, StepValue
  <2> QED BY <2>1, <2>2, <2>5
<1>4. CASE NewSsl
  <2>1. Reading /\ state = "BIND_CONTENT" /\ t = <<"ssl">> /\ Fits(t) /\ LastBind(c).ssl = NULL
        BY <1>4 DEF NewSsl, FirstSsl, Word, Token, Fits, currentBind, LastBind
  <2>2. /\ state' = "SSL_BRACKETS_OPEN" /\ config' = SetBind(c, [LastBind(c) EXCEPT !.ssl = FreshSsl])
        /\ read' = read + 1 /\ UNCHANGED <<input, phase, logger, failed, ended>>
        BY <1>4 DEF NewSsl, Becomes, FreshSsl, InBind, SetBind, currentBind, LastBind
  <2>3. Step(At(state, config), t) = At("SSL_BRACKETS_OPEN", SetBind(c, [LastBind(c) EXCEPT !.ssl = FreshSsl]))
    <3> HIDE DEF t, c
    <3> QED BY <2>1, StepStart DEF c
  <2> QED BY <2>1, <2>2, <2>3
<1>5. CASE SslKey
  <2>1. Reading /\ state = "SSL_KEY_VALUE" /\ Fits(t)
        BY <1>5 DEF SslKey, Token, Fits
  <2>2. /\ state' = "SSL_CONTENT" /\ config' = SetBind(c, [LastBind(c) EXCEPT !.ssl.privateKey = t])
        /\ read' = read + 1 /\ UNCHANGED <<input, phase, logger, failed, ended>>
        BY <1>5 DEF SslKey, Becomes, InBind, SetBind, currentBind, LastBind
  <2>3. TakesValue(state)
        BY <2>1 DEF TakesValue, ValueTo
  <2>4. AfterValue(state, c, t) = At(state', config')
    <3> HIDE DEF t, c
    <3> QED BY <2>1, <2>2 DEF AfterValue
  <2>5. Step(At(state, config), t) = At(state', config')
    <3> HIDE DEF t
    <3> QED BY <2>1, <2>3, <2>4, StepValue
  <2> QED BY <2>1, <2>2, <2>5
<1>6. CASE SslCert
  <2>1. Reading /\ state = "SSL_CERT_VALUE" /\ Fits(t)
        BY <1>6 DEF SslCert, Token, Fits
  <2>2. /\ state' = "SSL_CONTENT" /\ config' = SetBind(c, [LastBind(c) EXCEPT !.ssl.certificate = t])
        /\ read' = read + 1 /\ UNCHANGED <<input, phase, logger, failed, ended>>
        BY <1>6 DEF SslCert, Becomes, InBind, SetBind, currentBind, LastBind
  <2>3. TakesValue(state)
        BY <2>1 DEF TakesValue, ValueTo
  <2>4. AfterValue(state, c, t) = At(state', config')
    <3> HIDE DEF t, c
    <3> QED BY <2>1, <2>2 DEF AfterValue
  <2>5. Step(At(state, config), t) = At(state', config')
    <3> HIDE DEF t
    <3> QED BY <2>1, <2>3, <2>4, StepValue
  <2> QED BY <2>1, <2>2, <2>5
<1>7. CASE NewSite
  <2>1. Reading /\ state = "BIND_CONTENT" /\ t = <<"site">> /\ Fits(t)
        BY <1>7 DEF NewSite, Word, Token, Fits
  <2>2. /\ state' = "SITE_BRACKETS_OPEN"
        /\ config' = SetBind(c, [LastBind(c) EXCEPT !.sites = Append(@, FreshSite)])
        /\ read' = read + 1 /\ UNCHANGED <<input, phase, logger, failed, ended>>
        BY <1>7 DEF NewSite, Becomes, FreshSite, InBind, SetBind, currentBind, LastBind
  <2>3. Step(At(state, config), t) =
          At("SITE_BRACKETS_OPEN", SetBind(c, [LastBind(c) EXCEPT !.sites = Append(@, FreshSite)]))
    <3> HIDE DEF t, c
    <3> QED BY <2>1, StepStart DEF c
  <2> QED BY <2>1, <2>2, <2>3
<1>8. CASE SiteHost
  <2>1. Reading /\ state = "SITE_HOST_VALUE" /\ Fits(t)
        BY <1>8 DEF SiteHost, Token, Fits
  <2>2. /\ state' = "SITE_CONTENT" /\ config' = SetSite(c, [LastSite(c) EXCEPT !.hostnames = Append(@, t)])
        /\ read' = read + 1 /\ UNCHANGED <<input, phase, logger, failed, ended>>
        BY <1>8 DEF SiteHost, Becomes, InSite, SetSite, InBind, SetBind, currentBind, LastBind, currentSite, LastSite
  <2>3. TakesValue(state)
        BY <2>1 DEF TakesValue, ValueTo
  <2>4. AfterValue(state, c, t) = At(state', config')
    <3> HIDE DEF t, c
    <3> QED BY <2>1, <2>2 DEF AfterValue
  <2>5. Step(At(state, config), t) = At(state', config')
    <3> HIDE DEF t
    <3> QED BY <2>1, <2>3, <2>4, StepValue
  <2> QED BY <2>1, <2>2, <2>5
<1>9. CASE SiteRoot
  <2>1. Reading /\ state = "SITE_ROOT_VALUE" /\ Fits(t)
        BY <1>9 DEF SiteRoot, Token, Fits
  <2>2. /\ state' = "SITE_CONTENT" /\ config' = SetSite(c, [LastSite(c) EXCEPT !.documentRoot = t])
        /\ read' = read + 1 /\ UNCHANGED <<input, phase, logger, failed, ended>>
        BY <1>9 DEF SiteRoot, Becomes, InSite, SetSite, InBind, SetBind, currentBind, LastBind, currentSite, LastSite
  <2>3. TakesValue(state)
        BY <2>1 DEF TakesValue, ValueTo
  <2>4. AfterValue(state, c, t) = At(state', config')
    <3> HIDE DEF t, c
    <3> QED BY <2>1, <2>2 DEF AfterValue
  <2>5. Step(At(state, config), t) = At(state', config')
    <3> HIDE DEF t
    <3> QED BY <2>1, <2>3, <2>4, StepValue
  <2> QED BY <2>1, <2>2, <2>5
<1>10. CASE NewHandler
  <2>1. Reading /\ state = "SITE_CONTENT" /\ t = <<"handler">> /\ Fits(t)
        BY <1>10 DEF NewHandler, Word, Token, Fits
  <2>2. /\ state' = "HANDLER_VALUE"
        /\ config' = SetSite(c, [LastSite(c) EXCEPT !.handlers = Append(@, FreshHandler)])
        /\ read' = read + 1 /\ UNCHANGED <<input, phase, logger, failed, ended>>
        BY <1>10 DEF NewHandler, Becomes, FreshHandler, InSite, SetSite, InBind, SetBind,
                     currentBind, LastBind, currentSite, LastSite
  <2>3. Step(At(state, config), t) =
          At("HANDLER_VALUE", SetSite(c, [LastSite(c) EXCEPT !.handlers = Append(@, FreshHandler)]))
    <3> HIDE DEF t, c
    <3> QED BY <2>1, StepStart DEF c
  <2> QED BY <2>1, <2>2, <2>3
<1>11. CASE HandlerDir
  <2>1. Reading /\ state = "HANDLER_VALUE" /\ Fits(t)
        BY <1>11 DEF HandlerDir, Token, Fits
  <2>2. /\ state' = "HANDLER_BRACKETS_OPEN" /\ config' = SetHandler(c, [LastHandler(c) EXCEPT !.dir = t])
        /\ read' = read + 1 /\ UNCHANGED <<input, phase, logger, failed, ended>>
        BY <1>11 DEF HandlerDir, Becomes, InHandler, SetHandler, InSite, SetSite, InBind, SetBind,
                     currentBind, LastBind, currentSite, LastSite, currentHandler, LastHandler
  <2>3. TakesValue(state)
        BY <2>1 DEF TakesValue, ValueTo
  <2>4. AfterValue(state, c, t) = At(state', config')
    <3> HIDE DEF t, c
    <3> QED BY <2>1, <2>2 DEF AfterValue
  <2>5. Step(At(state, config), t) = At(state', config')
    <3> HIDE DEF t
    <3> QED BY <2>1, <2>3, <2>4, StepValue
  <2> QED BY <2>1, <2>2, <2>5
<1>12. CASE Type
  <2>1. Reading /\ state = "TYPE_VALUE" /\ Fits(t) /\ t \in Types
        BY <1>12 DEF Type, IsType, Token, Fits
  <2>2. /\ state' = "HANDLER_CONTENT" /\ config' = SetHandler(c, [LastHandler(c) EXCEPT !.type = t])
        /\ read' = read + 1 /\ UNCHANGED <<input, phase, logger, failed, ended>>
        BY <1>12 DEF Type, Becomes, InHandler, SetHandler, InSite, SetSite, InBind, SetBind,
                     currentBind, LastBind, currentSite, LastSite, currentHandler, LastHandler
  <2>3. TakesValue(state)
        BY <2>1 DEF TakesValue, ValueTo
  <2>4. AfterValue(state, c, t) = At(state', config')
    <3> HIDE DEF t, c
    <3> QED BY <2>1, <2>2 DEF AfterValue
  <2>5. Step(At(state, config), t) = At(state', config')
    <3> HIDE DEF t
    <3> QED BY <2>1, <2>3, <2>4, StepValue
  <2> QED BY <2>1, <2>2, <2>5
<1>13. CASE Index
  <2>1. Reading /\ state = "INDEX_VALUE" /\ Fits(t) /\ LastHandler(c).type = <<"file">>
        BY <1>13 DEF Index, OfFiles, Token, Fits, currentBind, LastBind, currentSite, LastSite,
                     currentHandler, LastHandler
  <2>2. /\ state' = "HANDLER_CONTENT"
        /\ config' = SetHandler(c, [LastHandler(c) EXCEPT !.indexfiles = Append(@, t)])
        /\ read' = read + 1 /\ UNCHANGED <<input, phase, logger, failed, ended>>
        BY <1>13 DEF Index, Becomes, InHandler, SetHandler, InSite, SetSite, InBind, SetBind,
                     currentBind, LastBind, currentSite, LastSite, currentHandler, LastHandler
  <2>3. TakesValue(state)
        BY <2>1 DEF TakesValue, ValueTo
  <2>4. AfterValue(state, c, t) = At(state', config')
    <3> HIDE DEF t, c
    <3> QED BY <2>1, <2>2 DEF AfterValue
  <2>5. Step(At(state, config), t) = At(state', config')
    <3> HIDE DEF t
    <3> QED BY <2>1, <2>3, <2>4, StepValue
  <2> QED BY <2>1, <2>2, <2>5
<1>14. CASE AccessFile
  <2>1. Reading /\ state = "LOGGING_ACCESS_FILE_VALUE" /\ Fits(t)
        BY <1>14 DEF AccessFile, Token, Fits
  <2>2. /\ state' = "LOGGING_CONTENT" /\ config' = [c EXCEPT !.accessLogfile = t]
        /\ read' = read + 1 /\ UNCHANGED <<input, phase, logger, failed, ended>>
        BY <1>14 DEF AccessFile, Becomes
  <2>3. TakesValue(state)
        BY <2>1 DEF TakesValue, ValueTo
  <2>4. AfterValue(state, c, t) = At(state', config')
    <3> HIDE DEF t, c
    <3> QED BY <2>1, <2>2 DEF AfterValue
  <2>5. Step(At(state, config), t) = At(state', config')
    <3> HIDE DEF t
    <3> QED BY <2>1, <2>3, <2>4, StepValue
  <2> QED BY <2>1, <2>2, <2>5
<1>15. CASE ServerFile
  <2>1. Reading /\ state = "LOGGING_SERVER_FILE_VALUE" /\ Fits(t)
        BY <1>15 DEF ServerFile, Token, Fits
  <2>2. /\ state' = "LOGGING_CONTENT" /\ config' = [c EXCEPT !.serverLogfile = t]
        /\ read' = read + 1 /\ UNCHANGED <<input, phase, logger, failed, ended>>
        BY <1>15 DEF ServerFile, Becomes
  <2>3. TakesValue(state)
        BY <2>1 DEF TakesValue, ValueTo
  <2>4. AfterValue(state, c, t) = At(state', config')
    <3> HIDE DEF t, c
    <3> QED BY <2>1, <2>2 DEF AfterValue
  <2>5. Step(At(state, config), t) = At(state', config')
    <3> HIDE DEF t
    <3> QED BY <2>1, <2>3, <2>4, StepValue
  <2> QED BY <2>1, <2>2, <2>5
<1>16. CASE Verbosity
  <2>1. Reading /\ state = "LOGGING_SERVER_VERBOSITY_VALUE" /\ Fits(t) /\ t \in Levels
        BY <1>16 DEF Verbosity, IsLevel, Token, Fits
  <2>2. /\ state' = "LOGGING_CONTENT" /\ config' = [c EXCEPT !.serverVerbosity = t]
        /\ read' = read + 1 /\ UNCHANGED <<input, phase, logger, failed, ended>>
        BY <1>16 DEF Verbosity, Becomes
  <2>3. TakesValue(state)
        BY <2>1 DEF TakesValue, ValueTo
  <2>4. AfterValue(state, c, t) = At(state', config')
    <3> HIDE DEF t, c
    <3> QED BY <2>1, <2>2 DEF AfterValue
  <2>5. Step(At(state, config), t) = At(state', config')
    <3> HIDE DEF t
    <3> QED BY <2>1, <2>3, <2>4, StepValue
  <2> QED BY <2>1, <2>2, <2>5
<1> QED BY <1>1, <1>2, <1>3, <1>4, <1>5, <1>6, <1>7, <1>8, <1>9, <1>10, <1>11, <1>12, <1>13, <1>14,
           <1>15, <1>16 DEF Understood

LEMMA UnexpectedIs == ASSUME Reading, ~Expected PROVE Step(At(state, config), currentToken) = Failure
<1> DEFINE c == config
           t == currentToken
<1>1. CASE ~Fits(t)
  <2> HIDE DEF t, c
  <2> QED BY <1>1 DEF Step, t
<1>2. CASE Fits(t) /\ TakesValue(state)
  <2>1. Token(state)
        BY <1>2 DEF Token, Fits
  <2>2. state \notin Free /\ ~(state = "BIND_VALUE" /\ Contains(t, ":")) /\ ~(state = "TYPE_VALUE" /\ t \in Types)
        /\ ~(state = "INDEX_VALUE" /\ currentHandler.type = <<"file">>)
        /\ ~(state = "LOGGING_SERVER_VERBOSITY_VALUE" /\ t \in Levels)
        BY <2>1 DEF Expected, Allocating, IsType, IsLevel, OfFiles, HasAddress
  <2>3. currentHandler = LastHandler(c)
        BY DEF currentBind, LastBind, currentSite, LastSite, currentHandler, LastHandler
  <2> HIDE DEF t, c
  <2>4. AfterValue(state, c, t) = Failure
        BY <2>2, <2>3 DEF AfterValue, Free
  <2> QED BY <1>2, <2>4, StepValue DEF c, t
<1>3. CASE Fits(t) /\ ~TakesValue(state) /\ \E w : t = <<w>>
  <2>1. PICK w : t = <<w>>
        BY <1>3
  <2>2. Word(state, w)
        BY <1>3, <2>1 DEF Word, Token, Fits
  <2>3. ~IsKeyword(state, w)
    <3>1. ASSUME NEW q, KeywordTo(state, w, q) PROVE FALSE
      <4>1. PICK k \in Keywords : k[1] = state /\ w = k[2] /\ k[3] = q
            BY <3>1, KeywordsAre
      <4>2. Word(k[1], k[2])
            BY <2>2, <4>1
      <4> QED BY <4>1, <4>2 DEF Expected
    <3> QED BY <3>1 DEF IsKeyword
  <2>4. /\ ~(state = "ROOT" /\ w = "bind") /\ ~(state = "BIND_CONTENT" /\ w = "site")
        /\ ~(state = "SITE_CONTENT" /\ w = "handler")
        /\ ~(state = "BIND_CONTENT" /\ w = "ssl" /\ currentBind.ssl = NULL)
        BY <2>2 DEF Expected, Allocating, FirstSsl
  <2>5. currentBind = LastBind(c)
        BY DEF currentBind, LastBind
  <2> HIDE DEF c
  <2>6. AfterWord(state, c, w) = Failure
        BY <2>3, <2>4, <2>5 DEF AfterWord
  <2> HIDE DEF t
  <2> QED BY <1>3, <2>1, <2>6, StepWord DEF c, t
<1>4. CASE Fits(t) /\ ~TakesValue(state) /\ ~\E w : t = <<w>>
  <2>1. At(state, config).state = state
        BY DEF At
  <2> HIDE DEF t, c
  <2> QED BY <1>4, <2>1 DEF Step, t
<1> QED BY <1>1, <1>2, <1>3, <1>4

-----------------------------------------------------------------------------
(* Who reads a file in which a token may be missing and is at the end of   *)
(* an entry has read some of the entries, and nothing else.                *)

IsAt(r) == r = At(r.state, r.config)

LEMMA AtIsAt == \A s, c : IsAt(At(s, c))
BY DEF IsAt, At

LEMMA StepIsAt == \A r, t : IsAt(Step(r, t))
<1> TAKE r, t
<1>1. IsAt(Failure)
      BY AtIsAt DEF Failure
<1>2. \A s, c, u : IsAt(AfterValue(s, c, u))
  <2> TAKE s, c, u
  <2> HIDE DEF Failure
  <2> QED BY <1>1, AtIsAt DEF AfterValue
<1>3. \A s, c, w : IsAt(AfterWord(s, c, w))
  <2> TAKE s, c, w
  <2> QED BY <1>1, AtIsAt DEF AfterWord
<1> QED BY <1>1, <1>2, <1>3 DEF Step

\* Where the parser does not fail it follows the arrows.
LEMMA Follows ==
  ASSUME NEW T, NEW x \in Seq(T), NEW s, NEW c, NEW rs, rs[0] = At(s, c),
         \A n \in 1..Len(x) : rs[n] = Step(rs[n - 1], x[n]), rs[Len(x)] # Failure
  PROVE  \A n \in 1..Len(x) : Arrow(rs[n - 1].state, x[n], rs[n].state)
<1>0. Len(x) \in Nat
      OBVIOUS
<1>1. ASSUME NEW n \in 0..Len(x) PROVE IsAt(rs[n])
  <2>1. CASE n = 0
        BY <2>1, AtIsAt
  <2>2. CASE n # 0
    <3>1. n \in 1..Len(x)
          BY <1>0, <2>2
    <3> QED BY <3>1, StepIsAt
  <2> QED BY <2>1, <2>2
<1>2. ASSUME NEW n \in 0..Len(x), rs[n] = Failure PROVE FALSE
  <2> DEFINE S == {m \in Nat : n + m <= Len(x) => rs[n + m] = Failure}
  <2>1. 0 \in S
    <3>1. n + 0 = n
          OBVIOUS
    <3> QED BY <1>2, <3>1
  <2>2. ASSUME NEW m \in Nat, m \in S PROVE m + 1 \in S
    <3>1. CASE n + (m + 1) <= Len(x)
      <4>1. n + (m + 1) \in 1..Len(x) /\ n + (m + 1) - 1 = n + m /\ n + m <= Len(x)
            BY <1>0, <3>1
      <4>2. rs[n + m] = Failure
            BY <2>2, <4>1
      <4>3. rs[n + (m + 1)] = Step(rs[n + m], x[n + (m + 1)])
            BY <4>1
      <4> QED BY <4>2, <4>3, StepFailure
    <3>2. CASE ~(n + (m + 1) <= Len(x))
          BY <3>2
    <3> QED BY <3>1, <3>2
  <2> HIDE DEF S
  <2>3. \A m \in Nat : m \in S
        BY <2>1, <2>2, Induct
  <2>4. Len(x) - n \in Nat /\ n + (Len(x) - n) = Len(x) /\ Len(x) <= Len(x)
        BY <1>0
  <2>5. n + (Len(x) - n) <= Len(x) => rs[n + (Len(x) - n)] = Failure
        BY <2>3, <2>4 DEF S
  <2> QED BY <2>4, <2>5
<1>3. ASSUME NEW n \in 1..Len(x) PROVE Arrow(rs[n - 1].state, x[n], rs[n].state)
  <2>1. n - 1 \in 0..Len(x) /\ n \in 0..Len(x)
        BY <1>0
  <2>2. rs[n - 1] = At(rs[n - 1].state, rs[n - 1].config) /\ rs[n] # Failure /\ rs[n] = Step(rs[n - 1], x[n])
        BY <1>1, <1>2, <2>1 DEF IsAt
  <2>3. Step(At(rs[n - 1].state, rs[n - 1].config), x[n]) # Failure
        BY <2>2
  <2>4. Arrow(rs[n - 1].state, x[n], Step(At(rs[n - 1].state, rs[n - 1].config), x[n]).state)
        BY <2>3, StepIsArrow
  <2> QED BY <2>2, <2>4
<1> QED BY <1>3

\* f leads along the arrows of the first l of x.
Along(f, x, l) == \A n \in 1..l : Arrow(f[n - 1], x[n], f[n])

LEMMA SameWay ==
  ASSUME NEW x, NEW f, NEW g, NEW m \in Nat, f[0] = g[0], Along(f, x, m), Along(g, x, m)
  PROVE  \A n \in 0..m : f[n] = g[n]
<1> DEFINE S == {n \in Nat : n <= m => f[n] = g[n]}
<1>1. 0 \in S
      OBVIOUS
<1>2. ASSUME NEW n \in Nat, n \in S PROVE n + 1 \in S
  <2>1. CASE n + 1 <= m
    <3>1. n + 1 \in 1..m /\ n + 1 - 1 = n /\ n <= m
          BY <2>1
    <3>2. f[n] = g[n]
          BY <1>2, <3>1
    <3>3. Arrow(f[n], x[n + 1], f[n + 1]) /\ Arrow(g[n], x[n + 1], g[n + 1])
          BY <3>1 DEF Along
    <3>4. f[n + 1] = g[n + 1]
          BY <3>2, <3>3, OneArrow
    <3> QED BY <3>4
  <2>2. CASE ~(n + 1 <= m)
        BY <2>2
  <2> QED BY <2>1, <2>2
<1> HIDE DEF S
<1>3. \A n \in Nat : n \in S
      BY <1>1, <1>2, Induct
<1> QED BY <1>3 DEF S

\* x is p without its token k, as far as l.
Lacks(x, p, k, l) == \A n \in 1..l : x[n] = IF n < k THEN p[n] ELSE p[n + 1]

LEMMA NeverRoot ==
  ASSUME NEW x, NEW p, NEW f, NEW g, NEW l \in Nat, NEW k \in Nat, k > 0, f[0] = g[0],
         Lacks(x, p, k, l), Along(f, x, l), Along(g, p, l + 1)
  PROVE  \A n \in k..l : f[n] # "ROOT"
<1> DEFINE S == {i \in Nat : i >= k - 1 /\ i <= l => Ahead(f[i], g[i + 1]) /\ (i >= k => f[i] # "ROOT")}
<1>1. ASSUME k - 1 <= l PROVE Ahead(f[k - 1], g[(k - 1) + 1])
  <2>1. k - 1 \in Nat /\ k \in 1..(l + 1) /\ (k - 1) + 1 = k
        BY <1>1
  <2>2. ASSUME NEW n \in 1..(k - 1) PROVE Arrow(f[n - 1], x[n], f[n]) /\ Arrow(g[n - 1], x[n], g[n])
    <3>1. n \in 1..l /\ n \in 1..(l + 1) /\ n < k
          BY <1>1
    <3>2. x[n] = p[n]
          BY <3>1 DEF Lacks
    <3> QED BY <3>1, <3>2 DEF Along
  <2> DEFINE m == k - 1
  <2>3. m \in Nat /\ Along(f, x, m) /\ Along(g, x, m)
        BY <2>1, <2>2 DEF Along
  <2>4. m \in 0..m
        BY <2>1
  <2>5. Arrow(g[m], p[k], g[k])
        BY <2>1 DEF Along
  <2>6. m + 1 = k
        BY <2>1
  <2> HIDE DEF m
  <2>7. \A n \in 0..m : f[n] = g[n]
        BY <2>3, SameWay
  <2>8. Ahead(f[m], g[m + 1])
        BY <2>4, <2>5, <2>6, <2>7 DEF Ahead
  <2> QED BY <2>8 DEF m
<1>2. 0 \in S
  <2>1. CASE 0 >= k - 1
    <3>1. k - 1 = 0
          BY <2>1
    <3> QED BY <1>1, <3>1
  <2>2. CASE ~(0 >= k - 1)
        BY <2>2
  <2> QED BY <2>1, <2>2
<1>3. ASSUME NEW i \in Nat, i \in S PROVE i + 1 \in S
  <2>1. CASE i + 1 >= k /\ i + 1 <= l
    <3>1. /\ i >= k - 1 /\ i <= l /\ i + 1 \in 1..l /\ ~(i + 1 < k) /\ (i + 1) - 1 = i
          /\ (i + 1) + 1 \in 1..(l + 1) /\ ((i + 1) + 1) - 1 = i + 1
          BY <2>1
    <3>2. Ahead(f[i], g[i + 1])
          BY <1>3, <3>1
    <3>3. Arrow(f[i], x[i + 1], f[i + 1]) /\ x[i + 1] = p[(i + 1) + 1]
          BY <3>1 DEF Along, Lacks
    <3>4. Arrow(g[i + 1], p[(i + 1) + 1], g[(i + 1) + 1])
          BY <3>1 DEF Along
    <3>5. Ahead(f[i + 1], g[(i + 1) + 1]) /\ f[i + 1] # "ROOT"
          BY <3>2, <3>3, <3>4, StaysAhead
    <3> QED BY <3>5
  <2>2. CASE i + 1 = k - 1 /\ i + 1 <= l
    <3>1. Ahead(f[i + 1], g[(i + 1) + 1]) /\ ~(i + 1 >= k)
          BY <1>1, <2>2
    <3> QED BY <3>1
  <2>3. CASE ~(i + 1 >= k - 1 /\ i + 1 <= l)
        BY <2>3
  <2>4. i + 1 >= k \/ i + 1 = k - 1 \/ ~(i + 1 >= k - 1)
        OBVIOUS
  <2> QED BY <2>1, <2>2, <2>3, <2>4
<1> HIDE DEF S
<1>4. \A i \in Nat : i \in S
      BY <1>2, <1>3, Induct
<1>5. ASSUME NEW n \in k..l PROVE f[n] # "ROOT"
  <2>1. n \in Nat /\ n >= k - 1 /\ n <= l /\ n >= k
        OBVIOUS
  <2>2. n \in S
        BY <1>4, <2>1
  <2> QED BY <2>1, <2>2 DEF S
<1> QED BY <1>5

LEMMA RemovedIs ==
  ASSUME NEW T, NEW p \in Seq(T), NEW k \in 1..Len(p)
  PROVE  /\ RemoveAt(p, k) \in Seq(T) /\ Len(RemoveAt(p, k)) = Len(p) - 1
         /\ \A n \in 1..(Len(p) - 1) : RemoveAt(p, k)[n] = IF n < k THEN p[n] ELSE p[n + 1]
<1> DEFINE a == SubSeq(p, 1, k - 1)
           b == SubSeq(p, k + 1, Len(p))
<1>1. Len(p) \in Nat
      OBVIOUS
<1>2. a \in Seq(T) /\ Len(a) = k - 1 /\ \A n \in 1..(k - 1) : a[n] = p[n]
      BY <1>1
<1>3. b \in Seq(T) /\ Len(b) = Len(p) - k /\ \A n \in 1..(Len(p) - k) : b[n] = p[n + k]
      BY <1>1
<1> HIDE DEF a, b
<1>4. a \o b \in Seq(T)
      BY <1>2, <1>3
<1>5. Len(a \o b) = Len(p) - 1
  <2>1. Len(a \o b) = Len(a) + Len(b)
    <3>1. a \in Seq(T) /\ b \in Seq(T)
          BY <1>2, <1>3
    <3> QED BY <3>1
  <2>2. k \in Int /\ Len(p) \in Int
        BY <1>1
  <2>3. Len(a) = k - 1 /\ Len(b) = Len(p) - k
        BY <1>2, <1>3
  <2> QED BY <2>1, <2>2, <2>3
<1>6. ASSUME NEW n \in 1..(Len(p) - 1) PROVE (a \o b)[n] = IF n < k THEN p[n] ELSE p[n + 1]
  <2>1. (a \o b)[n] = IF n <= Len(a) THEN a[n] ELSE b[n - Len(a)]
        BY <1>1, <1>2, <1>3
  <2>2. CASE n < k
    <3>1. n <= k - 1 /\ n \in 1..(k - 1)
          BY <1>1, <2>2
    <3> QED BY <1>2, <2>1, <2>2, <3>1
  <2>3. CASE ~(n < k)
    <3>1. ~(n <= k - 1) /\ n - (k - 1) \in 1..(Len(p) - k) /\ n - (k - 1) + k = n + 1
          BY <1>1, <2>3
    <3>2. b[n - (k - 1)] = p[n + 1]
          BY <1>3, <3>1
    <3> QED BY <1>2, <2>1, <2>3, <3>1, <3>2
  <2> QED BY <2>2, <2>3
<1> QED BY <1>4, <1>5, <1>6 DEF RemoveAt, a, b

\* The text of a plan, in which a token may be missing.
Damaged(es, y) ==
  y = Printed(es) \/ \E n \in DOMAIN Printed(es) : y = RemoveAt(Printed(es), n)

LEMMA DamagedType ==
  ASSUME NEW es \in Seq(Entries), NEW y, Damaged(es, y) PROVE y \in Seq(Tokens)
<1>1. Printed(es) \in Seq(Tokens) /\ DOMAIN Printed(es) = 1..Len(Printed(es))
  <2>1. Printed(es) \in Seq(Tokens)
        BY LeadsPlan
  <2> QED BY <2>1
<1> QED BY <1>1, RemovedIs DEF Damaged

Start == At("ROOT", ConfigOf(<<>>))
FirstEntries(es, x) == \E m \in 0..Len(es) : x = Printed(SubSeq(es, 1, m))

LEMMA ReadWhole ==
  ASSUME NEW es \in Seq(Entries), NEW y, Damaged(es, y), NEW r \in 0..Len(y), NEW d,
         Leads(Start, SubSeq(y, 1, r), At("ROOT", d))
  PROVE  FirstEntries(es, SubSeq(y, 1, r))
<1> DEFINE c == ConfigOf(<<>>)
           p == Printed(es)
           x == SubSeq(y, 1, r)
<1>1. p \in Seq(Tokens) /\ y \in Seq(Tokens)
      BY DamagedType, LeadsPlan
<1>2. x \in Seq(Tokens) /\ r \in Nat /\ Len(x) = r /\ \A n \in 1..r : x[n] = y[n]
      BY <1>1
<1>3. PICK g : Way(es, g)
      BY PlanWay
<1>4. /\ g[0] = "ROOT" /\ \A n \in 1..Len(p) : Arrow(g[n - 1], p[n], g[n])
      /\ \A n \in 0..Len(p) : g[n] = "ROOT" => \E m \in 0..Len(es) : SubSeq(p, 1, n) = Printed(SubSeq(es, 1, m))
      BY <1>3 DEF Way
<1>5. Damaged(es, y) <=> y = p \/ \E n \in 1..Len(p) : y = RemoveAt(p, n)
  <2>1. DOMAIN p = 1..Len(p)
        BY <1>1
  <2> QED BY <2>1 DEF Damaged
<1> HIDE DEF p, x, c
<1>6. PICK rs : rs[0] = At("ROOT", c) /\ rs[r] = At("ROOT", d) /\ \A n \in 1..r : rs[n] = Step(rs[n - 1], x[n])
      BY <1>2 DEF Leads, Start, x, c
<1> DEFINE f == [n \in 0..r |-> rs[n].state]
<1>7. \A n \in 1..r : Arrow(f[n - 1], x[n], f[n])
  <2>1. At("ROOT", d) # Failure
        BY DEF At, Failure
  <2>2. \A n \in 1..r : Arrow(rs[n - 1].state, x[n], rs[n].state)
    <3>1. rs[Len(x)] # Failure /\ \A n \in 1..Len(x) : rs[n] = Step(rs[n - 1], x[n])
          BY <1>2, <1>6, <2>1
    <3>2. rs[0] = At("ROOT", c) /\ x \in Seq(Tokens)
          BY <1>2, <1>6
    <3>3. \A n \in 1..Len(x) : Arrow(rs[n - 1].state, x[n], rs[n].state)
          BY <3>1, <3>2, Follows
    <3> QED BY <1>2, <3>3
  <2>3. ASSUME NEW n \in 1..r PROVE f[n - 1] = rs[n - 1].state /\ f[n] = rs[n].state
        BY <1>2
  <2> HIDE DEF f
  <2> QED BY <2>2, <2>3
<1>8. f[0] = "ROOT" /\ f[r] = "ROOT"
  <2>1. At("ROOT", c).state = "ROOT" /\ At("ROOT", d).state = "ROOT"
        BY DEF At
  <2> QED BY <1>2, <1>6, <2>1
<1> HIDE DEF f
<1>9. ASSUME NEW q \in 0..Len(p), r <= q, \A n \in 1..r : x[n] = p[n]
      PROVE  FirstEntries(es, x)
  <2>0. Len(p) \in Nat
        BY <1>1
  <2>1. Along(f, x, r) /\ Along(g, x, r)
    <3>1. \A n \in 1..r : n \in 1..Len(p)
          BY <1>2, <1>9, <2>0
    <3> QED BY <1>4, <1>7, <1>9, <3>1 DEF Along
  <2>2. \A n \in 0..r : f[n] = g[n]
    <3>1. r \in Nat
          BY <1>2
    <3>2. f[0] = g[0]
          BY <1>4, <1>8
    <3> QED BY <2>1, <3>1, <3>2, SameWay
  <2>3. g[r] = "ROOT" /\ r \in 0..Len(p)
    <3>1. r \in 0..r /\ r \in 0..Len(p)
          BY <1>2, <1>9, <2>0
    <3> QED BY <1>8, <2>2, <3>1
  <2>4. x = SubSeq(p, 1, r)
    <3> DEFINE u == SubSeq(p, 1, r)
    <3>1. u \in Seq(Tokens) /\ Len(u) = r /\ \A n \in 1..r : u[n] = p[n]
          BY <1>1, <2>3
    <3> HIDE DEF u
    <3>2. Len(x) = Len(u) /\ \A n \in 1..Len(x) : x[n] = u[n]
          BY <1>2, <1>9, <3>1
    <3>3. x = u
          BY <1>2, <3>1, <3>2, SeqEqual
    <3> QED BY <3>3 DEF u
  <2> QED BY <1>4, <2>3, <2>4 DEF FirstEntries
<1>10. CASE y = p
  <2>1. r \in 0..Len(p) /\ r <= r /\ \A n \in 1..r : x[n] = p[n]
        BY <1>2, <1>10
  <2> QED BY <1>9, <2>1 DEF x
<1>11. ASSUME NEW k \in 1..Len(p), y = RemoveAt(p, k)
       PROVE  FirstEntries(es, x)
  <2>0. Len(p) \in Nat
        BY <1>1
  <2>1. Len(y) = Len(p) - 1 /\ \A n \in 1..(Len(p) - 1) : y[n] = IF n < k THEN p[n] ELSE p[n + 1]
        BY <1>1, <1>11, RemovedIs
  <2>2. Lacks(x, p, k, r)
    <3>1. \A n \in 1..r : n \in 1..(Len(p) - 1)
          BY <1>2, <2>0, <2>1
    <3> QED BY <1>2, <2>1, <3>1 DEF Lacks
  <2>3. Along(g, p, r + 1) /\ Along(f, x, r)
    <3>1. \A n \in 1..(r + 1) : n \in 1..Len(p)
          BY <1>2, <2>0, <2>1
    <3> QED BY <1>4, <1>7, <3>1 DEF Along
  <2>4. r < k
    <3>1. k \in Nat /\ k > 0
          BY <2>0
    <3>2. \A n \in k..r : f[n] # "ROOT"
      <4>1. r \in Nat
            BY <1>2
      <4>2. f[0] = g[0]
            BY <1>4, <1>8
      <4> QED BY <2>2, <2>3, <3>1, <4>1, <4>2, NeverRoot
    <3>3. CASE ~(r < k)
      <4>1. r \in k..r
            BY <1>2, <3>1, <3>3
      <4> QED BY <1>8, <3>2, <4>1
    <3> QED BY <3>3
  <2>5. \A n \in 1..r : x[n] = p[n]
    <3>1. \A n \in 1..r : n < k
          BY <1>2, <2>0, <2>4
    <3> QED BY <2>2, <3>1 DEF Lacks
  <2>6. r \in 0..Len(p) /\ r <= r
        BY <1>2, <2>0, <2>1
  <2> QED BY <1>9, <2>5, <2>6
<1> QED BY <1>5, <1>10, <1>11 DEF FirstEntries, x

-----------------------------------------------------------------------------
(* Every config file is read as it is meant.                               *)

Text == SubSeq(file, 1, read)
Accepted == \E n \in 0..Len(plan) : WasRead(n) /\ config = Declared(SubSeq(plan, 1, n))

\* What was read has led to where the parser is, and to its failure where it rejects.
ReadInv ==
  /\ plan \in Seq(Entries) /\ Damaged(plan, file) /\ read \in 0..Len(file)
  /\ phase = "parsing" => ended = FALSE /\ Leads(Start, Text, At(state, config))
  /\ phase = "rejected" /\ ~failed /\ ended => Leads(Start, Text, At(state, config)) /\ ~Whole
  /\ phase = "rejected" /\ ~failed /\ ~ended => Leads(Start, Text, Failure)
  /\ phase \in {"accepted", "serving"} => Accepted

LEMMA SplitAt ==
  ASSUME NEW T, NEW p \in Seq(T), NEW n \in 0..Len(p)
  PROVE  /\ SubSeq(p, n + 1, Len(p)) \in Seq(T)
         /\ p = SubSeq(p, 1, n) \o SubSeq(p, n + 1, Len(p))
<1> DEFINE a == SubSeq(p, 1, n)
           b == SubSeq(p, n + 1, Len(p))
<1>1. Len(p) \in Nat
      OBVIOUS
<1>2. a \in Seq(T) /\ Len(a) = n /\ \A i \in 1..n : a[i] = p[i]
      BY <1>1
<1>3. b \in Seq(T) /\ Len(b) = Len(p) - n /\ \A i \in 1..(Len(p) - n) : b[i] = p[n + i]
      BY <1>1
<1> HIDE DEF a, b
<1>4. a \o b \in Seq(T)
      BY <1>2, <1>3
<1>5. Len(a \o b) = Len(p)
  <2>1. a \in Seq(T) /\ b \in Seq(T)
        BY <1>2, <1>3
  <2>2. Len(a \o b) = Len(a) + Len(b)
        BY <2>1
  <2> QED BY <1>1, <1>2, <1>3, <2>2
<1>6. ASSUME NEW i \in 1..Len(p) PROVE (a \o b)[i] = p[i]
  <2>1. (a \o b)[i] = IF i <= Len(a) THEN a[i] ELSE b[i - Len(a)]
        BY <1>1, <1>2, <1>3
  <2>2. CASE i <= n
        BY <1>2, <2>1, <2>2
  <2>3. CASE ~(i <= n)
    <3>1. i - n \in 1..(Len(p) - n) /\ n + (i - n) = i
          BY <1>1, <2>3
    <3>2. b[i - n] = p[i]
          BY <1>3, <3>1
    <3> QED BY <1>2, <2>1, <2>3, <3>2
  <2> QED BY <2>2, <2>3
<1>7. p = a \o b
      BY <1>4, <1>5, <1>6, SeqEqual
<1> QED BY <1>3, <1>7 DEF a, b

\* A whole plan, as far as it is valid.
LEMMA ReadableLeads ==
  ASSUME NEW es \in Seq(Entries), Readable(es)
  PROVE  /\ Printed(es) \in Seq(Tokens) /\ Leads(Start, Printed(es), At("ROOT", ConfigOf(es)))
         /\ \A b \in ToSet(BindsOf(es)) : Complete(b)
<1>1. FitAll(Printed(es)) /\ TypedPlan(es) /\ \A b \in ToSet(BindsOf(es)) : Complete(b)
      BY ReadableIs
<1>2. /\ Printed(es) \in Seq(Tokens)
      /\ LeadsTo(Start, Printed(es), IF TypedPlan(es) THEN At("ROOT", ConfigOf(es)) ELSE Failure)
      BY LeadsPlan DEF Start
<1> QED BY <1>1, <1>2 DEF LeadsTo

LEMMA BindsAre == \A es : ConfigOf(es).binds = BindsOf(es)
BY DEF ConfigOf, ConfigFrom

LEMMA AtSame == ASSUME NEW s, NEW c, NEW q, NEW d, At(s, c) = At(q, d) PROVE s = q /\ c = d
<1>1. At(s, c).state = s /\ At(s, c).config = c /\ At(q, d).state = q /\ At(q, d).config = d
      BY DEF At
<1> QED BY <1>1

LEMMA NoFailure == \A c : At("ROOT", c) # Failure
BY AtSame DEF Failure

\* Where the parser is at the end of an entry without a failure, that is what it read.
LEMMA LeadsBack ==
  ASSUME NEW es \in Seq(Entries), NEW d, Leads(Start, Printed(es), At("ROOT", d)),
         \A b \in ToSet(d.binds) : Complete(b)
  PROVE  Readable(es) /\ d = ConfigOf(es)
<1>1. /\ Printed(es) \in Seq(Tokens)
      /\ LeadsTo(Start, Printed(es), IF TypedPlan(es) THEN At("ROOT", ConfigOf(es)) ELSE Failure)
      BY LeadsPlan DEF Start
<1>2. CASE FitAll(Printed(es)) /\ TypedPlan(es)
  <2>1. Leads(Start, Printed(es), At("ROOT", ConfigOf(es)))
        BY <1>1, <1>2 DEF LeadsTo
  <2>2. At("ROOT", d) = At("ROOT", ConfigOf(es))
        BY <1>1, <2>1, LeadsOnce
  <2>3. d = ConfigOf(es)
        BY <2>2, AtSame
  <2>4. d.binds = BindsOf(es)
        BY <2>3, BindsAre
  <2> QED BY <1>2, <2>3, <2>4, ReadableIs
<1>3. CASE ~(FitAll(Printed(es)) /\ TypedPlan(es))
  <2>1. Leads(Start, Printed(es), Failure)
        BY <1>1, <1>3 DEF LeadsTo
  <2>2. At("ROOT", d) = Failure
        BY <1>1, <2>1, LeadsOnce
  <2> QED BY <2>2, NoFailure
<1> QED BY <1>2, <1>3

LEMMA FirstAre ==
  ASSUME NEW T, NEW es \in Seq(T), NEW m \in 0..Len(es) PROVE SubSeq(es, 1, m) \in Seq(T)
OBVIOUS

LEMMA ReadInit == Init => ReadInv
<1> SUFFICES ASSUME Init PROVE ReadInv
    OBVIOUS
<1>1. plan \in Seq(Entries)
      BY ConfigAssumption DEF Init, Entries
<1>2. Damaged(plan, file)
      BY DEF Init, Damaged
<1>3. file \in Seq(Tokens)
      BY <1>1, <1>2, DamagedType
<1>4. read = 0 /\ read \in 0..Len(file) /\ Text = <<>>
      BY <1>3 DEF Init, Text
<1>5. config = ConfigOf(<<>>)
  <2>1. BindsOf(<<>>) = <<>> /\ LoggingBody(<<>>) = <<>>
        BY BindsNone, LoggingBodyNone
  <2>2. LastValue(<<>>, "access") = NULL /\ LastValue(<<>>, "server") = NULL
        BY LastNone
  <2>3. VerbosityOf(<<>>) = <<"warn">>
        BY ForNone DEF VerbosityOf
  <2> QED BY <2>1, <2>2, <2>3 DEF ConfigOf, ConfigFrom, Init
<1>6. Leads(Start, Text, At(state, config))
  <2>1. At(state, config) = Start
        BY <1>5 DEF Init, Start
  <2> QED BY <1>4, <2>1, LeadsNone
<1>7. phase = "parsing" /\ ended = FALSE
      BY DEF Init
<1> QED BY <1>1, <1>2, <1>4, <1>6, <1>7 DEF ReadInv

LEMMA ReadStep == ReadInv /\ [Next]_vars => ReadInv'
<1> SUFFICES ASSUME ReadInv, [Next]_vars PROVE ReadInv'
    OBVIOUS
<1>1. plan \in Seq(Entries) /\ Damaged(plan, file) /\ file \in Seq(Tokens) /\ read \in 0..Len(file)
      BY DamagedType DEF ReadInv
<1>2. phase = "parsing" => ended = FALSE /\ Leads(Start, Text, At(state, config))
      BY DEF ReadInv
<1>3. ASSUME Reading, read' = read + 1, UNCHANGED input
      PROVE  read' \in 0..Len(file) /\ Text \in Seq(Tokens) /\ currentToken \in Tokens
             /\ Text' = Append(Text, currentToken)
  <2>1. read < Len(file) /\ Len(file) \in Nat /\ read \in Nat
        BY <1>1, <1>3 DEF Reading
  <2>2. SubSeq(file, 1, read + 1) = Append(SubSeq(file, 1, read), file[read + 1])
        BY <1>1, <2>1
  <2>3. read + 1 \in 0..Len(file) /\ SubSeq(file, 1, read) \in Seq(Tokens) /\ file[read + 1] \in Tokens
        BY <1>1, <2>1
  <2>4. file' = file
        BY <1>3 DEF input
  <2> QED BY <1>3, <2>2, <2>3, <2>4 DEF Text, currentToken
<1>4. CASE Understood
  <2>1. /\ Reading /\ read' = read + 1 /\ UNCHANGED <<input, phase, logger, failed, ended>>
        /\ At(state', config') = Step(At(state, config), currentToken)
        BY <1>4, UnderstoodIs
  <2>2. /\ read' \in 0..Len(file) /\ Text \in Seq(Tokens) /\ currentToken \in Tokens
        /\ Text' = Append(Text, currentToken)
        BY <1>3, <2>1
  <2>3. phase = "parsing"
        BY <2>1 DEF Reading
  <2>4. Leads(Start, Append(Text, currentToken), Step(At(state, config), currentToken))
        BY <1>2, <2>2, <2>3, LeadsNext
  <2>5. Leads(Start, Text', At(state', config'))
        BY <2>1, <2>2, <2>4
  <2> QED BY <1>1, <1>2, <2>1, <2>2, <2>3, <2>5 DEF ReadInv, input
<1>5. CASE Unexpected
  <2>1. /\ Reading /\ read' = read + 1 /\ UNCHANGED <<input, state, config, logger, failed, ended>>
        /\ phase' = "rejected" /\ ~Expected
        BY <1>5 DEF Unexpected, Rejected
  <2>2. /\ read' \in 0..Len(file) /\ Text \in Seq(Tokens) /\ currentToken \in Tokens
        /\ Text' = Append(Text, currentToken)
        BY <1>3, <2>1
  <2>3. Step(At(state, config), currentToken) = Failure
        BY <2>1, UnexpectedIs
  <2>4. phase = "parsing"
        BY <2>1 DEF Reading
  <2>5. Leads(Start, Append(Text, currentToken), Step(At(state, config), currentToken))
        BY <1>2, <2>2, <2>4, LeadsNext
  <2>6. Leads(Start, Text', Failure)
        BY <2>2, <2>3, <2>5
  <2> QED BY <1>1, <1>2, <2>1, <2>2, <2>4, <2>6 DEF ReadInv, input
<1>6. CASE AllocationFails
  <2>1. Reading
        BY <1>6 DEF AllocationFails, Allocating, Word, Token, HasAddress, FirstSsl, OfFiles
  <2>2. read' = read + 1 /\ UNCHANGED input /\ phase' = "rejected" /\ failed' = TRUE
        BY <1>6 DEF AllocationFails, Rejected
  <2>3. read' \in 0..Len(file)
        BY <1>3, <2>1, <2>2
  <2> QED BY <1>1, <2>2, <2>3 DEF ReadInv, input
<1>7. CASE EofAccepts
  <2>1. /\ phase = "parsing" /\ state = "ROOT" /\ \A b \in ToSet(config.binds) : Complete(b)
        /\ config' = [config EXCEPT !.binds = [n \in DOMAIN @ |-> Rooted(@[n])]]
        /\ phase' = "accepted" /\ UNCHANGED <<plan, file, read>>
        BY <1>7 DEF EofAccepts, AtEof, Whole, input
  <2>2. Leads(Start, SubSeq(file, 1, read), At("ROOT", config))
        BY <1>2, <2>1 DEF Text
  <2>3. PICK m \in 0..Len(plan) : SubSeq(file, 1, read) = Printed(SubSeq(plan, 1, m))
    <3>1. FirstEntries(plan, SubSeq(file, 1, read))
          BY <1>1, <2>2, ReadWhole
    <3> QED BY <3>1 DEF FirstEntries
  <2> DEFINE es == SubSeq(plan, 1, m)
  <2>4. es \in Seq(Entries)
        BY <1>1, FirstAre
  <2>5. SubSeq(file, 1, read) = Printed(es)
        BY <2>3
  <2> HIDE DEF es
  <2>6. Leads(Start, Printed(es), At("ROOT", config))
        BY <2>2, <2>5
  <2>7. Readable(es) /\ config = ConfigOf(es)
        BY <2>1, <2>4, <2>6, LeadsBack
  <2>8. config' = Declared(es)
        BY <2>1, <2>4, <2>7, RootedIs
  <2>9. WasRead(m)' /\ config' = Declared(SubSeq(plan', 1, m)) /\ m \in 0..Len(plan')
        BY <2>1, <2>5, <2>7, <2>8 DEF WasRead, es
  <2>10. Accepted'
        BY <2>9 DEF Accepted
  <2> QED BY <1>1, <2>1, <2>10 DEF ReadInv
<1>8. CASE EofRejects
  <2>1. /\ phase = "parsing" /\ ~Whole /\ phase' = "rejected" /\ ended' = TRUE
        /\ UNCHANGED <<plan, file, read, state, config>>
        BY <1>8 DEF EofRejects, AtEof, Rejected, input
  <2>2. ~Whole'
        BY <2>1 DEF Whole
  <2>3. Leads(Start, Text', At(state', config'))
        BY <1>2, <2>1 DEF Text
  <2> QED BY <1>1, <2>1, <2>2, <2>3 DEF ReadInv
<1>9. CASE SslFails
  <2>1. phase' = "rejected" /\ failed' = TRUE /\ UNCHANGED <<plan, file, read>>
        BY <1>9 DEF SslFails, AtEof, Rejected, input
  <2> QED BY <1>1, <2>1 DEF ReadInv
<1>10. CASE config_setLogging
  <2>1. phase = "accepted" /\ phase' = "serving" /\ UNCHANGED <<plan, file, read, config>>
        BY <1>10 DEF config_setLogging, input
  <2>2. Accepted
        BY <2>1 DEF ReadInv
  <2>3. Accepted'
        BY <2>1, <2>2 DEF Accepted, WasRead
  <2> QED BY <1>1, <2>1, <2>3 DEF ReadInv
<1>11. CASE UNCHANGED vars
  <2>1. UNCHANGED <<plan, file, read, state, config, phase, failed, ended>>
        BY <1>11 DEF vars
  <2> QED BY <2>1 DEF ReadInv, Accepted, WasRead, Whole, Text
<1> QED BY <1>4, <1>5, <1>6, <1>7, <1>8, <1>9, <1>10, <1>11 DEF Next

LEMMA ReadImplies == ReadInv => ReadsTheConfig
<1> SUFFICES ASSUME ReadInv PROVE ReadsTheConfig
    OBVIOUS
<1>1. plan \in Seq(Entries) /\ Damaged(plan, file) /\ file \in Seq(Tokens) /\ read \in 0..Len(file)
      BY DamagedType DEF ReadInv
<1>2. Text \in Seq(Tokens)
      BY <1>1 DEF Text
<1>3. ASSUME phase = "rejected", ~failed, NEW n \in 0..Len(plan), WasRead(n) PROVE FALSE
  <2> DEFINE es == SubSeq(plan, 1, n)
  <2>1. es \in Seq(Entries)
        BY <1>1, FirstAre
  <2>2. Text = Printed(es) /\ Readable(es)
        BY <1>3 DEF WasRead, Text
  <2> HIDE DEF es
  <2>3. Leads(Start, Text, At("ROOT", ConfigOf(es))) /\ \A b \in ToSet(BindsOf(es)) : Complete(b)
        BY <2>1, <2>2, ReadableLeads
  <2>4. CASE ended
    <3>1. Leads(Start, Text, At(state, config)) /\ ~Whole
          BY <1>3, <2>4 DEF ReadInv
    <3>2. At(state, config) = At("ROOT", ConfigOf(es))
          BY <1>2, <2>3, <3>1, LeadsOnce
    <3>3. state = "ROOT" /\ config.binds = BindsOf(es)
          BY <3>2, AtSame, BindsAre
    <3> QED BY <2>3, <3>1, <3>3 DEF Whole
  <2>5. CASE ~ended
    <3>1. Leads(Start, Text, Failure)
          BY <1>3, <2>5 DEF ReadInv
    <3>2. Failure = At("ROOT", ConfigOf(es))
          BY <1>2, <2>3, <3>1, LeadsOnce
    <3> QED BY <3>2, NoFailure
  <2> QED BY <2>4, <2>5
<1>4. ASSUME phase = "rejected", ~failed, ~ended, Readable(plan), IsPrefix(SubSeq(file, 1, read), Printed(plan))
      PROVE  FALSE
  <2>1. Printed(plan) \in Seq(Tokens) /\ Leads(Start, Printed(plan), At("ROOT", ConfigOf(plan)))
        BY <1>1, <1>4, ReadableLeads
  <2>2. PICK y \in Seq(Tokens) : Printed(plan) = Text \o y
    <3> DEFINE p == Printed(plan)
               y == SubSeq(p, Len(Text) + 1, Len(p))
    <3>1. Len(Text) <= Len(p) /\ SubSeq(Text, 1, Len(Text)) = SubSeq(p, 1, Len(Text))
          BY <1>4 DEF IsPrefix, Text
    <3>2. Text = SubSeq(p, 1, Len(Text))
      <4>1. SubSeq(Text, 1, Len(Text)) = Text
            BY <1>2
      <4> QED BY <3>1, <4>1
    <3>3. p \in Seq(Tokens) /\ Len(Text) \in 0..Len(p)
      <4>1. Len(Text) \in Nat /\ Len(p) \in Nat
            BY <1>2, <2>1
      <4> QED BY <2>1, <3>1, <4>1
    <3> HIDE DEF p
    <3>4. y \in Seq(Tokens) /\ p = SubSeq(p, 1, Len(Text)) \o y
          BY <3>3, SplitAt
    <3>5. p = Text \o y
          BY <3>2, <3>4
    <3> QED BY <3>4, <3>5 DEF p
  <2>3. ~Leads(Start, Text, Failure)
        BY <1>2, <2>1, <2>2, NoFailure, LeadsPart
  <2> QED BY <1>4, <2>3 DEF ReadInv
<1>5. phase \in {"accepted", "serving"} => Accepted
      BY DEF ReadInv
<1> QED BY <1>3, <1>4, <1>5 DEF ReadsTheConfig, Accepted

\* A file is accepted exactly when it was read to the end of an entry and says all that
\* it must, and the config is then what it says (config_parse, 98-674): for every set of
\* plans, over any bytes, and wherever a token is missing.
THEOREM TheConfigIsRead == Spec => []ReadsTheConfig
<1>1. Init => ReadInv
      BY ReadInit
<1>2. ReadInv /\ [Next]_vars => ReadInv'
      BY ReadStep
<1>3. ReadInv => ReadsTheConfig
      BY ReadImplies
<1> QED BY <1>1, <1>2, <1>3, PTL DEF Spec

-----------------------------------------------------------------------------
(* The types of what is accepted.                                          *)

LEMMA OneMore ==
  ASSUME NEW B, NEW s \in Seq(B), NEW e PROVE ToSet(Append(s, e)) = ToSet(s) \cup {e}
<1>1. /\ Len(s) \in Nat /\ DOMAIN s = 1..Len(s) /\ DOMAIN Append(s, e) = 1..(Len(s) + 1)
      /\ Append(s, e)[Len(s) + 1] = e /\ \A n \in 1..Len(s) : Append(s, e)[n] = s[n]
      OBVIOUS
<1> QED BY <1>1 DEF ToSet

\* Where a text fits, the parts it was put together from do.
LEMMA FitParts ==
  ASSUME NEW T, NEW B, NEW s \in Seq(B), NEW f \in [B -> Seq(T)], FitAll(TextOf(f, s))
  PROVE  \A x \in ToSet(s) : FitAll(f[x])
<1> DEFINE S == {k \in Seq(B) : FitAll(TextOf(f, k)) => \A x \in ToSet(k) : FitAll(f[x])}
<1>1. <<>> \in S
  <2>1. ToSet(<<>>) = {} /\ <<>> \in Seq(B)
        BY DEF ToSet
  <2> QED BY <2>1
<1>2. ASSUME NEW k \in Seq(B), k \in S, NEW x \in B PROVE Append(k, x) \in S
  <2>1. TextOf(f, k) \in Seq(T) /\ TextOf(f, Append(k, x)) = TextOf(f, k) \o f[x]
        BY TextNext
  <2>2. f[x] \in Seq(T) /\ Append(k, x) \in Seq(B)
        OBVIOUS
  <2>3. ToSet(Append(k, x)) = ToSet(k) \cup {x}
        BY OneMore
  <2>4. FitAll(TextOf(f, Append(k, x))) => FitAll(TextOf(f, k)) /\ FitAll(f[x])
        BY <2>1, <2>2, FitBoth
  <2> QED BY <1>2, <2>2, <2>3, <2>4
<1> HIDE DEF S
<1>3. s \in S
      BY <1>1, <1>2, InductSequence
<1> QED BY <1>3 DEF S

LEMMA FitInner ==
  ASSUME NEW e, <<e.key>> \in Tokens, e.value = <<>> \/ e.value \in Tokens, NEW inner \in Seq(Tokens),
         FitAll(BlockText(e, inner))
  PROVE  FitAll(inner)
<1> DEFINE x == <<<<e.key>>>> \o (IF e.value = <<>> THEN <<>> ELSE <<e.value>>)
           a == <<<<Opening>>>>
           b == <<<<Closing>>>>
<1>1. x \in Seq(Tokens)
  <2>1. <<<<e.key>>>> \in Seq(Tokens) /\ <<>> \in Seq(Tokens) /\ (e.value \in Tokens => <<e.value>> \in Seq(Tokens))
        OBVIOUS
  <2> QED BY <2>1
<1>2. a \in Seq(Tokens) /\ b \in Seq(Tokens)
      BY BracesAreTokens
<1>3. BlockText(e, inner) = x \o a \o inner \o b
      BY DEF BlockText
<1> HIDE DEF x, a, b
<1> DEFINE y == x \o a
           z == y \o inner
<1>4. y \in Seq(Tokens)
      BY <1>1, <1>2
<1>5. FitAll(z \o b)
      BY <1>3
<1> HIDE DEF y
<1>6. z \in Seq(Tokens)
      BY <1>4
<1> HIDE DEF z
<1>7. FitAll(z)
      BY <1>2, <1>5, <1>6, FitBoth
<1> QED BY <1>4, <1>7, FitBoth DEF z

LEMMA FitValue == ASSUME NEW e, FitAll(SettingText(e)) PROVE Fits(e.value)
BY FitThree DEF SettingText

LEMMA ValuesFrom ==
  ASSUME NEW B, NEW s \in Seq(B), NEW keys, NEW v \in ToSet(ValuesOf(s, keys))
  PROVE  \E x \in ToSet(s) : x.key \in keys /\ v = x.value
<1> DEFINE S == ToSet(s)
           V == {x.value : x \in {y \in S : y.key \in keys}}
<1>1. s \in Seq(S)
  <2>1. Len(s) \in Nat /\ DOMAIN s = 1..Len(s) /\ s = [n \in 1..Len(s) |-> s[n]]
        OBVIOUS
  <2>2. \A n \in 1..Len(s) : s[n] \in S
        BY <2>1 DEF ToSet
  <2> HIDE DEF S
  <2> QED BY <2>1, <2>2
<1>2. \A x \in S : x.key \in keys => x.value \in V
      OBVIOUS
<1>3. ValuesOf(s, keys) \in Seq(V)
  <2> HIDE DEF S, V
  <2> QED BY <1>1, <1>2, ValuesType
<1>4. \A w : w \in Seq(V) => ToSet(w) \subseteq V
      BY DEF ToSet
<1>5. v \in V
      BY <1>3, <1>4
<1> QED BY <1>5

LEMMA HostsFit ==
  ASSUME NEW e \in SiteBlocks, FitAll(SiteText(e)), NEW v \in ToSet(DeclaredSite(e).hostnames)
  PROVE  Fits(v)
<1> DEFINE f == [x \in SiteEntries |-> InSiteText(x)]
           inner == TextOf(f, e.body)
<1>1. e.key = "site" /\ e.value = <<>> /\ e.body \in Seq(SiteEntries)
      BY DEF SiteBlocks, SiteEntries, SiteSettings
<1>2. f \in [SiteEntries -> Seq(Tokens)]
      BY InnerTexts
<1>3. SiteText(e) = BlockText(e, inner)
  <2>1. [n \in DOMAIN e.body |-> InSiteText(e.body[n])] = [n \in DOMAIN e.body |-> f[e.body[n]]]
        BY <1>1
  <2> HIDE DEF f
  <2> QED BY <2>1 DEF SiteText, TextOf
<1>4. \A x \in SiteEntries : f[x] = InSiteText(x)
      OBVIOUS
<1> HIDE DEF f
<1>5. inner \in Seq(Tokens)
      BY <1>1, <1>2, TextType
<1>6. <<e.key>> \in Tokens
      BY <1>1 DEF Tokens, Words
<1> HIDE DEF inner
<1>7. FitAll(inner)
      BY <1>1, <1>3, <1>5, <1>6, FitInner
<1>8. \A x \in ToSet(e.body) : FitAll(f[x])
      BY <1>1, <1>2, <1>7, FitParts DEF inner
<1>9. v \in ToSet(ValuesOf(e.body, {"hostname", "alias"}))
      BY DEF DeclaredSite
<1>10. PICK x \in ToSet(e.body) : x.key \in {"hostname", "alias"} /\ v = x.value
      BY <1>1, <1>9, ValuesFrom
<1>11. x \in SiteEntries
      BY <1>1 DEF ToSet
<1>12. InSiteText(x) = SettingText(x)
      BY <1>10 DEF InSiteText
<1> QED BY <1>4, <1>8, <1>10, <1>11, <1>12, FitValue

\* The sites of a bind in a plan fit if the bind does.
LEMMA SitesFit ==
  ASSUME NEW e \in BindBlocks, FitAll(BindText(e)), NEW s \in For(e.body, "site")
  PROVE  s \in SiteBlocks /\ FitAll(SiteText(s))
<1> DEFINE f == [x \in BindEntries |-> InBindText(x)]
           inner == TextOf(f, e.body)
<1>1. e.key = "bind" /\ e.value \in Values /\ e.body \in Seq(BindEntries)
      BY DEF BindBlocks, BindEntries
<1>2. f \in [BindEntries -> Seq(Tokens)]
      BY <1>1, InnerTexts
<1>3. BindText(e) = BlockText(e, inner)
  <2>1. [n \in DOMAIN e.body |-> InBindText(e.body[n])] = [n \in DOMAIN e.body |-> f[e.body[n]]]
        BY <1>1
  <2> HIDE DEF f
  <2> QED BY <2>1 DEF BindText, TextOf
<1>4. \A x \in BindEntries : f[x] = InBindText(x)
      OBVIOUS
<1> HIDE DEF f
<1>5. inner \in Seq(Tokens)
      BY <1>1, <1>2, TextType
<1>6. <<e.key>> \in Tokens /\ e.value \in Tokens
      BY <1>1 DEF Tokens, Words
<1> HIDE DEF inner
<1>7. FitAll(inner)
      BY <1>3, <1>5, <1>6, FitInner
<1>8. \A x \in ToSet(e.body) : FitAll(f[x])
      BY <1>1, <1>2, <1>7, FitParts DEF inner
<1>9. s \in ToSet(e.body) /\ s \in BindEntries /\ s.key = "site"
      BY <1>1 DEF For, ToSet
<1>10. s \in SiteBlocks /\ InBindText(s) = SiteText(s)
      BY <1>9, BindEntryIs DEF InBindText
<1> QED BY <1>4, <1>8, <1>9, <1>10

LEMMA BindsFit ==
  ASSUME NEW es \in Seq(Entries), FitAll(Printed(es)), NEW b \in For(es, "bind")
  PROVE  b \in BindBlocks /\ FitAll(BindText(b))
<1> DEFINE f == [x \in Entries |-> EntryText(x)]
<1>1. f \in [Entries -> Seq(Tokens)]
      BY EntryTyped
<1>2. Printed(es) = TextOf(f, es)
  <2>1. [n \in DOMAIN es |-> EntryText(es[n])] = [n \in DOMAIN es |-> f[es[n]]]
        OBVIOUS
  <2> HIDE DEF f
  <2> QED BY <2>1 DEF Printed, TextOf
<1>3. \A x \in Entries : f[x] = EntryText(x)
      OBVIOUS
<1> HIDE DEF f
<1>4. \A x \in ToSet(es) : FitAll(f[x])
      BY <1>1, <1>2, FitParts
<1>5. b \in ToSet(es) /\ b \in Entries /\ b.key = "bind"
      BY DEF For, ToSet
<1>6. b \in BindBlocks /\ EntryText(b) = BindText(b)
      BY <1>5, EntryIs DEF EntryText
<1> QED BY <1>3, <1>4, <1>5, <1>6

\* What a function makes of the entries for a key comes from one of them.
LEMMA FromEntry ==
  ASSUME NEW B, NEW s \in Seq(B), NEW key, NEW n \in DOMAIN With(s, {key})
  PROVE  With(s, {key})[n] \in For(s, key)
<1>1. ToSet(With(s, {key})) = For(s, key)
      BY WithIsFor
<1> QED BY <1>1 DEF ToSet

LEMMA SiteIsOK ==
  ASSUME NEW e \in SiteBlocks, FitAll(SiteText(e)), ValidSite(e) PROVE SiteOK(DeclaredSite(e))
<1> DEFINE hs == With(e.body, {"handler"})
           root == LastValue(e.body, "root")
<1>1. \A v \in ToSet(DeclaredSite(e).hostnames) : Len(v) < MAX_TOKEN_LENGTH
      BY HostsFit DEF Fits
<1>2. e.body \in Seq(SiteEntries)
      BY DEF SiteBlocks, SiteEntries, SiteSettings
<1>3. ASSUME NEW n \in DOMAIN hs PROVE DeclaredHandler(hs[n], root).type \in Types
  <2> DEFINE h == hs[n]
  <2>1. h \in For(e.body, "handler")
        BY <1>2, FromEntry
  <2>2. h \in HandlerBlocks
    <3>1. h \in SiteEntries /\ h.key = "handler"
          BY <1>2, <2>1 DEF For, ToSet
    <3> QED BY <3>1, SiteEntryIs
  <2>3. ValidHandler(h)
        BY <2>1 DEF ValidSite
  <2> HIDE DEF h
  <2>4. h.body \in Seq(HandlerSettings)
        BY <2>2 DEF HandlerBlocks, HandlerSettings
  <2>5. For(h.body, "type") # {} /\ \A x \in For(h.body, "type") : x.value \in Types
        BY <2>3 DEF ValidHandler
  <2>6. LastValue(h.body, "type") \in Types
        BY <2>4, <2>5, LastIs
  <2>7. DeclaredHandler(h, root).type = LastValue(h.body, "type")
        BY DEF DeclaredHandler
  <2> QED BY <2>6, <2>7 DEF h
<1>4. DeclaredSite(e).handlers = [n \in DOMAIN hs |-> DeclaredHandler(hs[n], root)]
      BY DEF DeclaredSite
<1> HIDE DEF hs, root
<1>5. \A h \in ToSet(DeclaredSite(e).handlers) : h.type \in Types
      BY <1>3, <1>4 DEF ToSet
<1> QED BY <1>1, <1>5 DEF SiteOK

LEMMA SitesAreOK ==
  ASSUME NEW es \in Seq(Entries), Readable(es), NEW b \in ToSet(Declared(es).binds), NEW s \in ToSet(b.sites)
  PROVE  SiteOK(s)
<1> DEFINE w == With(es, {"bind"})
<1>1. Declared(es).binds = [n \in DOMAIN w |-> DeclaredBind(w[n])]
      BY DEF Declared
<1>2. PICK n \in DOMAIN w : b = DeclaredBind(w[n])
  <2> HIDE DEF w
  <2> QED BY <1>1 DEF ToSet
<1> DEFINE e == w[n]
           v == With(e.body, {"site"})
<1>3. e \in For(es, "bind")
      BY FromEntry
<1>4. FitAll(Printed(es))
      BY ReadableIs
<1>5. e \in BindBlocks /\ FitAll(BindText(e)) /\ ValidBind(e)
      BY <1>3, <1>4, BindsFit DEF Readable, Valid
<1> HIDE DEF e
<1>6. b.sites = [m \in DOMAIN v |-> DeclaredSite(v[m])]
      BY <1>2 DEF DeclaredBind, e
<1>7. PICK m \in DOMAIN v : s = DeclaredSite(v[m])
  <2> HIDE DEF v
  <2> QED BY <1>6 DEF ToSet
<1>8. e.body \in Seq(BindEntries)
      BY <1>5 DEF BindBlocks, BindEntries
<1>9. v[m] \in For(e.body, "site")
      BY <1>8, FromEntry
<1>10. v[m] \in SiteBlocks /\ FitAll(SiteText(v[m])) /\ ValidSite(v[m])
      BY <1>5, <1>9, SitesFit DEF ValidBind
<1> QED BY <1>7, <1>10, SiteIsOK

\* The states between the keywords, and those before a value.
States ==
  {k[1] : k \in Keywords} \cup {k[3] : k \in Keywords} \cup {"BIND_VALUE", "HANDLER_VALUE"}

LEMMA StatesAre ==
  ASSUME NEW s, NEW t, NEW q, Arrow(s, t, q) PROVE q \in States
<1>1. ASSUME NEW p, NEW w, NEW r, KeywordTo(p, w, r) PROVE p \in States /\ r \in States
  <2>1. PICK k \in Keywords : k[1] = p /\ w = k[2] /\ k[3] = r
        BY <1>1, KeywordsAre
  <2> QED BY <2>1 DEF States
<1>2. CASE \E w : KeywordTo(s, w, q)
      BY <1>1, <1>2
<1>3. "BIND_VALUE" \in States /\ "HANDLER_VALUE" \in States
      BY DEF States
<1>4. /\ "SSL_BRACKETS_OPEN" \in States /\ "SITE_BRACKETS_OPEN" \in States
      /\ "BIND_BRACKETS_OPEN" \in States /\ "HANDLER_BRACKETS_OPEN" \in States
  <2>1. /\ KeywordTo("SSL_BRACKETS_OPEN", Opening, "SSL_CONTENT")
        /\ KeywordTo("SITE_BRACKETS_OPEN", Opening, "SITE_CONTENT")
        /\ KeywordTo("BIND_BRACKETS_OPEN", Opening, "BIND_CONTENT")
        /\ KeywordTo("HANDLER_BRACKETS_OPEN", Opening, "HANDLER_CONTENT")
        BY DEF KeywordTo
  <2> QED BY <1>1, <2>1
<1>5. /\ "SSL_CONTENT" \in States /\ "SITE_CONTENT" \in States
      /\ "HANDLER_CONTENT" \in States /\ "LOGGING_CONTENT" \in States
  <2>1. /\ KeywordTo("SSL_BRACKETS_OPEN", Opening, "SSL_CONTENT")
        /\ KeywordTo("SITE_BRACKETS_OPEN", Opening, "SITE_CONTENT")
        /\ KeywordTo("HANDLER_BRACKETS_OPEN", Opening, "HANDLER_CONTENT")
        /\ KeywordTo("LOGGING_BRACKETS_OPEN", Opening, "LOGGING_CONTENT")
        BY DEF KeywordTo
  <2> QED BY <1>1, <2>1
<1>6. CASE \E w : StartTo(s, w, q)
      BY <1>3, <1>4, <1>6 DEF StartTo
<1>7. CASE ValueTo(s, q)
      BY <1>4, <1>5, <1>7 DEF ValueTo
<1> QED BY <1>2, <1>6, <1>7 DEF Arrow, WordArrow, WordTo, ValueArrow

Kinds ==
  /\ failed \in BOOLEAN /\ ended \in BOOLEAN /\ state \in States
  /\ phase \in {"parsing", "rejected", "accepted", "serving"}

LEMMA KindsInit == Init => Kinds
<1>1. "ROOT" \in States
  <2>1. <<"BIND_CONTENT", Closing, "ROOT">> \in Keywords
        BY DEF Keywords, BindKeywords
  <2> QED BY <2>1 DEF States
<1> QED BY <1>1 DEF Init, Kinds

LEMMA KindsStep == Kinds /\ [Next]_vars => Kinds'
<1> SUFFICES ASSUME Kinds, [Next]_vars PROVE Kinds'
    OBVIOUS
<1>1. CASE Understood
  <2>1. UNCHANGED <<phase, failed, ended>> /\ state' # "REJECTED"
        /\ At(state', config') = Step(At(state, config), currentToken)
        BY <1>1, UnderstoodIs
  <2>2. At(state', config').state = state' /\ Failure.state = "REJECTED"
        BY DEF At, Failure
  <2>3. Arrow(state, currentToken, state')
        BY <2>1, <2>2, StepIsArrow
  <2>4. state' \in States
        BY <2>3, StatesAre
  <2> QED BY <2>1, <2>4 DEF Kinds
<1>2. CASE Unexpected
      BY <1>2 DEF Unexpected, Rejected, Kinds
<1>3. CASE AllocationFails
      BY <1>3 DEF AllocationFails, Rejected, Kinds
<1>4. CASE EofAccepts
      BY <1>4 DEF EofAccepts, AtEof, Kinds
<1>5. CASE EofRejects
      BY <1>5 DEF EofRejects, AtEof, Rejected, Kinds
<1>6. CASE SslFails
      BY <1>6 DEF SslFails, AtEof, Rejected, Kinds
<1>7. CASE config_setLogging
      BY <1>7 DEF config_setLogging, Kinds
<1>8. CASE UNCHANGED vars
      BY <1>8 DEF vars, Kinds
<1> QED BY <1>1, <1>2, <1>3, <1>4, <1>5, <1>6, <1>7, <1>8 DEF Next

LEMMA KindsImply == ReadInv /\ Kinds => TypeOK
<1> SUFFICES ASSUME ReadInv, Kinds PROVE TypeOK
    OBVIOUS
<1>1. ASSUME phase \in {"accepted", "serving"}, NEW b \in ToSet(config.binds), NEW s \in ToSet(b.sites)
      PROVE  SiteOK(s)
  <2>1. Accepted /\ plan \in Seq(Entries)
        BY <1>1 DEF ReadInv
  <2>2. PICK n \in 0..Len(plan) : WasRead(n) /\ config = Declared(SubSeq(plan, 1, n))
        BY <2>1 DEF Accepted
  <2> DEFINE es == SubSeq(plan, 1, n)
  <2>3. es \in Seq(Entries)
        BY <2>1, FirstAre
  <2>4. Readable(es) /\ config = Declared(es)
        BY <2>2 DEF WasRead
  <2> HIDE DEF es
  <2> QED BY <1>1, <2>3, <2>4, SitesAreOK
<1>2. read \in 0..Len(file)
      BY DEF ReadInv
<1> QED BY <1>1, <1>2 DEF TypeOK, Kinds, States

\* Every variable has its type, and every handler of an accepted config one of the two
\* kinds there are (config_parse, 473-485 and 626-668): each is asked for at the end of
\* the file, and a type that is neither is rejected where it stands.
THEOREM ConfigTypes == Spec => []TypeOK
<1>1. Init => ReadInv /\ Kinds
      BY ReadInit, KindsInit
<1>2. ReadInv /\ Kinds /\ [Next]_vars => ReadInv' /\ Kinds'
      BY ReadStep, KindsStep
<1>3. ReadInv /\ Kinds => TypeOK
      BY KindsImply
<1> QED BY <1>1, <1>2, <1>3, PTL DEF Spec

-----------------------------------------------------------------------------
(* The logs.                                                               *)

\* The verbosity of what is accepted is one of the levels.
LEMMA LevelsDeclared ==
  ASSUME NEW es \in Seq(Entries), Readable(es) PROVE Declared(es).serverVerbosity \in Levels
<1> DEFINE S == {k \in Seq(Entries) : TypedPlan(k) => LevelsBody(LoggingBody(k))}
           log == LoggingBody(es)
<1>1. <<>> \in S
  <2>1. LevelsBody(LoggingBody(<<>>)) /\ <<>> \in Seq(Entries)
        BY LoggingBodyNone, ForNone DEF LevelsBody
  <2> QED BY <2>1
<1>2. ASSUME NEW k \in Seq(Entries), k \in S, NEW x \in Entries PROVE Append(k, x) \in S
  <2> SUFFICES ASSUME TypedPlan(Append(k, x)) PROVE LevelsBody(LoggingBody(Append(k, x)))
      OBVIOUS
  <2>1. TypedPlan(k) /\ (x.key = "logging" => LevelsBody(x.body))
        BY TypedPlanNext
  <2>2. LoggingBody(k) \in Seq(LoggingSettings) /\ LevelsBody(LoggingBody(k))
        BY <1>2, <2>1, LoggingBodyNext
  <2>3. CASE x.key = "logging"
    <3> DEFINE a == LoggingBody(k)
               b == x.body
    <3>1. b \in Seq(LoggingSettings)
          BY <2>3, EntryIs DEF LoggingBlocks, LoggingSettings
    <3>2. LoggingBody(Append(k, x)) = a \o b
          BY <2>3, LoggingBodyNext
    <3> HIDE DEF a, b
    <3>3. ASSUME NEW y \in For(a \o b, "verbosity") PROVE y.value \in Levels
      <4>1. y.key = "verbosity" /\ y \in ToSet(a \o b)
            BY DEF For
      <4>2. PICK n \in 1..Len(a \o b) : y = (a \o b)[n]
        <5>1. a \o b \in Seq(LoggingSettings)
              BY <2>2, <3>1 DEF a
        <5>2. DOMAIN (a \o b) = 1..Len(a \o b)
              BY <5>1
        <5> QED BY <4>1, <5>2 DEF ToSet
      <4>3. y \in ToSet(a) \/ y \in ToSet(b)
        <5>1. /\ Len(a) \in Nat /\ Len(b) \in Nat /\ Len(a \o b) = Len(a) + Len(b)
              /\ DOMAIN a = 1..Len(a) /\ DOMAIN b = 1..Len(b)
              /\ (a \o b)[n] = IF n <= Len(a) THEN a[n] ELSE b[n - Len(a)]
              BY <2>2, <3>1 DEF a
        <5>2. CASE n <= Len(a)
              BY <4>2, <5>1, <5>2 DEF ToSet
        <5>3. CASE ~(n <= Len(a))
          <6>1. n - Len(a) \in 1..Len(b)
                BY <5>1, <5>3
          <6> QED BY <4>2, <5>1, <5>3, <6>1 DEF ToSet
        <5> QED BY <5>2, <5>3
      <4> QED BY <2>1, <2>2, <2>3, <4>1, <4>3 DEF LevelsBody, For, a, b
    <3> QED BY <3>2, <3>3 DEF LevelsBody
  <2>4. CASE x.key # "logging"
        BY <2>2, <2>4, LoggingBodyNext
  <2> QED BY <2>3, <2>4
<1> HIDE DEF S
<1>3. es \in S
      BY <1>1, <1>2, InductSequence
<1>4. LevelsBody(log)
      BY <1>3, ReadableIs DEF S
<1>5. Declared(es).serverVerbosity = IF For(log, "verbosity") = {} THEN <<"warn">> ELSE LastValue(log, "verbosity")
      BY DEF Declared
<1>6. log \in Seq(LoggingSettings)
  <2>1. ASSUME NEW k \in Seq(Entries) PROVE LoggingBody(k) \in Seq(LoggingSettings)
    <3>1. CASE Entries = {}
      <4>1. k = <<>>
            BY <3>1
      <4>2. <<>> \in Seq(LoggingSettings)
            OBVIOUS
      <4> QED BY <4>1, <4>2, LoggingBodyNone
    <3>2. CASE Entries # {}
          BY <3>2, LoggingBodyNext
    <3> QED BY <3>1, <3>2
  <2> QED BY <2>1
<1> HIDE DEF log
<1>7. For(log, "verbosity") # {} => LastValue(log, "verbosity") \in Levels
      BY <1>4, <1>6, LastIs DEF LevelsBody
<1>8. <<"warn">> \in Levels
      BY DEF Levels
<1> QED BY <1>5, <1>7, <1>8

LEMMA NumbersAre ==
  /\ \A level \in Levels : Number(level) \in Nat /\ Number(level) < 128
  /\ Number(HTTP_ACCESS) = 128
<1>1. /\ Number(<<"debug">>) = 0 /\ Number(<<"info">>) = 2 /\ Number(<<"warn">>) = 3
      /\ Number(<<"error">>) = 4 /\ Number(<<"critical">>) = 5
      BY DEF Number, HTTP_ACCESS
<1>2. Number(HTTP_ACCESS) = 128
      BY DEF Number, HTTP_ACCESS
<1>3. ASSUME NEW level \in Levels PROVE Number(level) \in {0, 2, 3, 4, 5}
  <2>1. \/ level = <<"debug">> \/ level = <<"info">> \/ level = <<"warn">>
        \/ level = <<"error">> \/ level = <<"critical">>
        BY DEF Levels
  <2> QED BY <1>1, <2>1
<1>4. \A n \in {0, 2, 3, 4, 5} : n \in Nat /\ n < 128
      OBVIOUS
<1> QED BY <1>2, <1>3, <1>4

\* Which loggers write what.
LEMMA WritesAre ==
  ASSUME NEW l, NEW v \in Levels, NEW level \in Levels
  PROVE  /\ l.loglevel = v => (Writes(l, level) <=> Number(level) >= Number(v))
         /\ l.loglevel = v => ~Writes(l, HTTP_ACCESS)
         /\ l.loglevel = HTTP_ACCESS => ~Writes(l, level)
         /\ l.loglevel = HTTP_ACCESS => Writes(l, HTTP_ACCESS)
<1>0. /\ Number(v) \in Nat /\ Number(v) < 128 /\ Number(level) \in Nat /\ Number(level) < 128
      /\ Number(HTTP_ACCESS) = 128
      BY NumbersAre
<1>1. ~Custom(v) /\ ~Custom(level) /\ Custom(HTTP_ACCESS)
      BY <1>0 DEF Custom
<1>2. Number(HTTP_ACCESS) >= Number(HTTP_ACCESS) /\ ~(Number(level) >= Number(HTTP_ACCESS))
      BY <1>0
<1> HIDE DEF Levels
<1> QED BY <1>1, <1>2 DEF Writes

Logger(stream, level) == [file |-> stream, loglevel |-> level]
\* The console, and perhaps the server log and the access log.
LoggersSet(v, server, access) ==
  {Logger("stdout", v)} \cup (IF server THEN {Logger("server", v)} ELSE {})
                        \cup (IF access THEN {Logger("access", HTTP_ACCESS)} ELSE {})

LEMMA SetStdout ==
  ASSUME NEW v
  PROVE  setLogging(<<Logger("stdout", <<"error">>)>>, "stdout", v) = <<Logger("stdout", v)>>
<1> DEFINE l == <<Logger("stdout", <<"error">>)>>
           known == {n \in DOMAIN l : l[n].file = "stdout"}
<1>1. Len(l) = 1 /\ DOMAIN l = 1..1 /\ l[1] = Logger("stdout", <<"error">>) /\ l[1].file = "stdout"
      BY DEF Logger
<1>2. \A n \in 1..1 : n = 1
      OBVIOUS
<1> HIDE DEF l
<1>3. known = {1}
      BY <1>1, <1>2
<1>4. Min(known) = 1
  <2>1. {1} \subseteq Nat /\ \A y \in {1} : 1 <= y
        OBVIOUS
  <2> QED BY <1>3, <2>1, MinIs
<1>5. setLogging(l, "stdout", v) = [l EXCEPT ![1].loglevel = v]
  <2>1. Len(l) # MAX_LOGGER - 1
        BY <1>1 DEF MAX_LOGGER
  <2>2. setLogging(l, "stdout", v) = IF known # {} THEN [l EXCEPT ![Min(known)].loglevel = v]
                                     ELSE Append(l, [file |-> "stdout", loglevel |-> v])
        BY <2>1 DEF setLogging
  <2>3. known # {}
        BY <1>3
  <2> HIDE DEF known
  <2> QED BY <1>4, <2>2, <2>3
<1>6. [l EXCEPT ![1].loglevel = v] = <<Logger("stdout", v)>>
      BY DEF l, Logger
<1> QED BY <1>5, <1>6 DEF l

\* Another log is appended.
Unknown(l, stream) == \A n \in DOMAIN l : l[n].file # stream
LEMMA SetOther ==
  ASSUME NEW l, Len(l) \in {1, 2}, NEW stream, Unknown(l, stream), NEW v
  PROVE  setLogging(l, stream, v) = Append(l, Logger(stream, v))
<1>1. {n \in DOMAIN l : l[n].file = stream} = {}
      BY DEF Unknown
<1>2. Len(l) # MAX_LOGGER - 1
  <2>1. MAX_LOGGER - 1 = 9
        BY DEF MAX_LOGGER
  <2> QED BY <2>1
<1> QED BY <1>1, <1>2 DEF setLogging, Logger

\* Before the access log.
Loggers(v, server) ==
  IF server THEN <<Logger("stdout", v), Logger("server", v)>> ELSE <<Logger("stdout", v)>>

LEMMA OpenServer ==
  ASSUME NEW v, NEW server \in BOOLEAN
  PROVE  (IF server THEN setLogging(<<Logger("stdout", v)>>, "server", v) ELSE <<Logger("stdout", v)>>) =
           Loggers(v, server)
<1> DEFINE o == <<Logger("stdout", v)>>
<1>1. Len(o) \in {1, 2} /\ Unknown(o, "server")
      BY DEF Unknown, Logger
<1>2. setLogging(o, "server", v) = Append(o, Logger("server", v))
  <2> HIDE DEF o
  <2> QED BY <1>1, SetOther
<1> QED BY <1>2 DEF Loggers

LEMMA OpenAccess ==
  ASSUME NEW v, NEW server \in BOOLEAN, NEW access \in BOOLEAN, NEW l,
         l = Loggers(v, server)
  PROVE  ToSet(IF access THEN setLogging(l, "access", HTTP_ACCESS) ELSE l) = LoggersSet(v, server, access)
<1>1. CASE ~server
  <2>1. l = <<Logger("stdout", v)>>
        BY <1>1 DEF Loggers
  <2>2. Len(l) \in {1, 2} /\ Unknown(l, "access")
        BY <2>1 DEF Unknown, Logger
  <2>3. setLogging(l, "access", HTTP_ACCESS) = Append(l, Logger("access", HTTP_ACCESS))
        BY <2>2, SetOther
  <2>4. ToSet(l) = {Logger("stdout", v)}
    <3> DEFINE x == Logger("stdout", v)
    <3> HIDE DEF x
    <3>1. DOMAIN <<x>> = {1} /\ <<x>>[1] = x
          OBVIOUS
    <3> QED BY <2>1, <3>1 DEF ToSet, x
  <2>5. ToSet(Append(l, Logger("access", HTTP_ACCESS))) = {Logger("stdout", v), Logger("access", HTTP_ACCESS)}
    <3>1. l \in Seq({Logger("stdout", v)})
      <4> DEFINE x == Logger("stdout", v)
      <4> HIDE DEF x
      <4>1. <<x>> \in Seq({x})
            OBVIOUS
      <4> QED BY <2>1, <4>1 DEF x
    <3> QED BY <2>4, <3>1, OneMore
  <2> QED BY <1>1, <2>3, <2>4, <2>5 DEF LoggersSet
<1>2. CASE server
  <2> DEFINE x == Logger("stdout", v)
             y == Logger("server", v)
  <2>1. l = <<x, y>>
        BY <1>2 DEF Loggers
  <2>2. Len(l) \in {1, 2} /\ Unknown(l, "access")
    <3>1. x.file = "stdout" /\ y.file = "server"
          BY DEF Logger
    <3> HIDE DEF x, y
    <3>2. Len(l) = 2 /\ DOMAIN l = {1, 2} /\ l[1] = x /\ l[2] = y
          BY <2>1
    <3> QED BY <3>1, <3>2 DEF Unknown
  <2>3. setLogging(l, "access", HTTP_ACCESS) = Append(l, Logger("access", HTTP_ACCESS))
        BY <2>2, SetOther
  <2>4. ToSet(l) = {x, y} /\ l \in Seq({x, y})
    <3> HIDE DEF x, y
    <3>1. DOMAIN <<x, y>> = {1, 2} /\ <<x, y>>[1] = x /\ <<x, y>>[2] = y /\ <<x, y>> \in Seq({x, y})
          OBVIOUS
    <3> DEFINE z == <<x, y>>
    <3>2. DOMAIN z = {1, 2} /\ z[1] = x /\ z[2] = y /\ z \in Seq({x, y}) /\ l = z
          BY <2>1, <3>1
    <3> HIDE DEF z
    <3> QED BY <3>2 DEF ToSet
  <2>5. ToSet(Append(l, Logger("access", HTTP_ACCESS))) = {x, y} \cup {Logger("access", HTTP_ACCESS)}
    <3> HIDE DEF x, y
    <3> QED BY <2>4, OneMore
  <2> QED BY <1>2, <2>3, <2>4, <2>5 DEF LoggersSet
<1> QED BY <1>1, <1>2

Configured(l) ==
  \E server, access \in BOOLEAN :
    /\ ToSet(l) = LoggersSet(config.serverVerbosity, server, access)
    /\ access => config.accessLogfile # NULL

\* Once a config was accepted its verbosity is a level, and when the logs are open, they
\* are those it names.
LogInv ==
  /\ phase # "serving" => logger = <<Logger("stdout", <<"error">>)>>
  /\ phase = "serving" => config.serverVerbosity \in Levels /\ Configured(logger)

LEMMA LogInit == Init => LogInv
BY DEF Init, LogInv, Logger

LEMMA LogStep == ReadInv /\ LogInv /\ [Next]_vars => LogInv'
<1> SUFFICES ASSUME ReadInv, LogInv, [Next]_vars PROVE LogInv'
    OBVIOUS
<1>1. CASE Understood
  <2>1. UNCHANGED <<phase, logger>> /\ Reading
        BY <1>1, UnderstoodIs
  <2>2. phase = "parsing"
        BY <2>1 DEF Reading
  <2> QED BY <2>1, <2>2 DEF LogInv
<1>2. CASE Unexpected
      BY <1>2 DEF Unexpected, Reading, Rejected, LogInv
<1>3. CASE AllocationFails
  <2>1. Reading
        BY <1>3 DEF AllocationFails, Allocating, Word, Token, HasAddress, FirstSsl, OfFiles
  <2>2. phase = "parsing" /\ phase' = "rejected" /\ logger' = logger
        BY <1>3, <2>1 DEF AllocationFails, Reading, Rejected
  <2> QED BY <2>2 DEF LogInv
<1>4. CASE EofAccepts
      BY <1>4 DEF EofAccepts, AtEof, LogInv
<1>5. CASE EofRejects
      BY <1>5 DEF EofRejects, AtEof, Rejected, LogInv
<1>6. CASE SslFails
      BY <1>6 DEF SslFails, AtEof, Rejected, LogInv
<1>7. CASE config_setLogging
  <2> DEFINE v == config.serverVerbosity
             out == setLogging(logger, "stdout", v)
             l(server) == IF server THEN setLogging(out, "server", v) ELSE out
  <2>1. phase = "accepted" /\ phase' = "serving" /\ config' = config
        BY <1>7 DEF config_setLogging
  <2>2. PICK opened \in SUBSET {"server", "access"} :
          logger' = IF config.accessLogfile # NULL /\ "access" \in opened
                      THEN setLogging(l(config.serverLogfile # NULL /\ "server" \in opened), "access", HTTP_ACCESS)
                      ELSE l(config.serverLogfile # NULL /\ "server" \in opened)
        BY <1>7 DEF config_setLogging
  <2>3. PICK server \in BOOLEAN, access \in BOOLEAN :
          /\ logger' = IF access THEN setLogging(l(server), "access", HTTP_ACCESS) ELSE l(server)
          /\ access => config.accessLogfile # NULL
    <3> HIDE DEF out, v
    <3> QED BY <2>2
  <2>4. out = <<Logger("stdout", v)>>
    <3>1. logger = <<Logger("stdout", <<"error">>)>>
          BY <2>1 DEF LogInv
    <3> HIDE DEF v
    <3> QED BY <3>1, SetStdout
  <2>5. v \in Levels
    <3>1. Accepted /\ plan \in Seq(Entries)
          BY <2>1 DEF ReadInv
    <3>2. PICK n \in 0..Len(plan) : WasRead(n) /\ config = Declared(SubSeq(plan, 1, n))
          BY <3>1 DEF Accepted
    <3> DEFINE es == SubSeq(plan, 1, n)
    <3>3. es \in Seq(Entries)
          BY <3>1, FirstAre
    <3>4. Readable(es) /\ config = Declared(es)
          BY <3>2 DEF WasRead
    <3> HIDE DEF es
    <3> QED BY <3>3, <3>4, LevelsDeclared
  <2>6. ToSet(logger') = LoggersSet(v, server, access)
    <3> HIDE DEF out, v
    <3>1. l(server) = Loggers(v, server)
          BY <2>4, OpenServer
    <3> HIDE DEF l
    <3> QED BY <2>3, <3>1, OpenAccess
  <2>7. Configured(logger)'
    <3>1. ToSet(logger') = LoggersSet(config'.serverVerbosity, server, access)
          BY <2>1, <2>6
    <3>2. access => config'.accessLogfile # NULL
          BY <2>1, <2>3
    <3> QED BY <3>1, <3>2 DEF Configured
  <2> QED BY <2>1, <2>5, <2>7 DEF LogInv
<1>8. CASE UNCHANGED vars
      BY <1>8 DEF vars, LogInv, Configured
<1> QED BY <1>1, <1>2, <1>3, <1>4, <1>5, <1>6, <1>7, <1>8 DEF Next

LEMMA LogImplies == LogInv => LogsAsConfigured
<1> SUFFICES ASSUME LogInv, phase = "serving" PROVE LogsAsConfigured
    BY DEF LogsAsConfigured
<1> DEFINE v == config.serverVerbosity
           files == {l.file : l \in ToSet(logger)}
           Writers(level) == {l.file : l \in {l \in ToSet(logger) : Writes(l, level)}}
<1>1. v \in Levels
      BY DEF LogInv
<1>2. PICK server, access \in BOOLEAN :
        ToSet(logger) = LoggersSet(v, server, access) /\ (access => config.accessLogfile # NULL)
      BY DEF LogInv, Configured
<1> HIDE DEF v
<1>3. \A l \in ToSet(logger) :
        \/ l.file \in {"stdout", "server"} /\ l.loglevel = v
        \/ l.file = "access" /\ l.loglevel = HTTP_ACCESS /\ access
      BY <1>2 DEF LoggersSet, Logger
<1>4. Writers(HTTP_ACCESS) = files \cap {"access"}
  <2>1. \A l \in ToSet(logger) : Writes(l, HTTP_ACCESS) <=> l.file = "access"
        BY <1>1, <1>3, WritesAre
  <2> QED BY <2>1
<1>5. "access" \in files => config.accessLogfile # NULL
      BY <1>2, <1>3
<1>6. ASSUME NEW level \in Levels
      PROVE  Writers(level) = IF Number(level) >= Number(v) THEN files \ {"access"} ELSE {}
  <2>1. \A l \in ToSet(logger) : Writes(l, level) <=> l.file # "access" /\ Number(level) >= Number(v)
        BY <1>1, <1>3, WritesAre
  <2> QED BY <2>1
<1> QED BY <1>4, <1>5, <1>6 DEF LogsAsConfigured, v

\* What is logged goes where the config says (config_setLogging, 715-739, and vlogging):
\* whatever the config, and whichever of its logs can be opened.
THEOREM LogsFollowTheConfig == Spec => []LogsAsConfigured
<1>1. Init => ReadInv /\ LogInv
      BY ReadInit, LogInit
<1>2. ReadInv /\ LogInv /\ [Next]_vars => ReadInv' /\ LogInv'
      BY ReadStep, LogStep
<1>3. LogInv => LogsAsConfigured
      BY LogImplies
<1> QED BY <1>1, <1>2, <1>3, PTL DEF Spec

-----------------------------------------------------------------------------
(* Which site, and which handler of it: the loops of config_getHandler.    *)

Picks == [site : SiteConfigs \cup {NULL}, done : BOOLEAN]
NoSite == [site |-> NULL, done |-> FALSE]
Looks(sites, host, g) ==
  g = [n \in 0..Len(sites) |-> IF n = 0 THEN NoSite ELSE Look(g[n - 1], sites[n], host)]

LEMMA LookType ==
  ASSUME NEW r \in Picks, NEW site \in SiteConfigs, NEW host
  PROVE  /\ Look(r, site, host) \in Picks
         /\ r.done => Look(r, site, host) = r
         /\ ~r.done /\ site.hostnames = <<>> =>
              Look(r, site, host).site = site /\ ~Look(r, site, host).done
         /\ ~r.done /\ site.hostnames # <<>> /\ Serves(site, host) =>
              Look(r, site, host).site = site /\ Look(r, site, host).done
         /\ ~r.done /\ site.hostnames # <<>> /\ ~Serves(site, host) =>
              /\ Look(r, site, host).site = r.site
              /\ Look(r, site, host).done <=> r.site # NULL
<1> DEFINE l == Look(r, site, host)
<1>1. NULL \notin SiteConfigs
      BY ConfigAssumption
<1>2. r = [site |-> r.site, done |-> r.done] /\ r.site \in SiteConfigs \cup {NULL} /\ r.done \in BOOLEAN
      BY DEF Picks
<1>3. CASE r.done
  <2>1. l = r
        BY <1>3 DEF Look
  <2> QED BY <1>3, <2>1
<1>4. CASE ~r.done /\ site.hostnames = <<>>
  <2>1. l = [r EXCEPT !.site = site]
        BY <1>4 DEF Look
  <2>2. [r EXCEPT !.site = site] = [site |-> site, done |-> r.done]
        BY <1>2
  <2>3. l.site = site /\ l.done = r.done /\ l \in Picks
        BY <1>2, <2>1, <2>2 DEF Picks
  <2> QED BY <1>4, <2>3
<1>5. CASE ~r.done /\ site.hostnames # <<>> /\ Serves(site, host)
  <2>1. l = [site |-> site, done |-> site # NULL]
        BY <1>5 DEF Look
  <2>2. site # NULL
        BY <1>1
  <2> DEFINE b == site # NULL
  <2>4. b = TRUE
        BY <2>2
  <2>5. l = [site |-> site, done |-> b]
        BY <2>1
  <2> HIDE DEF b, l
  <2>6. l = [site |-> site, done |-> TRUE]
        BY <2>4, <2>5
  <2>3. l.site = site /\ l.done /\ l \in Picks
        BY <2>6 DEF Picks
  <2> QED BY <1>5, <2>3 DEF l
<1>6. CASE ~r.done /\ site.hostnames # <<>> /\ ~Serves(site, host)
  <2>1. l = [site |-> r.site, done |-> r.site # NULL]
        BY <1>6 DEF Look
  <2> DEFINE b == r.site # NULL
  <2>2. b \in BOOLEAN /\ (b <=> r.site # NULL)
        OBVIOUS
  <2>3. l = [site |-> r.site, done |-> b]
        BY <2>1
  <2> HIDE DEF b, l
  <2>4. l.site = r.site /\ l.done = b /\ l \in Picks
        BY <1>2, <2>2, <2>3 DEF Picks
  <2> QED BY <1>6, <2>2, <2>4 DEF l
<1> QED BY <1>3, <1>4, <1>5, <1>6

LEMMA LooksExist ==
  ASSUME NEW sites \in Seq(SiteConfigs), NEW host
  PROVE  \E g : /\ g \in [0..Len(sites) -> Picks] /\ g[0] = NoSite
                /\ \A i \in 1..Len(sites) : g[i] = Look(g[i - 1], sites[i], host)
                /\ ChosenSite(sites, host) = g[Len(sites)].site
<1> DEFINE N == Len(sites)
           step == [p \in (1..N) \X Picks |-> Look(p[2], sites[p[1]], host)]
<1>1. N \in Nat /\ \A i \in 1..N : sites[i] \in SiteConfigs
      BY LenProperties, ElementOfSeq
<1>2. step \in [(1..N) \X Picks -> Picks]
  <2>1. ASSUME NEW p \in (1..N) \X Picks PROVE Look(p[2], sites[p[1]], host) \in Picks
    <3>1. p[1] \in 1..N /\ p[2] \in Picks
          OBVIOUS
    <3> QED BY <1>1, <3>1, LookType
  <2> QED BY <2>1
<1>3. NoSite \in Picks
      BY DEF NoSite, Picks
<1>4. \A i \in 1..N, r \in Picks : step[<<i, r>>] = Look(r, sites[i], host)
      OBVIOUS
<1> HIDE DEF N, step
<1>5. PICK f : Iterates(f, N, Picks, NoSite, step)
      BY <1>1, <1>2, <1>3, Recursion
<1>6. ASSUME NEW i \in 0..N PROVE f[i] = IF i = 0 THEN NoSite ELSE Look(f[i - 1], sites[i], host)
  <2>1. CASE i = 0
        BY <1>5, <2>1 DEF Iterates
  <2>2. CASE i # 0
    <3>1. i \in 1..N /\ i - 1 \in 0..N
          BY <1>1, <2>2
    <3>2. f[i - 1] \in Picks /\ f[i] = step[<<i, f[i - 1]>>]
          BY <1>5, <3>1 DEF Iterates
    <3> QED BY <1>4, <2>2, <3>1, <3>2
  <2> QED BY <2>1, <2>2
<1>7. Looks(sites, host, f)
  <2> DEFINE e(i) == IF i = 0 THEN NoSite ELSE Look(f[i - 1], sites[i], host)
  <2>1. f = [i \in 0..N |-> f[i]] /\ \A i \in 0..N : f[i] = e(i)
        BY <1>5, <1>6 DEF Iterates
  <2> HIDE DEF e
  <2>2. f = [i \in 0..N |-> e(i)]
        BY <2>1
  <2> QED BY <2>2 DEF Looks, N, e
<1> DEFINE g == CHOOSE h : Looks(sites, host, h)
<1>8. Looks(sites, host, g)
      BY <1>7
<1>9. ChosenSite(sites, host) = g[N].site
      BY DEF ChosenSite, Looks, NoSite, N
<1> HIDE DEF g
<1>10. DOMAIN g = 0..N /\ g = [i \in 0..N |-> g[i]]
       /\ \A i \in 0..N : g[i] = IF i = 0 THEN NoSite ELSE Look(g[i - 1], sites[i], host)
      BY <1>8 DEF Looks, N
<1>11. 0 \in 0..N /\ \A i \in 1..N : i \in 0..N /\ i # 0
      BY <1>1
<1>12. g[0] = NoSite /\ \A i \in 1..N : g[i] = Look(g[i - 1], sites[i], host)
      BY <1>10, <1>11
<1>13. \A i \in 0..N : g[i] \in Picks
  <2> DEFINE T == {i \in Nat : i \in 0..N => g[i] \in Picks}
  <2>1. 0 \in T
        BY <1>3, <1>12
  <2>2. ASSUME NEW n \in Nat, n \in T PROVE n + 1 \in T
    <3> DEFINE m == n + 1
    <3> SUFFICES ASSUME m \in 0..N PROVE g[m] \in Picks
        OBVIOUS
    <3>1. m \in 1..N /\ n \in 0..N /\ m - 1 = n
          BY <1>1
    <3>2. g[n] \in Picks
          BY <2>2, <3>1
    <3> HIDE DEF m
    <3>3. g[m] = Look(g[n], sites[m], host)
          BY <1>12, <3>1
    <3> QED BY <1>1, <3>1, <3>2, <3>3, LookType
  <2> HIDE DEF T
  <2>3. \A n \in Nat : n \in T
        BY <2>1, <2>2, Induct
  <2>4. \A i \in 0..N : i \in Nat
        BY <1>1
  <2> QED BY <2>3, <2>4 DEF T
<1>14. g \in [0..N -> Picks]
      BY <1>10, <1>13
<1> QED BY <1>9, <1>12, <1>14 DEF N

NamelessAt(sites, i) == sites[i].hostnames = <<>>
CatchAll(sites) ==
  {i \in DOMAIN sites : NamelessAt(sites, i) \/ Wildcard \in ToSet(sites[i].hostnames)}
Named(sites, host) == {i \in DOMAIN sites : host \in ToSet(sites[i].hostnames)}
Reached(sites, host) ==
  {i \in Named(sites, host) : \A j \in CatchAll(sites) : \A k \in j..i - 1 : NamelessAt(sites, k)}

LEMMA RightSiteIs ==
  ASSUME NEW sites, NEW host, NEW site
  PROVE  RightSite(sites, host, site) <=>
           IF site = NULL THEN Named(sites, host) \cup CatchAll(sites) = {}
           ELSE /\ Serves(site, host)
                /\ Reached(sites, host) # {} => site = sites[Min(Reached(sites, host))]
BY DEF RightSite, Named, CatchAll, Reached, NamelessAt

LEMMA ServesIs ==
  ASSUME NEW sites, NEW host, NEW i \in DOMAIN sites
  PROVE  /\ Serves(sites[i], host) <=> i \in Named(sites, host) \/ i \in CatchAll(sites)
         /\ i \in Named(sites, host) => ~NamelessAt(sites, i)
         /\ NamelessAt(sites, i) => i \in CatchAll(sites)
<1>1. ToSet(<<>>) = {}
      BY DEF ToSet
<1>2. i \in Named(sites, host) => ~NamelessAt(sites, i)
      BY <1>1 DEF Named, NamelessAt
<1>3. Serves(sites[i], host) <=>
        NamelessAt(sites, i) \/ host \in ToSet(sites[i].hostnames) \/ Wildcard \in ToSet(sites[i].hostnames)
      BY DEF Serves, NamelessAt
<1>4. i \in Named(sites, host) <=> host \in ToSet(sites[i].hostnames)
      BY DEF Named
<1>5. i \in CatchAll(sites) <=> NamelessAt(sites, i) \/ Wildcard \in ToSet(sites[i].hostnames)
      BY DEF CatchAll
<1> QED BY <1>2, <1>3, <1>4, <1>5

\* After the first n sites: the one taken serves the host, and none was taken only if none
\* does; a search that goes on with a site has taken one without a name.
Searched(sites, host, r, n) ==
  /\ r.site # NULL => \E i \in 1..n : r.site = sites[i] /\ Serves(sites[i], host)
  /\ r.site = NULL => ~r.done /\ \A i \in 1..n : ~Serves(sites[i], host)
  /\ r.site # NULL /\ ~r.done => \E i \in 1..n : NamelessAt(sites, i)

LEMMA SearchedNext ==
  ASSUME NEW sites \in Seq(SiteConfigs), NEW host, NEW n \in Nat, NEW m \in 1..Len(sites), m = n + 1,
         NEW r \in Picks, Searched(sites, host, r, n)
  PROVE  Searched(sites, host, Look(r, sites[m], host), m)
<1> DEFINE l == Look(r, sites[m], host)
<1>1. sites[m] \in SiteConfigs /\ sites[m] # NULL
  <2>1. sites[m] \in SiteConfigs
        BY ElementOfSeq
  <2> QED BY <2>1, ConfigAssumption
<1>2. m \in 1..m /\ (\A i \in 1..n : i \in 1..m) /\ \A i \in 1..m : i = m \/ i \in 1..n
      OBVIOUS
<1>3. NamelessAt(sites, m) <=> sites[m].hostnames = <<>>
      BY DEF NamelessAt
<1>4. NamelessAt(sites, m) => Serves(sites[m], host)
      BY DEF NamelessAt, Serves
<1>5. CASE r.done
  <2>1. l = r
        BY <1>1, <1>5, LookType
  <2> HIDE DEF l
  <2>2. r.site # NULL
        BY <1>5 DEF Searched
  <2>3. \E i \in 1..m : r.site = sites[i] /\ Serves(sites[i], host)
        BY <1>2, <2>2 DEF Searched
  <2>4. Searched(sites, host, l, m)
        BY <1>5, <2>1, <2>2, <2>3 DEF Searched
  <2> QED BY <2>4 DEF l
<1>6. CASE ~r.done /\ NamelessAt(sites, m)
  <2>1. l.site = sites[m] /\ ~l.done
        BY <1>1, <1>3, <1>6, LookType
  <2> HIDE DEF l
  <2>2. Searched(sites, host, l, m)
        BY <1>1, <1>2, <1>4, <1>6, <2>1 DEF Searched
  <2> QED BY <2>2 DEF l
<1>7. CASE ~r.done /\ ~NamelessAt(sites, m) /\ Serves(sites[m], host)
  <2>1. l.site = sites[m] /\ l.done
        BY <1>1, <1>3, <1>7, LookType
  <2> HIDE DEF l
  <2>2. Searched(sites, host, l, m)
        BY <1>1, <1>2, <1>7, <2>1 DEF Searched
  <2> QED BY <2>2 DEF l
<1>8. CASE ~r.done /\ ~NamelessAt(sites, m) /\ ~Serves(sites[m], host)
  <2>1. l.site = r.site /\ (l.done <=> r.site # NULL)
        BY <1>1, <1>3, <1>8, LookType
  <2> HIDE DEF l
  <2>2. r.site # NULL => \E i \in 1..m : r.site = sites[i] /\ Serves(sites[i], host)
        BY <1>2 DEF Searched
  <2>3. r.site = NULL => \A i \in 1..m : ~Serves(sites[i], host)
        BY <1>2, <1>8 DEF Searched
  <2>4. Searched(sites, host, l, m)
        BY <2>1, <2>2, <2>3 DEF Searched
  <2> QED BY <2>4 DEF l
<1> QED BY <1>5, <1>6, <1>7, <1>8

\* Before the first site that must be reached the search is not over, and there it ends.
Reaches(sites, r, n, m) == IF n < m THEN ~r.done ELSE r.done /\ r.site = sites[m]

LEMMA ReachesNext ==
  ASSUME NEW sites \in Seq(SiteConfigs), NEW host,
         NEW m \in Reached(sites, host), \A i \in Reached(sites, host) : m <= i,
         NEW n \in Nat, NEW k \in 1..Len(sites), k = n + 1,
         NEW r \in Picks, Searched(sites, host, r, n), Reaches(sites, r, n, m)
  PROVE  Reaches(sites, Look(r, sites[k], host), k, m)
<1> DEFINE l == Look(r, sites[k], host)
<1>1. Len(sites) \in Nat /\ DOMAIN sites = 1..Len(sites)
      BY LenProperties
<1>2. sites[k] \in SiteConfigs
      BY ElementOfSeq
<1>3. /\ m \in 1..Len(sites) /\ m \in Named(sites, host)
      /\ \A j \in CatchAll(sites) : \A i \in j..m - 1 : NamelessAt(sites, i)
      BY <1>1 DEF Reached, Named
<1>4. NamelessAt(sites, k) <=> sites[k].hostnames = <<>>
      BY DEF NamelessAt
<1>5. CASE n >= m
  <2>1. r.done /\ r.site = sites[m]
        BY <1>1, <1>3, <1>5 DEF Reaches
  <2>2. l = r
        BY <1>2, <2>1, LookType
  <2>3. ~(k < m)
        BY <1>1, <1>3, <1>5
  <2> QED BY <2>1, <2>2, <2>3 DEF Reaches
<1>6. CASE k = m
  <2>1. ~r.done
    <3>1. n < m
          BY <1>6
    <3> QED BY <3>1 DEF Reaches
  <2>2. Serves(sites[k], host) /\ ~NamelessAt(sites, k)
        BY <1>1, <1>3, <1>6, ServesIs
  <2>3. l.done /\ l.site = sites[k]
        BY <1>2, <1>4, <2>1, <2>2, LookType
  <2>4. ~(k < m)
        BY <1>1, <1>6
  <2> QED BY <1>6, <2>3, <2>4 DEF Reaches
<1>7. CASE k < m
  <2>1. ~r.done
    <3>1. n < m
          BY <1>1, <1>3, <1>7
    <3> QED BY <3>1 DEF Reaches
  <2>2. ASSUME NEW i \in 1..k, i \in CatchAll(sites) PROVE NamelessAt(sites, k)
    <3>1. k \in i..m - 1
          BY <1>1, <1>3, <1>7
    <3> QED BY <1>3, <2>2, <3>1
  <2>3. k \in 1..k
        OBVIOUS
  <2>4. CASE NamelessAt(sites, k)
    <3>1. ~l.done
          BY <1>2, <1>4, <2>1, <2>4, LookType
    <3> QED BY <1>7, <3>1 DEF Reaches
  <2>5. CASE ~NamelessAt(sites, k)
    <3>1. k \notin CatchAll(sites)
          BY <2>2, <2>3, <2>5
    <3>2. k \notin Named(sites, host)
      <4>1. SUFFICES ASSUME k \in Named(sites, host) PROVE FALSE
            OBVIOUS
      <4>2. ASSUME NEW j \in CatchAll(sites), NEW i \in j..k - 1 PROVE NamelessAt(sites, i)
        <5>1. j \in 1..Len(sites)
              BY <1>1 DEF CatchAll
        <5>2. i \in j..m - 1
              BY <1>1, <1>3, <1>7, <5>1
        <5> QED BY <1>3, <5>2
      <4>3. k \in Reached(sites, host)
            BY <4>1, <4>2 DEF Reached
      <4>4. m <= k
            BY <4>3
      <4> QED BY <1>1, <1>3, <1>7, <4>4
    <3>3. ~Serves(sites[k], host)
          BY <1>1, <3>1, <3>2, ServesIs
    <3>4. r.site = NULL
      <4>1. SUFFICES ASSUME r.site # NULL PROVE FALSE
            OBVIOUS
      <4>2. PICK i \in 1..n : NamelessAt(sites, i)
            BY <2>1, <4>1 DEF Searched
      <4>3. i \in 1..k /\ i \in 1..Len(sites)
            BY <1>1
      <4>4. i \in CatchAll(sites)
            BY <1>1, <4>2, <4>3, ServesIs
      <4> QED BY <2>2, <2>5, <4>3, <4>4
    <3>5. ~l.done
          BY <1>2, <1>4, <2>1, <2>5, <3>3, <3>4, LookType
    <3> QED BY <1>7, <3>5 DEF Reaches
  <2> QED BY <2>4, <2>5
<1>8. n >= m \/ k = m \/ k < m
      BY <1>1, <1>3
<1> QED BY <1>5, <1>6, <1>7, <1>8

\* The search for a site finds the right one, whatever sites there are.
LEMMA SiteIsRight ==
  ASSUME NEW sites \in Seq(SiteConfigs), NEW host
  PROVE  /\ RightSite(sites, host, ChosenSite(sites, host))
         /\ ChosenSite(sites, host) # NULL =>
              \E n \in DOMAIN sites : ChosenSite(sites, host) = sites[n]
<1> DEFINE N == Len(sites)  site == ChosenSite(sites, host)
<1>1. N \in Nat /\ DOMAIN sites = 1..N
      BY LenProperties
<1>2. PICK g : /\ g \in [0..N -> Picks] /\ g[0] = NoSite
               /\ \A i \in 1..N : g[i] = Look(g[i - 1], sites[i], host)
               /\ site = g[N].site
      BY LooksExist
<1> HIDE DEF N, site
<1>3. \A n \in 0..N : Searched(sites, host, g[n], n)
  <2> DEFINE T == {n \in Nat : n <= N => Searched(sites, host, g[n], n)}
  <2>1. 0 \in T
    <3>1. 1..0 = {} /\ NoSite.site = NULL /\ ~NoSite.done
          BY DEF NoSite
    <3> QED BY <1>2, <3>1 DEF Searched
  <2>2. ASSUME NEW n \in Nat, n \in T PROVE n + 1 \in T
    <3> DEFINE m == n + 1
    <3> SUFFICES ASSUME m <= N PROVE Searched(sites, host, g[m], m)
        OBVIOUS
    <3>1. m \in 1..N /\ n \in 0..N /\ m - 1 = n /\ n <= N /\ m = n + 1
          BY <1>1
    <3> HIDE DEF m
    <3>2. g[n] \in Picks /\ Searched(sites, host, g[n], n) /\ g[m] = Look(g[n], sites[m], host)
          BY <1>2, <2>2, <3>1
    <3> QED BY <3>1, <3>2, SearchedNext DEF N
  <2> HIDE DEF T
  <2>3. \A n \in Nat : n \in T
        BY <2>1, <2>2, Induct
  <2>4. \A n \in 0..N : n \in Nat /\ n <= N
        BY <1>1
  <2> QED BY <2>3, <2>4 DEF T
<1>4. Searched(sites, host, g[N], N)
      BY <1>1, <1>3
<1>5. site # NULL => \E i \in 1..N : site = sites[i] /\ Serves(sites[i], host)
      BY <1>2, <1>4 DEF Searched
<1>6. site = NULL => Named(sites, host) \cup CatchAll(sites) = {}
  <2> SUFFICES ASSUME site = NULL, NEW i \in Named(sites, host) \cup CatchAll(sites) PROVE FALSE
      OBVIOUS
  <2>1. i \in DOMAIN sites
        BY DEF Named, CatchAll
  <2>2. Serves(sites[i], host)
        BY <2>1, ServesIs
  <2>3. ~Serves(sites[i], host)
        BY <1>1, <1>2, <1>4, <2>1 DEF Searched
  <2> QED BY <2>2, <2>3
<1>7. ASSUME Reached(sites, host) # {} PROVE site = sites[Min(Reached(sites, host))]
  <2> DEFINE R == Reached(sites, host)
  <2>1. R \subseteq 1..N
        BY <1>1 DEF Reached, Named
  <2>2. R \subseteq Nat
        BY <1>1, <2>1
  <2>3. PICK m \in R : \A i \in R : m <= i
    <3> HIDE DEF R
    <3>1. R # {}
          BY <1>7 DEF R
    <3> QED BY <2>2, <3>1, Minimum
  <2>4. Min(R) = m
    <3> HIDE DEF R
    <3> QED BY <2>2, <2>3, MinIs
  <2>5. m \in 1..N
        BY <2>1, <2>3
  <2> DEFINE T == {n \in Nat : n <= N => Reaches(sites, g[n], n, m)}
  <2>6. 0 \in T
    <3>1. 0 < m /\ ~NoSite.done
          BY <1>1, <2>5 DEF NoSite
    <3> QED BY <1>2, <3>1 DEF Reaches
  <2>7. ASSUME NEW n \in Nat, n \in T PROVE n + 1 \in T
    <3> DEFINE k == n + 1
    <3> SUFFICES ASSUME k <= N PROVE Reaches(sites, g[k], k, m)
        OBVIOUS
    <3>1. k \in 1..N /\ n \in 0..N /\ k - 1 = n /\ n <= N /\ k = n + 1
          BY <1>1
    <3> HIDE DEF k
    <3>2. /\ g[n] \in Picks /\ Searched(sites, host, g[n], n) /\ g[k] = Look(g[n], sites[k], host)
          /\ Reaches(sites, g[n], n, m)
          BY <1>2, <1>3, <2>7, <3>1
    <3> QED BY <2>3, <3>1, <3>2, ReachesNext DEF N
  <2> HIDE DEF T
  <2>8. N \in T
        BY <1>1, <2>6, <2>7, Induct
  <2>9. Reaches(sites, g[N], N, m)
        BY <1>1, <2>8 DEF T
  <2>10. ~(N < m)
        BY <1>1, <2>5
  <2> QED BY <1>2, <2>4, <2>9, <2>10 DEF Reaches
<1>8. RightSite(sites, host, site)
      BY <1>5, <1>6, <1>7, RightSiteIs
<1> QED BY <1>1, <1>5, <1>8 DEF site

PlacedHandlers == {h \in HandlerConfigs : h.dir \in Values}
PlacedSites == {s \in SiteConfigs : s.handlers \in Seq(PlacedHandlers)}

Matches == [length : Nat, handler : HandlerConfigs \cup {NULL}]
NoMatch == [length |-> 0, handler |-> NULL]
Bests(handlers, path, g) ==
  g = [n \in 0..Len(handlers) |-> IF n = 0 THEN NoMatch ELSE Match(g[n - 1], handlers[n], path)]

LEMMA MatchType ==
  ASSUME NEW b \in Matches, NEW h \in PlacedHandlers, NEW path
  PROVE  /\ Match(b, h, path) \in Matches /\ Len(h.dir) \in Nat \ {0} /\ h # NULL
         /\ Len(h.dir) > b.length /\ isInDir(path, h.dir) =>
              Match(b, h, path).length = Len(h.dir) /\ Match(b, h, path).handler = h
         /\ ~(Len(h.dir) > b.length /\ isInDir(path, h.dir)) => Match(b, h, path) = b
<1>1. h \in HandlerConfigs /\ h # NULL /\ h.dir \in Values
      BY ConfigAssumption DEF PlacedHandlers
<1>2. Len(h.dir) \in Nat \ {0}
      BY <1>1, EmptySeq, LenProperties DEF Values
<1>3. [length |-> Len(h.dir), handler |-> h] \in Matches
      BY <1>1, <1>2 DEF Matches
<1> QED BY <1>1, <1>2, <1>3 DEF Match

LEMMA BestsExist ==
  ASSUME NEW handlers \in Seq(PlacedHandlers), NEW path
  PROVE  \E g : /\ g \in [0..Len(handlers) -> Matches] /\ g[0] = NoMatch
                /\ \A i \in 1..Len(handlers) : g[i] = Match(g[i - 1], handlers[i], path)
                /\ ChosenHandler(handlers, path) = g[Len(handlers)].handler
<1> DEFINE N == Len(handlers)
           step == [p \in (1..N) \X Matches |-> Match(p[2], handlers[p[1]], path)]
<1>1. N \in Nat /\ \A i \in 1..N : handlers[i] \in PlacedHandlers
      BY LenProperties, ElementOfSeq
<1>2. step \in [(1..N) \X Matches -> Matches]
  <2>1. ASSUME NEW p \in (1..N) \X Matches PROVE Match(p[2], handlers[p[1]], path) \in Matches
    <3>1. p[1] \in 1..N /\ p[2] \in Matches
          OBVIOUS
    <3> QED BY <1>1, <3>1, MatchType
  <2> QED BY <2>1
<1>3. NoMatch \in Matches
      BY DEF NoMatch, Matches
<1>4. \A i \in 1..N, b \in Matches : step[<<i, b>>] = Match(b, handlers[i], path)
      OBVIOUS
<1> HIDE DEF N, step
<1>5. PICK f : Iterates(f, N, Matches, NoMatch, step)
      BY <1>1, <1>2, <1>3, Recursion
<1>6. ASSUME NEW i \in 0..N
      PROVE  f[i] = IF i = 0 THEN NoMatch ELSE Match(f[i - 1], handlers[i], path)
  <2>1. CASE i = 0
        BY <1>5, <2>1 DEF Iterates
  <2>2. CASE i # 0
    <3>1. i \in 1..N /\ i - 1 \in 0..N
          BY <1>1, <2>2
    <3>2. f[i - 1] \in Matches /\ f[i] = step[<<i, f[i - 1]>>]
          BY <1>5, <3>1 DEF Iterates
    <3> QED BY <1>4, <2>2, <3>1, <3>2
  <2> QED BY <2>1, <2>2
<1>7. Bests(handlers, path, f)
  <2> DEFINE e(i) == IF i = 0 THEN NoMatch ELSE Match(f[i - 1], handlers[i], path)
  <2>1. f = [i \in 0..N |-> f[i]] /\ \A i \in 0..N : f[i] = e(i)
        BY <1>5, <1>6 DEF Iterates
  <2> HIDE DEF e
  <2>2. f = [i \in 0..N |-> e(i)]
        BY <2>1
  <2> QED BY <2>2 DEF Bests, N, e
<1> DEFINE g == CHOOSE h : Bests(handlers, path, h)
<1>8. Bests(handlers, path, g)
      BY <1>7
<1>9. ChosenHandler(handlers, path) = g[N].handler
      BY DEF ChosenHandler, Bests, NoMatch, N
<1> HIDE DEF g
<1>10. DOMAIN g = 0..N /\ g = [i \in 0..N |-> g[i]]
       /\ \A i \in 0..N : g[i] = IF i = 0 THEN NoMatch ELSE Match(g[i - 1], handlers[i], path)
      BY <1>8 DEF Bests, N
<1>11. 0 \in 0..N /\ \A i \in 1..N : i \in 0..N /\ i # 0
      BY <1>1
<1>12. g[0] = NoMatch /\ \A i \in 1..N : g[i] = Match(g[i - 1], handlers[i], path)
      BY <1>10, <1>11
<1>13. \A i \in 0..N : g[i] \in Matches
  <2> DEFINE T == {i \in Nat : i \in 0..N => g[i] \in Matches}
  <2>1. 0 \in T
        BY <1>3, <1>12
  <2>2. ASSUME NEW n \in Nat, n \in T PROVE n + 1 \in T
    <3> DEFINE m == n + 1
    <3> SUFFICES ASSUME m \in 0..N PROVE g[m] \in Matches
        OBVIOUS
    <3>1. m \in 1..N /\ n \in 0..N /\ m - 1 = n
          BY <1>1
    <3>2. g[n] \in Matches
          BY <2>2, <3>1
    <3> HIDE DEF m
    <3>3. g[m] = Match(g[n], handlers[m], path)
          BY <1>12, <3>1
    <3> QED BY <1>1, <3>1, <3>2, <3>3, MatchType
  <2> HIDE DEF T
  <2>3. \A n \in Nat : n \in T
        BY <2>1, <2>2, Induct
  <2>4. \A i \in 0..N : i \in Nat
        BY <1>1
  <2> QED BY <2>3, <2>4 DEF T
<1>14. g \in [0..N -> Matches]
      BY <1>10, <1>13
<1> QED BY <1>9, <1>12, <1>14 DEF N

\* After the first n handlers: that of the longest directory which holds the path.
Nowhere(handlers, path, n) == \A i \in 1..n : ~isInDir(path, handlers[i].dir)
LongestAt(handlers, path, b, n, i) ==
  /\ b.handler = handlers[i] /\ isInDir(path, handlers[i].dir) /\ b.length = Len(handlers[i].dir)
  /\ \A j \in 1..n : isInDir(path, handlers[j].dir) => Len(handlers[j].dir) <= b.length
Matched(handlers, path, b, n) ==
  \/ b.length = 0 /\ b.handler = NULL /\ Nowhere(handlers, path, n)
  \/ \E i \in 1..n : LongestAt(handlers, path, b, n, i)

LEMMA MatchedNext ==
  ASSUME NEW handlers \in Seq(PlacedHandlers), NEW path, NEW n \in Nat, NEW m \in 1..Len(handlers),
         m = n + 1, NEW b \in Matches, Matched(handlers, path, b, n)
  PROVE  Matched(handlers, path, Match(b, handlers[m], path), m)
<1> DEFINE h == handlers[m]  c == Match(b, h, path)
<1>1. h \in PlacedHandlers /\ b.length \in Nat
      BY ElementOfSeq DEF Matches
<1>2. m \in 1..m /\ (\A i \in 1..n : i \in 1..m) /\ \A i \in 1..m : i = m \/ i \in 1..n
      OBVIOUS
<1>3. ASSUME NEW j \in 1..n PROVE Len(handlers[j].dir) \in Nat \ {0}
  <2>1. j \in 1..Len(handlers)
    <3>1. Len(handlers) \in Nat
          BY LenProperties
    <3> QED BY <3>1
  <2>2. handlers[j] \in PlacedHandlers
        BY <2>1, ElementOfSeq
  <2>3. handlers[j].dir \in Values
        BY <2>2 DEF PlacedHandlers
  <2> QED BY <2>3, EmptySeq, LenProperties DEF Values
<1>4. CASE Len(h.dir) > b.length /\ isInDir(path, h.dir)
  <2>1. c.length = Len(h.dir) /\ c.handler = h /\ Len(h.dir) \in Nat \ {0}
        BY <1>1, <1>4, MatchType
  <2> HIDE DEF c
  <2>2. ASSUME NEW j \in 1..n, isInDir(path, handlers[j].dir) PROVE Len(handlers[j].dir) <= b.length
        BY <2>2 DEF Matched, Nowhere, LongestAt
  <2>3. ASSUME NEW j \in 1..m, isInDir(path, handlers[j].dir) PROVE Len(handlers[j].dir) <= c.length
    <3>1. CASE j = m
      <4>1. handlers[j].dir = h.dir
            BY <3>1
      <4> HIDE DEF h
      <4> QED BY <2>1, <4>1
    <3>2. CASE j # m
      <4>1. j \in 1..n
            BY <1>2, <3>2
      <4>2. Len(handlers[j].dir) <= b.length /\ Len(handlers[j].dir) \in Nat
            BY <1>3, <2>2, <2>3, <4>1
      <4> HIDE DEF h
      <4> QED BY <1>1, <1>4, <2>1, <4>2
    <3> QED BY <3>1, <3>2
  <2>4. LongestAt(handlers, path, c, m, m)
        BY <1>4, <2>1, <2>3 DEF LongestAt
  <2>5. Matched(handlers, path, c, m)
        BY <1>2, <2>4 DEF Matched
  <2> QED BY <2>5 DEF c
<1>5. CASE ~(Len(h.dir) > b.length /\ isInDir(path, h.dir))
  <2>1. c = b /\ Len(h.dir) \in Nat \ {0}
        BY <1>1, <1>5, MatchType
  <2> HIDE DEF c
  <2>2. isInDir(path, h.dir) => Len(h.dir) <= b.length
    <3> HIDE DEF h
    <3> QED BY <1>1, <1>5, <2>1
  <2>3. CASE b.length = 0 /\ b.handler = NULL /\ Nowhere(handlers, path, n)
    <3>1. ~isInDir(path, h.dir)
      <4> HIDE DEF h
      <4> QED BY <2>1, <2>2, <2>3
    <3>2. Nowhere(handlers, path, m)
          BY <1>2, <2>3, <3>1 DEF Nowhere
    <3>3. Matched(handlers, path, c, m)
          BY <2>1, <2>3, <3>2 DEF Matched
    <3> QED BY <3>3 DEF c
  <2>4. ASSUME NEW i \in 1..n, LongestAt(handlers, path, b, n, i)
        PROVE  Matched(handlers, path, c, m)
    <3>1. LongestAt(handlers, path, b, m, i)
          BY <1>2, <2>2, <2>4 DEF LongestAt
    <3> QED BY <1>2, <2>1, <3>1 DEF Matched
  <2> QED BY <2>3, <2>4 DEF Matched, c
<1> QED BY <1>4, <1>5

\* The search for a handler finds none if no directory holds the path, and one of a
\* longest directory that does otherwise.
LEMMA HandlerIsDeepest ==
  ASSUME NEW handlers \in Seq(PlacedHandlers), NEW path
  PROVE  LET h == ChosenHandler(handlers, path)
             holding == {g \in ToSet(handlers) : isInDir(path, g.dir)}
         IN IF h = NULL THEN holding = {}
            ELSE h \in holding /\ ~\E g \in holding : Deeper(g, h)
<1> DEFINE N == Len(handlers)  h == ChosenHandler(handlers, path)
           holding == {k \in ToSet(handlers) : isInDir(path, k.dir)}
<1>1. N \in Nat /\ DOMAIN handlers = 1..N /\ \A i \in 1..N : handlers[i] \in PlacedHandlers
      BY LenProperties, ElementOfSeq
<1>2. PICK g : /\ g \in [0..N -> Matches] /\ g[0] = NoMatch
               /\ \A i \in 1..N : g[i] = Match(g[i - 1], handlers[i], path)
               /\ h = g[N].handler
      BY BestsExist
<1> HIDE DEF N, h
<1>3. Matched(handlers, path, g[N], N)
  <2> DEFINE T == {n \in Nat : n <= N => Matched(handlers, path, g[n], n)}
  <2>1. 0 \in T
    <3>1. 1..0 = {} /\ NoMatch.length = 0 /\ NoMatch.handler = NULL
          BY DEF NoMatch
    <3> QED BY <1>2, <3>1 DEF Matched, Nowhere
  <2>2. ASSUME NEW n \in Nat, n \in T PROVE n + 1 \in T
    <3> DEFINE m == n + 1
    <3> SUFFICES ASSUME m <= N PROVE Matched(handlers, path, g[m], m)
        OBVIOUS
    <3>1. m \in 1..N /\ n \in 0..N /\ m - 1 = n /\ n <= N /\ m = n + 1
          BY <1>1
    <3> HIDE DEF m
    <3>2. g[n] \in Matches /\ Matched(handlers, path, g[n], n) /\ g[m] = Match(g[n], handlers[m], path)
          BY <1>2, <2>2, <3>1
    <3> QED BY <3>1, <3>2, MatchedNext DEF N
  <2> HIDE DEF T
  <2>3. N \in T
        BY <1>1, <2>1, <2>2, Induct
  <2> QED BY <1>1, <2>3 DEF T
<1>4. \A k \in ToSet(handlers) : \E i \in 1..N : k = handlers[i]
      BY <1>1 DEF ToSet
<1>5. \A i \in 1..N : handlers[i] \in ToSet(handlers)
      BY <1>1 DEF ToSet
<1>6. ASSUME NEW i \in 1..N, LongestAt(handlers, path, g[N], N, i)
      PROVE  h # NULL /\ h \in holding /\ ~\E k \in holding : Deeper(k, h)
  <2>1. h = handlers[i] /\ isInDir(path, h.dir)
        BY <1>2, <1>6 DEF LongestAt
  <2>2. h # NULL
        BY <1>1, <2>1, ConfigAssumption DEF PlacedHandlers
  <2>3. ASSUME NEW k \in holding PROVE ~Deeper(k, h)
    <3>1. PICK j \in 1..N : k = handlers[j]
          BY <1>4
    <3>2. Len(k.dir) <= Len(h.dir)
          BY <1>6, <2>1, <3>1 DEF LongestAt
    <3>3. Len(k.dir) \in Nat /\ Len(h.dir) \in Nat
      <4>1. k.dir \in Values /\ h.dir \in Values
            BY <1>1, <2>1, <3>1 DEF PlacedHandlers
      <4> QED BY <4>1, LenProperties DEF Values
    <3> QED BY <3>2, <3>3 DEF Deeper
  <2>4. h \in holding
        BY <1>5, <2>1
  <2> QED BY <2>2, <2>3, <2>4
<1>7. IF h = NULL THEN holding = {} ELSE h \in holding /\ ~\E k \in holding : Deeper(k, h)
  <2>1. CASE \E i \in 1..N : LongestAt(handlers, path, g[N], N, i)
        BY <1>6, <2>1
  <2>2. CASE g[N].length = 0 /\ g[N].handler = NULL /\ Nowhere(handlers, path, N)
    <3>1. holding = {} /\ h = NULL
          BY <1>2, <1>4, <2>2 DEF Nowhere
    <3> QED BY <3>1
  <2> QED BY <1>3, <2>1, <2>2 DEF Matched
<1> QED BY <1>7 DEF h

\* The sites of an accepted config have what the search needs.
LEMMA SitesDeclared ==
  ASSUME NEW es \in Seq(Entries), NEW b \in ToSet(Declared(es).binds)
  PROVE  b.sites \in Seq(PlacedSites)
<1>1. ASSUME NEW h \in HandlerBlocks, NEW root \in Texts PROVE DeclaredHandler(h, root) \in PlacedHandlers
  <2>1. h.value \in Values /\ h.body \in Seq(HandlerSettings)
        BY DEF HandlerBlocks, HandlerSettings
  <2>2. \A x \in HandlerSettings : x.value \in Values
        BY DEF HandlerSettings, Settings
  <2>3. ValuesOf(h.body, {"index"}) \in Seq(Values)
        BY <2>1, <2>2, ValuesType
  <2>4. LastValue(h.body, "type") \in Values \cup {NULL}
        BY <2>1, <2>2, LastType
  <2> QED BY <2>1, <2>3, <2>4 DEF DeclaredHandler, PlacedHandlers, HandlerConfigs, Texts
<1>2. ASSUME NEW s \in SiteBlocks PROVE DeclaredSite(s) \in PlacedSites
  <2> DEFINE w == With(s.body, {"handler"})
             root == LastValue(s.body, "root")
             hs == [n \in DOMAIN w |-> DeclaredHandler(w[n], root)]
             names == ValuesOf(s.body, {"hostname", "alias"})
  <2>1. s.body \in Seq(SiteEntries)
        BY DEF SiteBlocks, SiteEntries, SiteSettings
  <2>2. \A x \in SiteEntries : x.value \in Values
        BY SiteEntryIs
  <2>3. names \in Seq(Values)
        BY <2>1, <2>2, ValuesType
  <2>4. root \in Texts
        BY <2>1, <2>2, LastType DEF Texts
  <2>5. w \in Seq(SiteEntries) /\ DOMAIN w = 1..Len(w) /\ Len(w) \in Nat
        BY <2>1, WithType, LenProperties
  <2>6. ASSUME NEW n \in DOMAIN w PROVE w[n] \in HandlerBlocks
    <3>1. w[n] \in For(s.body, "handler")
          BY <2>1, FromEntry
    <3>2. w[n] \in SiteEntries /\ w[n].key = "handler"
          BY <2>1, <3>1 DEF For, ToSet
    <3> QED BY <3>2, SiteEntryIs
  <2>7. DeclaredSite(s) = [hostnames |-> names, documentRoot |-> root, handlers |-> hs]
        BY DEF DeclaredSite
  <2> HIDE DEF w, root, names
  <2>8. hs \in [1..Len(w) -> PlacedHandlers]
        BY <1>1, <2>4, <2>5, <2>6
  <2> HIDE DEF hs
  <2>9. hs \in Seq(PlacedHandlers)
        BY <2>5, <2>8, SeqOfFunction
  <2>10. hs \in Seq(HandlerConfigs)
        BY <2>9, SeqGrows DEF PlacedHandlers
  <2>11. [hostnames |-> names, documentRoot |-> root, handlers |-> hs] \in SiteConfigs
        BY <2>3, <2>4, <2>10 DEF SiteConfigs
  <2> QED BY <2>7, <2>9, <2>11 DEF PlacedSites
<1> DEFINE u == With(es, {"bind"})
<1>3. PICK k \in DOMAIN u : b = DeclaredBind(u[k])
  <2>1. Declared(es).binds = [n \in DOMAIN u |-> DeclaredBind(u[n])]
        BY DEF Declared
  <2> HIDE DEF u
  <2> QED BY <2>1 DEF ToSet
<1> DEFINE e == u[k]
           v == With(e.body, {"site"})
<1>4. e \in For(es, "bind")
      BY FromEntry
<1>5. e \in Entries /\ e.key = "bind"
      BY <1>4 DEF For, ToSet
<1> HIDE DEF e
<1>6. e.body \in Seq(BindEntries)
      BY <1>5, EntryIs
<1>7. b.sites = [m \in DOMAIN v |-> DeclaredSite(v[m])]
      BY <1>3 DEF DeclaredBind, e
<1>8. v \in Seq(BindEntries) /\ DOMAIN v = 1..Len(v) /\ Len(v) \in Nat
      BY <1>6, WithType, LenProperties
<1>9. ASSUME NEW m \in DOMAIN v PROVE DeclaredSite(v[m]) \in PlacedSites
  <2>1. v[m] \in For(e.body, "site")
        BY <1>6, FromEntry
  <2>2. v[m] \in BindEntries /\ v[m].key = "site"
        BY <1>6, <2>1 DEF For, ToSet
  <2> QED BY <1>2, <2>2, BindEntryIs
<1> HIDE DEF v
<1>10. b.sites \in [1..Len(v) -> PlacedSites]
      BY <1>7, <1>8, <1>9
<1> QED BY <1>8, <1>10, SeqOfFunction

\* What the two searches find together is the right handler.
LEMMA HandlerIsRight ==
  ASSUME NEW sites \in Seq(PlacedSites), NEW host, NEW raw \in Raws
  PROVE  LET site == ChosenSite(sites, host)
         IN RightHandler(sites, host, raw,
              IF site = NULL THEN NULL ELSE ChosenHandler(site.handlers, symbolicRealpath(raw)))
<1> DEFINE site == ChosenSite(sites, host)
           path == Resolved(raw)
           Holding(n) == {h \in ToSet(sites[n].handlers) : Below(path, h.dir)}
<1>1. raw \in Seq(Symbols) /\ Plain(raw) /\ Absolute(raw)
      BY ConfigAssumption DEF Plain
<1>2. symbolicRealpath(raw) = path /\ path \in Seq(Symbols) /\ Absolute(path)
      BY <1>1, RealpathResolves, ResolvedType
<1>3. sites \in Seq(SiteConfigs)
      BY SeqGrows DEF PlacedSites
<1>4. /\ RightSite(sites, host, site)
      /\ site # NULL => \E n \in DOMAIN sites : site = sites[n]
      BY <1>3, SiteIsRight
<1> HIDE DEF site, path
<1>5. \A dir \in Values : Below(path, dir) <=> isInDir(path, dir)
  <2> TAKE dir \in Values
  <2>1. dir \in Seq(Symbols) /\ dir # <<>>
        BY DEF Values
  <2>2. isInDir(path, dir) <=> Absolute(dir) /\ IsPrefix(Bare(dir), Segments(path))
        BY <1>2, <2>1, InDirIs
  <2> QED BY <2>2 DEF Below, Bare
<1>6. CASE site = NULL
      BY <1>4, <1>6 DEF RightHandler, site
<1>7. CASE site # NULL
  <2>1. PICK n \in DOMAIN sites : site = sites[n]
        BY <1>4, <1>7
  <2> DEFINE handlers == site.handlers
             h == ChosenHandler(handlers, path)
             found == {g \in ToSet(handlers) : isInDir(path, g.dir)}
  <2>2. handlers \in Seq(PlacedHandlers)
    <3>1. n \in 1..Len(sites)
          BY LenProperties
    <3>2. site \in PlacedSites
          BY <2>1, <3>1, ElementOfSeq
    <3> QED BY <3>2 DEF PlacedSites
  <2>3. IF h = NULL THEN found = {} ELSE h \in found /\ ~\E g \in found : Deeper(g, h)
        BY <2>2, HandlerIsDeepest
  <2>4. Holding(n) = found
    <3>1. \A g \in ToSet(handlers) : g.dir \in Values
          BY <2>2 DEF ToSet, PlacedHandlers
    <3> QED BY <1>5, <2>1, <3>1
  <2>5. IF h = NULL THEN Holding(n) = {} ELSE h \in Holding(n) /\ ~\E g \in Holding(n) : Deeper(g, h)
    <3> HIDE DEF Holding, found, h
    <3> QED BY <2>3, <2>4
  <2>6. RightSite(sites, host, sites[n])
        BY <1>4, <2>1
  <2> HIDE DEF h
  <2>7. RightHandler(sites, host, raw, h)
        BY <2>5, <2>6 DEF RightHandler, path
  <2> QED BY <1>2, <1>7, <2>7 DEF h, site
<1> QED BY <1>6, <1>7

\* A request is looked up in the first bind with the address and port it came in on.
LEMMA FirstOfItsAddress ==
  ASSUME NEW c, NEW n \in DOMAIN c.binds, DOMAIN c.binds \subseteq Nat, NEW host, NEW path,
         \A m \in 1..n - 1 : c.binds[m].addr # c.binds[n].addr \/ c.binds[m].port # c.binds[n].port,
         0 \notin DOMAIN c.binds
  PROVE  config_getHandler(c, config_getNetworkingConfig(c)[n], host, path) =
           LET site == ChosenSite(c.binds[n].sites, host)
           IN IF site = NULL THEN NULL ELSE ChosenHandler(site.handlers, path)
<1> DEFINE bind == config_getNetworkingConfig(c)[n]
           mine == {m \in DOMAIN c.binds : c.binds[m].addr = bind.address
                                           /\ c.binds[m].port = bind.port}
<1>1. bind.address = c.binds[n].addr /\ bind.port = c.binds[n].port
      BY DEF config_getNetworkingConfig
<1> HIDE DEF bind
<1>2. n \in mine /\ mine \subseteq Nat
      BY <1>1
<1>3. ASSUME NEW m \in mine PROVE n <= m
  <2>1. m \in Nat /\ n \in Nat /\ m # 0
        BY <1>2
  <2>2. m \notin 1..n - 1
        BY <1>1
  <2> QED BY <2>1, <2>2
<1>4. mine # {} /\ Min(mine) = n
  <2> HIDE DEF mine
  <2> QED BY <1>2, <1>3, MinIs
<1>5. config_getHandler(c, bind, host, path) =
        LET site == IF mine = {} THEN NULL ELSE ChosenSite(c.binds[Min(mine)].sites, host)
        IN IF site = NULL THEN NULL ELSE ChosenHandler(site.handlers, path)
      BY DEF config_getHandler
<1> HIDE DEF mine
<1> QED BY <1>4, <1>5 DEF bind

LEMMA HandlersFollow == ReadInv => HandlerIsChosen
<1> SUFFICES ASSUME ReadInv, phase = "serving", NEW n \in DOMAIN config.binds,
                    \A m \in 1..n - 1 : config.binds[m].addr # config.binds[n].addr
                                        \/ config.binds[m].port # config.binds[n].port,
                    NEW host \in Hosts, NEW raw \in Raws
             PROVE  RightHandler(config.binds[n].sites, host, raw,
                      config_getHandler(config, config_getNetworkingConfig(config)[n], host,
                                        symbolicRealpath(raw)))
    BY DEF HandlerIsChosen
<1>1. Accepted /\ plan \in Seq(Entries)
      BY DEF ReadInv
<1>2. PICK l \in 0..Len(plan) : config = Declared(SubSeq(plan, 1, l))
      BY <1>1 DEF Accepted
<1> DEFINE es == SubSeq(plan, 1, l)
<1>3. es \in Seq(Entries)
      BY <1>1, FirstAre
<1> HIDE DEF es
<1>4. config.binds = [k \in DOMAIN With(es, {"bind"}) |-> DeclaredBind(With(es, {"bind"})[k])]
      BY <1>2 DEF Declared, es
<1>5. DOMAIN config.binds \subseteq Nat /\ 0 \notin DOMAIN config.binds
  <2>1. With(es, {"bind"}) \in Seq(Entries)
        BY <1>3, WithType
  <2>2. DOMAIN With(es, {"bind"}) = 1..Len(With(es, {"bind"}))
        BY <2>1, LenProperties
  <2>3. DOMAIN config.binds = DOMAIN With(es, {"bind"})
        BY <1>4
  <2> QED BY <2>2, <2>3
<1>6. config.binds[n] \in ToSet(Declared(es).binds)
      BY <1>2 DEF ToSet, es
<1>7. config.binds[n].sites \in Seq(PlacedSites)
      BY <1>3, <1>6, SitesDeclared
<1> QED BY <1>5, <1>7, FirstOfItsAddress, HandlerIsRight

\* Whatever config files there are, however many binds, sites and handlers they have, and
\* whatever is asked for: a request gets the handler that the config gives it to
\* (config_getHandler, 741-824; isInDir and symbolicRealpath, util.c:26-126).
THEOREM HandlersAreChosen == Spec => []HandlerIsChosen
<1>1. Init => ReadInv
      BY ReadInit
<1>2. ReadInv /\ [Next]_vars => ReadInv'
      BY ReadStep
<1>3. ReadInv => HandlerIsChosen
      BY HandlersFollow
<1> QED BY <1>1, <1>2, <1>3, PTL DEF Spec
=============================================================================
