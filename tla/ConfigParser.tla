---------------------------- MODULE ConfigParser ----------------------------
(***************************************************************************)
(* src/config.c: config_parse reads a config file token by token, checks   *)
(* at the end of the file that nothing is missing, and config_setLogging   *)
(* opens the logs of src/logging.c. The states of the parser bear the      *)
(* source's names; currentBind, currentSite and currentHandler are the     *)
(* last ones there are. When a file is rejected the program exits.         *)
(*                                                                         *)
(* A token is a sequence of bytes, where a word such as bind stands as one *)
(* byte; white space is between tokens and left out.                       *)
(***************************************************************************)
EXTENDS Selection

CONSTANTS
  Symbols,           \* what tokens are made of
  Plans,             \* what config files are meant to say: see Printed
  MAX_TOKEN_LENGTH,  \* bytes of a token, and its terminator (128)
  Hosts, Raws        \* what requests ask for: hosts, and paths as they were sent

VARIABLES
  plan,     \* what the file is meant to say
  file,     \* its tokens
  read,     \* how many of them were read
  state,    \* where the parser is
  config,   \* struct config
  phase,    \* parsing, rejected, accepted, or serving once the logs are open
  logger,   \* the loggers, in the order of their creation
  failed,   \* history: malloc, realpath or OpenSSL has failed
  ended     \* history: the end of the file was reached

vars == <<plan, file, read, state, config, phase, logger, failed, ended>>
input == <<plan, file>>

-----------------------------------------------------------------------------
(* What a file says. A plan is a sequence of entries: settings, key =      *)
(* value, and blocks, which have a body of entries instead of the equals   *)
(* sign, and perhaps a value too.                                          *)

Values == Seq(Symbols) \ {<<>>}
Settings(keys) == [key : keys, value : Values, body : {<<>>}]
HandlerBlocks == [key : {"handler"}, value : Values, body : Seq(Settings({"type", "index"}))]
SiteBlocks == [key : {"site"}, value : {<<>>},
               body : Seq(HandlerBlocks \cup Settings({"hostname", "alias", "root"}))]
SslBlocks == [key : {"ssl"}, value : {<<>>}, body : Seq(Settings({"key", "cert"}))]
LoggingBlocks == [key : {"logging"}, value : {<<>>},
                  body : Seq(Settings({"access", "server", "verbosity"}))]

\* A bind to logging, which is no address, would pass for a block of that name where
\* the word bind before it is left out.
BindBlocks == [key : {"bind"}, value : Values \ {<<"logging">>},
               body : Seq(SiteBlocks \cup SslBlocks)]

\* struct config and what is in it; while it is put together strings are still NULL.
Texts == Values \cup {NULL}
Addresses == Seq(Symbols) \cup {<<"0.0.0.0">>, NULL}
HandlerConfigs ==
  [dir : Texts, type : Texts, indexfiles : Seq(Values), documentRoot : Texts]
SiteConfigs ==
  [hostnames : Seq(Values), documentRoot : Texts, handlers : Seq(HandlerConfigs)]
SslConfigs == [privateKey : Texts, certificate : Texts]
BindConfigs ==
  [addr : Addresses, port : Addresses, ssl : SslConfigs \cup {NULL}, sites : Seq(SiteConfigs)]

ASSUME ConfigAssumption ==
  /\ MAX_TOKEN_LENGTH \in Nat
  /\ NULL \notin Values \cup HandlerConfigs \cup SiteConfigs \cup SslConfigs
  /\ Plans \subseteq Seq(BindBlocks \cup LoggingBlocks)
  /\ Raws \subseteq Seq(Symbols) /\ \A raw \in Raws : Plain(raw)

Opening == "{"
Closing == "}"

\* The tokens of an entry; inner are those of what is in the block.
SettingText(e) == <<<<e.key>>, <<"=">>, e.value>>
BlockText(e, inner) ==
  <<<<e.key>>>> \o (IF e.value = <<>> THEN <<>> ELSE <<e.value>>)
    \o <<<<Opening>>>> \o inner \o <<<<Closing>>>>
FlatText(e) == BlockText(e, FlattenSeq([n \in DOMAIN e.body |-> SettingText(e.body[n])]))
InSiteText(e) == IF e.key = "handler" THEN FlatText(e) ELSE SettingText(e)
SiteText(e) == BlockText(e, FlattenSeq([n \in DOMAIN e.body |-> InSiteText(e.body[n])]))
InBindText(e) == IF e.key = "site" THEN SiteText(e) ELSE FlatText(e)
BindText(e) == BlockText(e, FlattenSeq([n \in DOMAIN e.body |-> InBindText(e.body[n])]))
EntryText(e) == IF e.key = "bind" THEN BindText(e) ELSE FlatText(e)
Printed(entries) == FlattenSeq([n \in DOMAIN entries |-> EntryText(entries[n])])

\* The entries for some keys, those for one, and their values.
With(entries, keys) == Picked(entries, {n \in DOMAIN entries : entries[n].key \in keys})
For(entries, key) == {e \in ToSet(entries) : e.key = key}
ValuesOf(entries, keys) ==
  [n \in DOMAIN With(entries, keys) |-> With(entries, keys)[n].value]
LastValue(entries, key) ==
  IF For(entries, key) = {} THEN NULL ELSE Last(With(entries, {key})).value

\* What stands before the first colon and what after it.
Colon(token) == SelectInSeq(token, LAMBDA b : b = ":")
Address(token) ==
  LET addr == SubSeq(token, 1, Colon(token) - 1)
  IN IF addr = <<"*">> THEN <<"0.0.0.0">> ELSE addr
Port(token) == SubSeq(token, Colon(token) + 1, Len(token))

Types == {<<"file">>, <<"cgi">>}
Levels == {<<"debug">>, <<"info">>, <<"warn">>, <<"error">>, <<"critical">>}

\* The same settings as a struct config.
DeclaredHandler(e, root) ==
  [dir |-> e.value, type |-> LastValue(e.body, "type"),
   indexfiles |-> ValuesOf(e.body, {"index"}), documentRoot |-> root]

DeclaredSite(e) ==
  LET handlers == With(e.body, {"handler"})
      root == LastValue(e.body, "root")
  IN [hostnames |-> ValuesOf(e.body, {"hostname", "alias"}), documentRoot |-> root,
      handlers |-> [n \in DOMAIN handlers |-> DeclaredHandler(handlers[n], root)]]

DeclaredSsl(body) ==
  [privateKey |-> LastValue(body, "key"), certificate |-> LastValue(body, "cert")]

DeclaredBind(e) ==
  LET sites == With(e.body, {"site"})
  IN [addr |-> Address(e.value), port |-> Port(e.value),
      ssl |-> IF For(e.body, "ssl") = {} THEN NULL
              ELSE DeclaredSsl(Last(With(e.body, {"ssl"})).body),
      sites |-> [n \in DOMAIN sites |-> DeclaredSite(sites[n])]]

\* All that is in the logging blocks.
LoggingBody(entries) ==
  LET blocks == With(entries, {"logging"})
  IN FlattenSeq([n \in DOMAIN blocks |-> blocks[n].body])

Declared(entries) ==
  LET binds == With(entries, {"bind"})
      logging == LoggingBody(entries)
  IN [binds |-> [n \in DOMAIN binds |-> DeclaredBind(binds[n])],
      accessLogfile |-> LastValue(logging, "access"),
      serverLogfile |-> LastValue(logging, "server"),
      serverVerbosity |-> IF For(logging, "verbosity") = {} THEN <<"warn">>
                          ELSE LastValue(logging, "verbosity")]

\* Is everything there that must be, and nothing that may not be, in any order?
ValidHandler(e) ==
  /\ For(e.body, "type") # {}
  /\ \A x \in For(e.body, "type") : x.value \in Types
ValidSite(e) ==
  /\ For(e.body, "root") # {}
  /\ \A h \in For(e.body, "handler") : ValidHandler(h)
ValidBind(e) ==
  /\ Contains(e.value, ":") /\ Len(With(e.body, {"ssl"})) <= 1
  /\ \A x \in For(e.body, "ssl") : For(x.body, "key") # {} /\ For(x.body, "cert") # {}
  /\ \A s \in For(e.body, "site") : ValidSite(s)
Valid(entries) ==
  /\ \A b \in For(entries, "bind") : ValidBind(b)
  /\ \A l \in For(entries, "logging") : \A x \in For(l.body, "verbosity") : x.value \in Levels
  /\ \A t \in ToSet(Printed(entries)) : Len(t) < MAX_TOKEN_LENGTH

\* Where a handler has an index, the last type before it is file.
TypeFirst(h) ==
  \A n \in DOMAIN h.body :
    h.body[n].key = "index" => LastValue(SubSeq(h.body, 1, n), "type") = <<"file">>
TypesFirst(entries) ==
  \A b \in For(entries, "bind") : \A s \in For(b.body, "site") :
    \A h \in For(s.body, "handler") : TypeFirst(h)

\* What the code takes: all that is valid, but for the one order it insists on.
Readable(entries) == Valid(entries) /\ TypesFirst(entries)

-----------------------------------------------------------------------------
(* config_parse                                                            *)

\* A token left out is what is most easily wrong with a file.
Init ==
  /\ plan \in Plans
  /\ \/ file = Printed(plan)
     \/ \E n \in DOMAIN Printed(plan) : file = RemoveAt(Printed(plan), n)
  /\ read = 0 /\ state = "ROOT" /\ phase = "parsing"
  /\ config = [binds |-> <<>>, accessLogfile |-> NULL, serverLogfile |-> NULL,
               serverVerbosity |-> <<"warn">>]
  /\ logger = <<[file |-> "stdout", loglevel |-> <<"error">>]>>
  /\ failed = FALSE /\ ended = FALSE

currentBind == Last(config.binds)
currentSite == Last(currentBind.sites)
currentHandler == Last(currentSite.handlers)

\* config with another value for one of these.
WithLast(s, x) == Append(Front(s), x)
InBind(b) == [config EXCEPT !.binds = WithLast(@, b)]
InSite(s) == InBind([currentBind EXCEPT !.sites = WithLast(@, s)])
InHandler(h) == InSite([currentSite EXCEPT !.handlers = WithLast(@, h)])

currentToken == file[read + 1]
Reading == phase = "parsing" /\ read < Len(file)
Token(s) == Reading /\ state = s /\ Len(currentToken) < MAX_TOKEN_LENGTH
Word(s, w) == Token(s) /\ currentToken = <<w>>

Becomes(next, c) ==
  /\ read' = read + 1 /\ state' = next /\ config' = c
  /\ UNCHANGED <<input, phase, logger, failed, ended>>

\* The tokens that change the state and nothing else.
BindKeywords == {
  <<"ROOT", "logging", "LOGGING_BRACKETS_OPEN">>,
  <<"BIND_BRACKETS_OPEN", Opening, "BIND_CONTENT">>, <<"BIND_CONTENT", Closing, "ROOT">>}

SslKeywords == {
  <<"SSL_BRACKETS_OPEN", Opening, "SSL_CONTENT">>, <<"SSL_CONTENT", Closing, "BIND_CONTENT">>,
  <<"SSL_CONTENT", "key", "SSL_KEY_EQUALS">>, <<"SSL_KEY_EQUALS", "=", "SSL_KEY_VALUE">>,
  <<"SSL_CONTENT", "cert", "SSL_CERT_EQUALS">>, <<"SSL_CERT_EQUALS", "=", "SSL_CERT_VALUE">>}

SiteKeywords == {
  <<"SITE_BRACKETS_OPEN", Opening, "SITE_CONTENT">>, <<"SITE_CONTENT", Closing, "BIND_CONTENT">>,
  <<"SITE_CONTENT", "hostname", "SITE_HOST_EQUALS">>,
  <<"SITE_CONTENT", "alias", "SITE_HOST_EQUALS">>, <<"SITE_HOST_EQUALS", "=", "SITE_HOST_VALUE">>,
  <<"SITE_CONTENT", "root", "SITE_ROOT_EQUALS">>, <<"SITE_ROOT_EQUALS", "=", "SITE_ROOT_VALUE">>}

HandlerKeywords == {
  <<"HANDLER_BRACKETS_OPEN", Opening, "HANDLER_CONTENT">>, <<"HANDLER_CONTENT", Closing, "SITE_CONTENT">>,
  <<"HANDLER_CONTENT", "type", "TYPE_EQUALS">>, <<"TYPE_EQUALS", "=", "TYPE_VALUE">>,
  <<"HANDLER_CONTENT", "index", "INDEX_EQUALS">>, <<"INDEX_EQUALS", "=", "INDEX_VALUE">>}

LoggingKeywords == {
  <<"LOGGING_BRACKETS_OPEN", Opening, "LOGGING_CONTENT">>, <<"LOGGING_CONTENT", Closing, "ROOT">>,
  <<"LOGGING_CONTENT", "access", "LOGGING_ACCESS_FILE_EQUALS">>,
  <<"LOGGING_ACCESS_FILE_EQUALS", "=", "LOGGING_ACCESS_FILE_VALUE">>,
  <<"LOGGING_CONTENT", "server", "LOGGING_SERVER_FILE_EQUALS">>,
  <<"LOGGING_SERVER_FILE_EQUALS", "=", "LOGGING_SERVER_FILE_VALUE">>,
  <<"LOGGING_CONTENT", "verbosity", "LOGGING_SERVER_VERBOSITY_EQUALS">>,
  <<"LOGGING_SERVER_VERBOSITY_EQUALS", "=", "LOGGING_SERVER_VERBOSITY_VALUE">>}

Keywords ==
  BindKeywords \cup SslKeywords \cup SiteKeywords \cup HandlerKeywords \cup LoggingKeywords

Keyword == \E k \in Keywords : Word(k[1], k[2]) /\ Becomes(k[3], config)

NewBind ==
  /\ Word("ROOT", "bind")
  /\ Becomes("BIND_VALUE", [config EXCEPT !.binds =
               Append(@, [addr |-> NULL, port |-> NULL, ssl |-> NULL, sites |-> <<>>])])

HasAddress == Token("BIND_VALUE") /\ Contains(currentToken, ":")
BindValue ==
  HasAddress /\ Becomes("BIND_BRACKETS_OPEN",
    InBind([currentBind EXCEPT !.addr = Address(currentToken), !.port = Port(currentToken)]))

FirstSsl == Word("BIND_CONTENT", "ssl") /\ currentBind.ssl = NULL
NewSsl ==
  FirstSsl /\ Becomes("SSL_BRACKETS_OPEN",
    InBind([currentBind EXCEPT !.ssl = [privateKey |-> NULL, certificate |-> NULL]]))

SslKey ==
  /\ Token("SSL_KEY_VALUE")
  /\ Becomes("SSL_CONTENT", InBind([currentBind EXCEPT !.ssl.privateKey = currentToken]))

SslCert ==
  /\ Token("SSL_CERT_VALUE")
  /\ Becomes("SSL_CONTENT", InBind([currentBind EXCEPT !.ssl.certificate = currentToken]))

NewSite ==
  /\ Word("BIND_CONTENT", "site")
  /\ Becomes("SITE_BRACKETS_OPEN", InBind([currentBind EXCEPT !.sites =
               Append(@, [hostnames |-> <<>>, documentRoot |-> NULL, handlers |-> <<>>])]))

SiteHost ==
  /\ Token("SITE_HOST_VALUE")
  /\ Becomes("SITE_CONTENT",
       InSite([currentSite EXCEPT !.hostnames = Append(@, currentToken)]))

\* Mutant: a root that was set stays.
SiteRootOnce ==
  /\ Token("SITE_ROOT_VALUE")
  /\ Becomes("SITE_CONTENT", InSite([currentSite EXCEPT !.documentRoot =
               IF @ = NULL THEN currentToken ELSE @]))

\* realpath writes the same directory in another way.
SiteRoot ==
  /\ Token("SITE_ROOT_VALUE")
  /\ Becomes("SITE_CONTENT", InSite([currentSite EXCEPT !.documentRoot = currentToken]))

NewHandler ==
  /\ Word("SITE_CONTENT", "handler")
  /\ Becomes("HANDLER_VALUE", InSite([currentSite EXCEPT !.handlers =
       Append(@, [dir |-> NULL, type |-> NULL, indexfiles |-> <<>>, documentRoot |-> NULL])]))

HandlerDir ==
  /\ Token("HANDLER_VALUE")
  /\ Becomes("HANDLER_BRACKETS_OPEN", InHandler([currentHandler EXCEPT !.dir = currentToken]))

IsType == Token("TYPE_VALUE") /\ currentToken \in Types
Type ==
  IsType /\ Becomes("HANDLER_CONTENT", InHandler([currentHandler EXCEPT !.type = currentToken]))

\* The type must have been set before.
OfFiles == Token("INDEX_VALUE") /\ currentHandler.type = <<"file">>
Index ==
  OfFiles /\ Becomes("HANDLER_CONTENT",
    InHandler([currentHandler EXCEPT !.indexfiles = Append(@, currentToken)]))

AccessFile ==
  /\ Token("LOGGING_ACCESS_FILE_VALUE")
  /\ Becomes("LOGGING_CONTENT", [config EXCEPT !.accessLogfile = currentToken])

ServerFile ==
  /\ Token("LOGGING_SERVER_FILE_VALUE")
  /\ Becomes("LOGGING_CONTENT", [config EXCEPT !.serverLogfile = currentToken])

IsLevel == Token("LOGGING_SERVER_VERBOSITY_VALUE") /\ currentToken \in Levels
Verbosity ==
  IsLevel /\ Becomes("LOGGING_CONTENT", [config EXCEPT !.serverVerbosity = currentToken])

\* The states that take any token, and the tokens for which memory is needed.
Free == {"SSL_KEY_VALUE", "SSL_CERT_VALUE", "SITE_HOST_VALUE", "SITE_ROOT_VALUE",
  "HANDLER_VALUE", "LOGGING_ACCESS_FILE_VALUE", "LOGGING_SERVER_FILE_VALUE"}
Allocating ==
  \/ Word("ROOT", "bind") \/ Word("BIND_CONTENT", "site") \/ Word("SITE_CONTENT", "handler")
  \/ HasAddress \/ FirstSsl \/ OfFiles \/ \E s \in Free : Token(s)

Expected == Allocating \/ IsType \/ IsLevel \/ \E k \in Keywords : Word(k[1], k[2])

Understood ==
  \/ Keyword \/ NewBind \/ BindValue \/ NewSsl \/ SslKey \/ SslCert
  \/ NewSite \/ SiteHost \/ SiteRoot \/ NewHandler \/ HandlerDir \/ Type \/ Index
  \/ AccessFile \/ ServerFile \/ Verbosity

Rejected == phase' = "rejected" /\ UNCHANGED <<input, state, config, logger>>

\* Any other token, or one that is too long.
Unexpected ==
  Reading /\ ~Expected /\ read' = read + 1 /\ Rejected /\ UNCHANGED <<failed, ended>>

\* malloc, realloc, strdup or realpath fails.
AllocationFails ==
  Allocating /\ read' = read + 1 /\ Rejected /\ failed' = TRUE /\ UNCHANGED ended

-----------------------------------------------------------------------------
(* The end of the file, which may come anywhere.                           *)

\* Mutant: a handler may be left without a type.
CompleteUntyped(b) ==
  /\ b.ssl # NULL => b.ssl.privateKey # NULL /\ b.ssl.certificate # NULL
  /\ \A s \in ToSet(b.sites) : s.documentRoot # NULL

Complete(b) ==
  /\ b.ssl # NULL => b.ssl.privateKey # NULL /\ b.ssl.certificate # NULL
  /\ \A s \in ToSet(b.sites) :
       s.documentRoot # NULL /\ \A h \in ToSet(s.handlers) : h.type # NULL

\* Every handler is given the root of its site.
RootedSite(s) ==
  [s EXCEPT !.handlers = [n \in DOMAIN @ |-> [@[n] EXCEPT !.documentRoot = s.documentRoot]]]
Rooted(b) == [b EXCEPT !.sites = [n \in DOMAIN @ |-> RootedSite(@[n])]]

AtEof == phase = "parsing" /\ ended' = TRUE /\ UNCHANGED read
Whole == state = "ROOT" /\ \A b \in ToSet(config.binds) : Complete(b)

EofAccepts ==
  /\ AtEof /\ Whole /\ phase' = "accepted"
  /\ config' = [config EXCEPT !.binds = [n \in DOMAIN @ |-> Rooted(@[n])]]
  /\ UNCHANGED <<input, state, logger, failed>>

EofRejects == AtEof /\ ~Whole /\ Rejected /\ UNCHANGED failed

\* ssl_initSettings fails.
SslFails ==
  /\ AtEof /\ \E b \in ToSet(config.binds) : b.ssl # NULL
  /\ Rejected /\ failed' = TRUE

-----------------------------------------------------------------------------
(* config_setLogging, setLogging and vlogging                              *)

MAX_LOGGER == 10
HTTP_ACCESS == <<"access">>

setLogging(loggers, stream, level) ==
  LET known == {n \in DOMAIN loggers : loggers[n].file = stream}
  IN IF Len(loggers) = MAX_LOGGER - 1 THEN loggers
     ELSE IF known # {} THEN [loggers EXCEPT ![Min(known)].loglevel = level]
     ELSE Append(loggers, [file |-> stream, loglevel |-> level])

\* A log file that cannot be opened is done without.
config_setLogging ==
  /\ phase = "accepted" /\ phase' = "serving"
  /\ \E opened \in SUBSET {"server", "access"} :
       LET out == setLogging(logger, "stdout", config.serverVerbosity)
           server == IF config.serverLogfile # NULL /\ "server" \in opened
                       THEN setLogging(out, "server", config.serverVerbosity) ELSE out
       IN logger' = IF config.accessLogfile # NULL /\ "access" \in opened
                      THEN setLogging(server, "access", HTTP_ACCESS) ELSE server
  /\ UNCHANGED <<input, read, state, config, failed, ended>>

\* Levels have numbers; those for the access log are custom ones, above all others.
Number(level) ==
  CASE level = <<"debug">> -> 0 [] level = <<"info">> -> 2 [] level = <<"warn">> -> 3
    [] level = <<"error">> -> 4 [] level = <<"critical">> -> 5 [] level = HTTP_ACCESS -> 128
Custom(level) == Number(level) >= 128

\* Mutant: a logger with a custom level takes every message above it.
WritesAbove(l, level) == Number(level) >= Number(l.loglevel)

\* Does a logger write messages of the level?
Writes(l, level) ==
  /\ Number(level) >= Number(l.loglevel)
  /\ IF Custom(l.loglevel) THEN level = l.loglevel ELSE ~Custom(level)

Next ==
  \/ Understood \/ Unexpected \/ AllocationFails
  \/ EofAccepts \/ EofRejects \/ SslFails \/ config_setLogging

Spec == Init /\ [][Next]_vars

-----------------------------------------------------------------------------
(* Properties.                                                             *)

SiteOK(s) ==
  /\ \A n \in ToSet(s.hostnames) : Len(n) < MAX_TOKEN_LENGTH
  /\ \A h \in ToSet(s.handlers) : h.type \in Types

\* Every variable has its type; every handler of an accepted config has one of the
\* two types, and settings only where it has a root.
TypeOK ==
  /\ read \in 0..Len(file) /\ failed \in BOOLEAN /\ ended \in BOOLEAN
  /\ phase \in {"parsing", "rejected", "accepted", "serving"}
  /\ state \in {k[1] : k \in Keywords} \cup {k[3] : k \in Keywords}
                 \cup {"BIND_VALUE", "HANDLER_VALUE"}
  /\ phase \in {"accepted", "serving"} =>
       \A b \in ToSet(config.binds) : \A s \in ToSet(b.sites) : SiteOK(s)

\* The entries of the plan that were read, if they were read whole.
WasRead(n) ==
  SubSeq(file, 1, read) = Printed(SubSeq(plan, 1, n)) /\ Readable(SubSeq(plan, 1, n))

\* A file is accepted exactly when it was read to the end of an entry, says all that
\* it must and has each index behind a type = file (config.c:495, which OrderIsFree
\* holds against the grammar), and the config is then what it says: the last of the
\* values that exclude each other, all of the others, in order, and for each handler
\* the root of its site wherever that stood (config_parse, 98-674).
ReadsTheConfig ==
  /\ phase \in {"accepted", "serving"} =>
       \E n \in 0..Len(plan) : WasRead(n) /\ config = Declared(SubSeq(plan, 1, n))
  /\ phase = "rejected" /\ ~failed =>
       /\ ~\E n \in 0..Len(plan) : WasRead(n)
       /\ ended \/ ~Readable(plan) \/ ~IsPrefix(SubSeq(file, 1, read), Printed(plan))

\* "{ HANDLER_ITEM SP }" with "HANDLER_ITEM := HANDLER_TYPE | HANDLER_SETTINGS"
\* (README.md:55-58): the items of a handler come in any order. A whole and valid
\* file that gives an index to handlers of files only is therefore not rejected,
\* whichever of the two settings stands first.
IndexesOfFiles(entries) ==
  \A b \in For(entries, "bind") : \A s \in For(b.body, "site") :
    \A h \in For(s.body, "handler") :
      For(h.body, "index") # {} => \A x \in For(h.body, "type") : x.value = <<"file">>
OrderIsFree ==
  phase = "rejected" /\ ~failed /\ ~ended /\ file = Printed(plan) =>
    ~(Valid(plan) /\ IndexesOfFiles(plan))

\* What is logged goes where the config says: access lines to the access log and
\* nowhere else, all others to the console and, at the same verbosity, the server
\* log ("Dynamic logging (+ additional access log)", README.md:24; config_setLogging,
\* 715-739, and vlogging).
LogsAsConfigured ==
  LET Writers(level) == {l.file : l \in {l \in ToSet(logger) : Writes(l, level)}}
      files == {l.file : l \in ToSet(logger)}
  IN phase = "serving" =>
       /\ Writers(HTTP_ACCESS) = files \cap {"access"}
       /\ "access" \in files => config.accessLogfile # NULL
       /\ \A level \in Levels :
            Writers(level) = IF Number(level) >= Number(config.serverVerbosity)
                               THEN files \ {"access"} ELSE {}

\* Whatever host and plain path (an absolute one that never climbs above its start and
\* has no empty segment before the last) a request asks for, on a bind that no other
\* has the address and port of, it is answered by the handler the config gives it to:
\* that of a site which serves the host, and with the deepest directory that holds the
\* path (config_getHandler, 741-824, on what symbolicRealpath makes of the path,
\* util.c:26-105). Which of several sites that serve the host is RightSite.
HandlerIsChosen ==
  phase = "serving" =>
    \A n \in DOMAIN config.binds :
      LET binds == config.binds
          bind == config_getNetworkingConfig(config)[n]
      IN (\A m \in 1..n - 1 : binds[m].addr # binds[n].addr \/ binds[m].port # binds[n].port) =>
           \A host \in Hosts, raw \in Raws :
             RightHandler(binds[n].sites, host, raw,
               config_getHandler(config, bind, host, symbolicRealpath(raw)))
=============================================================================
