------------------------------ MODULE Selection ------------------------------
(***************************************************************************)
(* config_getHandler of src/config.c: from the bind a request came in on,  *)
(* its Host header and its path to the handler that serves it. The fields  *)
(* of a config are those of struct config; NULL stands for no site, and,   *)
(* as an answer, for status500. A request without a Host header is left    *)
(* out: a site with a name then compares with NULL.                        *)
(***************************************************************************)
EXTENDS Paths

CONSTANT NULL

Wildcard == <<"*">>

Serves(site, host) ==
  site.hostnames = <<>> \/ {host, Wildcard} \cap ToSet(site.hostnames) # {}

\* Mutant: the first site that serves the host.
ChosenSiteFirst(sites, host) ==
  LET serving == SelectSeq(sites, LAMBDA site : Serves(site, host))
  IN IF serving = <<>> THEN NULL ELSE Head(serving)

\* A site without a name is taken unless another follows; the first site with a
\* name after one that was taken ends the search, whether it serves the host or not.
Look(r, site, host) ==
  CASE r.done -> r
    [] ~r.done /\ site.hostnames = <<>> -> [r EXCEPT !.site = site]
    [] ~r.done /\ site.hostnames # <<>> ->
         LET found == IF Serves(site, host) THEN site ELSE r.site
         IN [site |-> found, done |-> found # NULL]
ChosenSite(sites, host) ==
  LET look[n \in 0..Len(sites)] ==
        IF n = 0 THEN [site |-> NULL, done |-> FALSE] ELSE Look(look[n - 1], sites[n], host)
  IN look[Len(sites)].site

\* Of the handlers for a directory that holds the path, the one whose name is longest.
Match(best, h, path) ==
  IF Len(h.dir) > best.length /\ isInDir(path, h.dir)
    THEN [length |-> Len(h.dir), handler |-> h] ELSE best
ChosenHandler(handlers, path) ==
  LET best[n \in 0..Len(handlers)] ==
        IF n = 0 THEN [length |-> 0, handler |-> NULL] ELSE Match(best[n - 1], handlers[n], path)
  IN best[Len(handlers)].handler

\* What the server listens on.
config_getNetworkingConfig(config) ==
  [n \in DOMAIN config.binds |->
    [address |-> config.binds[n].addr, port |-> config.binds[n].port,
     ssl |-> config.binds[n].ssl # NULL]]

\* Of two binds to the same address and port the first is found.
config_getHandler(config, bind, host, path) ==
  LET mine == {n \in DOMAIN config.binds : config.binds[n].addr = bind.address
                                            /\ config.binds[n].port = bind.port}
      site == IF mine = {} THEN NULL ELSE ChosenSite(config.binds[Min(mine)].sites, host)
  IN IF site = NULL THEN NULL ELSE ChosenHandler(site.handlers, path)

-----------------------------------------------------------------------------
(* What a config promises, said segment by segment.                        *)

\* The path is dir or lies below it; nothing is below a relative one.
Below(path, dir) ==
  LET bare == IF Last(Segments(dir)) = <<>> THEN Front(Segments(dir)) ELSE Segments(dir)
  IN Absolute(dir) /\ IsPrefix(bare, Segments(path))
Deeper(h, g) == Len(h.dir) > Len(g.dir)

\* The site must do for the host. One that has the very name is not passed over for
\* one that takes any host, unless that one, or another between them, has a name: the
\* break of config.c:788 ends the search there, and no more is asked than it leaves.
RightSite(sites, host, site) ==
  LET Nameless(i) == sites[i].hostnames = <<>>
      catchAll == {i \in DOMAIN sites : Nameless(i) \/ Wildcard \in ToSet(sites[i].hostnames)}
      named == {i \in DOMAIN sites : host \in ToSet(sites[i].hostnames)}
      reached == {i \in named : \A j \in catchAll : \A k \in j..i - 1 : Nameless(k)}
  IN IF site = NULL THEN named \cup catchAll = {}
     ELSE /\ Serves(site, host)
          /\ reached # {} => site = sites[Min(reached)]

\* The handler is of the right site, and the deepest one whose directory holds the
\* path the client meant.
RightHandler(sites, host, raw, handler) ==
  \/ handler = NULL /\ RightSite(sites, host, NULL)
  \/ \E n \in DOMAIN sites :
       LET holding == {h \in ToSet(sites[n].handlers) : Below(Resolved(raw), h.dir)}
       IN /\ RightSite(sites, host, sites[n])
          /\ IF handler = NULL THEN holding = {}
             ELSE handler \in holding /\ ~\E h \in holding : Deeper(h, handler)
=============================================================================
