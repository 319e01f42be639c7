-------------------------------- MODULE Paths --------------------------------
(***************************************************************************)
(* The paths of src/util.c. A path is a sequence of bytes; malloc does not *)
(* fail here.                                                              *)
(***************************************************************************)
EXTENDS Naturals, Sequences, SequencesExt

\* The members of a finite set of positions, in order, and what stands at them.
InOrder(S) ==
  [n \in 1..Cardinality(S) |-> CHOOSE i \in S : Cardinality({j \in S : j < i}) = n - 1]
Picked(s, S) == LET order == InOrder(S) IN [n \in DOMAIN order |-> s[order[n]]]

Slash == "/"
Dot == <<".">>
DotDot == <<".", ".">>
Absolute(path) == path # <<>> /\ Head(path) = Slash

\* Mutant: ".." is dropped like ".", and what it should take along stays.
ClosedDrops(r) ==
  IF r.open \in {Dot, DotDot} THEN [r EXCEPT !.open = <<>>]
  ELSE [r EXCEPT !.open = <<>>, !.kept = Append(@, r.open)]

\* The segment that was open ends at a slash: "." goes, ".." takes the segment
\* before it along, also an empty one; where there is none it is moved to the front.
Closed(r) ==
  CASE r.open = Dot -> [r EXCEPT !.open = <<>>]
    [] r.open = DotDot /\ r.kept # <<>> -> [r EXCEPT !.open = <<>>, !.kept = Front(@)]
    [] r.open = DotDot /\ r.kept = <<>> -> [r EXCEPT !.open = <<>>, !.up = @ + 1]
    [] OTHER -> [r EXCEPT !.open = <<>>, !.kept = Append(@, r.open)]

\* Of several slashes in a row the first stays.
Squeezed(path) ==
  Picked(path, {i \in DOMAIN path : path[i] = Slash => i = 1 \/ path[i - 1] # Slash})

\* The loop runs to a length that does not count the slash put in front of a
\* relative path, and is short by one more after each climb: a slash that is so
\* near the end closes nothing, like the end itself.
symbolicRealpath(file) ==
  LET rest == IF Absolute(file) THEN Tail(file) ELSE file
      short(r) == r.up + (IF Absolute(file) THEN 0 ELSE 1)
      Scan(r, i) ==
        IF rest[i] = Slash /\ Len(rest) - i >= short(r) THEN Closed(r)
        ELSE [r EXCEPT !.open = Append(@, rest[i])]
      scan[i \in 0..Len(rest)] ==
        IF i = 0 THEN [up |-> 0, kept |-> <<>>, open |-> <<>>] ELSE Scan(scan[i - 1], i)
      end == scan[Len(rest)]
  IN Squeezed(FlattenSeq([n \in 1..end.up |-> <<".", ".", "/">>])
                \o <<Slash>>
                \o FlattenSeq([n \in DOMAIN end.kept |-> Append(end.kept[n], Slash)])
                \o end.open)

\* A slash at the end of dir does not count.
isInDir(file, dir) ==
  LET bare == IF Last(dir) = Slash THEN Front(dir) ELSE dir
  IN /\ IsPrefix(bare, file)
     /\ Len(file) = Len(bare) \/ file[Len(bare) + 1] = Slash

-----------------------------------------------------------------------------
(* The same said of whole paths: a path goes down its segments, and ".."   *)
(* goes back over the last one still to be gone down.                      *)

\* The segments of an absolute path, the last one, after the last slash, included.
Segments(path) ==
  LET slashes == InOrder({i \in DOMAIN path : path[i] = Slash} \cup {Len(path) + 1})
  IN [n \in 1..Len(slashes) - 1 |-> SubSeq(path, slashes[n] + 1, slashes[n + 1] - 1)]

\* How far segments i to j go down.
Depth(s, i, j) ==
  Cardinality({n \in i..j : s[n] \notin {Dot, DotDot}}) - Cardinality({n \in i..j : s[n] = DotDot})

Climbs(path) ==
  \E n \in 1..Len(Segments(path)) - 1 : Depth(Segments(path), 1, n) < 0

\* Paths of which symbolicRealpath makes what their writer means.
Plain(path) ==
  Absolute(path) /\ ~Climbs(path)
  /\ \A n \in 1..Len(Segments(path)) - 1 : Segments(path)[n] # <<>>

\* A segment is left if no later ".." goes back over it; the last one always is.
Resolved(path) ==
  LET s == Segments(path)
      n == Len(s)
      Left(i) == /\ s[i] \notin {Dot, DotDot}
                 /\ \A j \in i + 1..n - 1 : Depth(s, i, j) > 0
      left == Picked(s, {i \in 1..n - 1 : Left(i)} \cup {n})
  IN FlattenSeq([k \in DOMAIN left |-> <<Slash>> \o left[k]])
=============================================================================
