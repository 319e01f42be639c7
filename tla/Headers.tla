------------------------------ MODULE Headers ------------------------------
(***************************************************************************)
(* The header list of src/headers.c and the parsing of its lines. A line   *)
(* is a sequence of bytes, where a word such as GET or close stands as one *)
(* byte; a header list is a sequence of records, as in the code. malloc    *)
(* does not fail here.                                                     *)
(***************************************************************************)
EXTENDS Paths

CONSTANT NULL

Blank == " "
First(s, b) == SelectInSeq(s, LAMBDA x : x = b)

\* The bytes of s before and after the first b; all of s, and nothing, if there is none.
Before(s, b) == IF Contains(s, b) THEN SubSeq(s, 1, First(s, b) - 1) ELSE s
After(s, b) == IF Contains(s, b) THEN SubSeq(s, First(s, b) + 1, Len(s)) ELSE <<>>

-----------------------------------------------------------------------------
(* The list: keys are compared in the order of the list.                   *)

headers_find(h, key) == SelectInSeq(h, LAMBDA header : header.key = key)

headers_get(h, key) ==
  IF headers_find(h, key) = 0 THEN NULL ELSE h[headers_find(h, key)].value

headers_mod(h, key, value) ==
  LET header == [key |-> key, value |-> value]
      index == headers_find(h, key)
  IN IF index = 0 THEN Append(h, header) ELSE [h EXCEPT ![index] = header]

headers_remove(h, key) ==
  LET index == headers_find(h, key)
  IN IF index = 0 THEN h ELSE RemoveAt(h, index)

-----------------------------------------------------------------------------
(* Header lines.                                                           *)

HeaderEnd(line) == line = <<>>
HeaderError(line) == line # <<>> /\ ~Contains(line, ":")

\* Blanks go at both ends of a value that has anything else.
Trimmed(value) ==
  LET solid == {i \in DOMAIN value : value[i] # Blank}
  IN IF solid = {} THEN value
     ELSE SubSeq(value, Min(solid), Max(solid))

headers_parse(h, line) ==
  headers_mod(h, Before(line, ":"), Trimmed(After(line, ":")))

-----------------------------------------------------------------------------
(* The request line.                                                       *)

Methods == {"GET", "HEAD", "POST"}
Protocols == {"HTTP/1.0", "HTTP/1.1"}

\* What strtok finds between blanks.
Words(line) ==
  LET starts == {i \in DOMAIN line : line[i] # Blank /\ (i = 1 \/ line[i - 1] = Blank)}
      word(i) == Before(SubSeq(line, i, Len(line)), Blank)
      order == InOrder(starts)
  IN [n \in DOMAIN order |-> word(order[n])]

MetadataError(line) ==
  ~ /\ Len(Words(line)) = 3
    /\ Words(line)[1] \in {<<m>> : m \in Methods}
    /\ Words(line)[3] \in {<<p>> : p \in Protocols}

\* A fragment is dropped, a query ends the path. A target does not begin with
\* either, where strtok would skip it.
Target(line) == Before(Words(line)[2], "#")
RawPath(line) == Before(Target(line), "?")

headers_metadata(line) ==
  [protocol |-> Words(line)[3][1],
   path |-> symbolicRealpath(RawPath(line)),
   queryString |-> After(Target(line), "?")]

\* uri is allocated for the path as it was sent, and filled with the one above.
UriTooLong(line) == Len(headers_metadata(line).path) > Len(RawPath(line))
=============================================================================
