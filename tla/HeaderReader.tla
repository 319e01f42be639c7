---------------------------- MODULE HeaderReader ----------------------------
(***************************************************************************)
(* How the data thread reads requests from one connection: dataHandler of  *)
(* src/networking.c from its read to the start of the request handler. The *)
(* bytes of a request come in pieces; what was read when a piece ends is   *)
(* kept in currentHeader until SIGIO brings the thread back.               *)
(***************************************************************************)
EXTENDS Headers

CONSTANTS
  BUFFER_LENGTH,  \* size of dataHandler's buffer (64)
  Lines,          \* what a client may send, each followed by CR LF
  MaxLines        \* bound: lines a client sends

\* The bytes that reach the reader.
Bytes == {"CR", "LF"} \cup UNION {ToSet(line) : line \in Lines}

\* What the code holds by pointer is something or NULL, never both.
ASSUME ReaderAssumption ==
  /\ BUFFER_LENGTH \in Nat \ {0} /\ MaxLines \in Nat
  /\ Lines \subseteq Seq(Bytes) /\ NULL \notin Seq(Bytes)
  /\ NULL \notin [protocol : Protocols, path : Seq(Bytes \cup {Slash, "."}),
                  queryString : Seq(Bytes)]

VARIABLES
  sock,           \* bytes sent and not yet read
  eof,            \* the client has closed the connection
  sent,           \* lines sent
  state,          \* connection->state
  pc,             \* the data thread: in signal_wait, or reading this connection
  buffer, last,   \* its locals
  currentHeader,  \* NULL, or what it holds
  metaData,       \* NULL while metaData.path is
  headers,
  fault,          \* what was written outside its object; the model stops there
  failed,         \* history: read failed for another reason than EAGAIN
  taken           \* history: bytes read since the request before

client == <<sock, eof, sent>>
vars == <<client, state, pc, buffer, last, currentHeader, metaData, headers, fault,
          failed, taken>>

Init ==
  /\ sock = <<>> /\ eof = FALSE /\ sent = 0
  /\ state = "OPENED" /\ pc = "wait" /\ buffer = <<>> /\ last = "none"
  /\ currentHeader = NULL /\ metaData = NULL /\ headers = <<>>
  /\ fault = "none" /\ failed = FALSE /\ taken = <<>>

-----------------------------------------------------------------------------
(* The client. A line may reach the reader in any pieces: read may find    *)
(* nothing between any two bytes. A client that closes sends no more of it. *)

ClientSend(line) ==
  /\ ~eof /\ sock = <<>> /\ sent < MaxLines
  /\ sock' = line \o <<"CR", "LF">> /\ sent' = sent + 1
  /\ UNCHANGED <<eof, state, pc, buffer, last, currentHeader, metaData, headers, fault,
                 failed, taken>>

ClientClose ==
  /\ ~eof /\ eof' = TRUE /\ sock' = <<>>
  /\ UNCHANGED <<sent, state, pc, buffer, last, currentHeader, metaData, headers, fault,
                 failed, taken>>

-----------------------------------------------------------------------------
(* The data thread.                                                        *)

Held == IF currentHeader = NULL THEN <<>> ELSE currentHeader
dumpHeaderBuffer == Held \o buffer

\* Mutant: `last` is forgotten between pieces.
LastHeldNot == "none"

\* `last` goes on where the previous piece ended.
LastHeld == IF Held = <<>> THEN "none" ELSE Last(Held)

Wake ==
  /\ fault = "none" /\ pc = "wait" /\ state = "OPENED"
  /\ pc' = "read" /\ buffer' = <<>> /\ last' = LastHeld
  /\ UNCHANGED <<client, state, currentHeader, metaData, headers, fault, failed, taken>>

Reading(c) == fault = "none" /\ pc = "read" /\ sock # <<>> /\ c = Head(sock)
Take(c) ==
  /\ sock' = Tail(sock) /\ taken' = Append(taken, c)
  /\ UNCHANGED <<eof, sent, failed>>

AtLineEnd(c) == last = "CR" /\ c = "LF"

ReadByte(c) ==
  /\ Reading(c) /\ ~AtLineEnd(c) /\ Take(c)
  /\ last' = c
  /\ \/ /\ Len(buffer) < BUFFER_LENGTH
        /\ buffer' = Append(buffer, c)
        /\ UNCHANGED currentHeader
     \/ /\ Len(buffer) >= BUFFER_LENGTH
        /\ currentHeader' = dumpHeaderBuffer
        /\ buffer' = <<c>>
  /\ UNCHANGED <<state, pc, metaData, headers, fault>>

\* The line that ends here. Its CR was read into the buffer: unless the line
\* before ended in the same pass, since `last` is not reset.
Line == Front(dumpHeaderBuffer)
LineEnds(c) == Reading(c) /\ AtLineEnd(c) /\ Take(c) /\ dumpHeaderBuffer # <<>>

\* currentHeaderLength is 0 and goes to SIZE_MAX.
LengthWraps(c) ==
  /\ Reading(c) /\ AtLineEnd(c) /\ Take(c) /\ dumpHeaderBuffer = <<>>
  /\ fault' = "length"
  /\ UNCHANGED <<state, pc, buffer, last, currentHeader, metaData, headers>>

\* On with the next line.
LineDone == currentHeader' = NULL /\ buffer' = <<>> /\ UNCHANGED <<state, pc, last, fault>>

\* Mutant: what is held is not given up with the connection.
DropKeeps ==
  /\ state' = "ABORTED" /\ pc' = "wait" /\ buffer' = <<>> /\ last' = "none"
  /\ UNCHANGED <<currentHeader, metaData, headers>>

\* The connection is given up: cleanup will free what it holds.
Drop ==
  /\ state' = "ABORTED" /\ pc' = "wait" /\ buffer' = <<>> /\ last' = "none"
  /\ currentHeader' = NULL
  /\ UNCHANGED <<metaData, headers>>

\* A path that has become longer is written past the end of uri.
UriOverflows(c) ==
  /\ LineEnds(c) /\ metaData = NULL /\ ~MetadataError(Line) /\ UriTooLong(Line)
  /\ fault' = "uri"
  /\ UNCHANGED <<state, pc, buffer, last, currentHeader, metaData, headers>>

ReadRequestLine(c) ==
  /\ LineEnds(c) /\ metaData = NULL /\ ~MetadataError(Line) /\ ~UriTooLong(Line)
  /\ metaData' = headers_metadata(Line)
  /\ LineDone /\ UNCHANGED headers

ReadHeader(c) ==
  /\ LineEnds(c) /\ metaData # NULL /\ ~HeaderEnd(Line) /\ ~HeaderError(Line)
  /\ headers' = headers_parse(headers, Line)
  /\ LineDone /\ UNCHANGED metaData

BadLine(c) ==
  /\ LineEnds(c)
  /\ IF metaData = NULL THEN MetadataError(Line) ELSE HeaderError(Line)
  /\ Drop /\ UNCHANGED fault

\* Mutant: the protocol makes no difference.
isPersistentAlways == headers_get(headers, <<"Connection">>) # <<"close">>

\* Any other word than close leaves isPersistent as it was set first.
isPersistent ==
  LET connection == headers_get(headers, <<"Connection">>)
  IN IF connection = NULL THEN metaData.protocol # "HTTP/1.0"
     ELSE connection # <<"close">>

ReadEnd(c) ==
  /\ LineEnds(c) /\ metaData # NULL /\ HeaderEnd(Line)
  /\ state' = IF isPersistent THEN "KEEP_ALIVE" ELSE "PROCESSING"
  /\ currentHeader' = NULL
  /\ pc' = "wait" /\ buffer' = <<>> /\ last' = "none"
  /\ UNCHANGED <<metaData, headers, fault>>

\* Mutant: EAGAIN is an error like any other.
ReadAgainDrops ==
  /\ fault = "none" /\ pc = "read" /\ Drop
  /\ UNCHANGED <<client, fault, failed, taken>>

\* read finds no more bytes for now.
ReadAgain ==
  /\ fault = "none" /\ pc = "read"
  /\ currentHeader' = IF buffer = <<>> THEN currentHeader ELSE dumpHeaderBuffer
  /\ pc' = "wait" /\ buffer' = <<>> /\ last' = "none"
  /\ UNCHANGED <<client, state, metaData, headers, fault, failed, taken>>

\* read finds the end, and buffer[length] is set to 0: one too far if it is full.
ReadEof ==
  /\ fault = "none" /\ pc = "read" /\ sock = <<>> /\ eof
  /\ fault' = IF Len(buffer) = BUFFER_LENGTH THEN "buffer" ELSE "none"
  /\ Drop
  /\ UNCHANGED <<client, failed, taken>>

ReadFails ==
  /\ fault = "none" /\ pc = "read" /\ failed' = TRUE
  /\ Drop
  /\ UNCHANGED <<client, fault, taken>>

\* The response or encoder thread, when a persistent connection's request is over.
resetPersistentConnection ==
  /\ fault = "none" /\ state = "KEEP_ALIVE" /\ state' = "OPENED"
  /\ metaData' = NULL /\ currentHeader' = NULL /\ headers' = <<>>
  /\ taken' = <<>>
  /\ UNCHANGED <<client, pc, buffer, last, fault, failed>>

Next ==
  \/ \E line \in Lines : ClientSend(line)
  \/ ClientClose \/ Wake
  \/ \E c \in ToSet(sock) : \/ ReadByte(c) \/ ReadRequestLine(c) \/ ReadHeader(c)
                            \/ UriOverflows(c)
                            \/ BadLine(c) \/ ReadEnd(c) \/ LengthWraps(c)
  \/ ReadAgain \/ ReadEof \/ ReadFails \/ resetPersistentConnection

Spec == Init /\ [][Next]_vars

-----------------------------------------------------------------------------
(* What was sent, said without reading byte by byte: the lines of s are    *)
(* what stands between its CR LF pairs, and an open line may follow.       *)

EndsOfLines(s) == {i \in 2..Len(s) : s[i - 1] = "CR" /\ s[i] = "LF"}
LinesOf(s) ==
  LET ends == InOrder(EndsOfLines(s))
  IN [n \in DOMAIN ends |->
        SubSeq(s, IF n = 1 THEN 1 ELSE ends[n - 1] + 1, ends[n] - 2)]
OpenLine(s) == SubSeq(s, Max(EndsOfLines(s) \cup {0}) + 1, Len(s))

Blanks(s) == ToSet(s) \subseteq {Blank}
Solid(s) == s # <<>> /\ Head(s) # Blank /\ Last(s) # Blank

\* The line sets key to value.
Sets(line, key, value) ==
  \E i \in DOMAIN line :
    /\ line[i] = ":" /\ key = SubSeq(line, 1, i - 1) /\ ":" \notin ToSet(key)
    /\ \E j, k \in i..Len(line) :
         /\ j <= k /\ value = SubSeq(line, j + 1, k)
         /\ Blanks(SubSeq(line, i + 1, j)) /\ Blanks(SubSeq(line, k + 1, Len(line)))
         /\ Solid(value) \/ (j = i /\ k = Len(line) /\ Blanks(value))
Names(line, key) == Before(line, ":") = key

\* A header list says what the lines of a request say after the first: each key once,
\* with its last value.
Says(h, lines) ==
  LET named == {n \in 2..Len(lines) : lines[n] # <<>>}
  IN /\ \A i, j \in DOMAIN h : h[i].key = h[j].key => i = j
     /\ {h[i].key : i \in DOMAIN h} = {Before(lines[n], ":") : n \in named}
     /\ \A i \in DOMAIN h : \E n \in named :
          /\ Sets(lines[n], h[i].key, h[i].value)
          /\ \A m \in named : m > n => ~Names(lines[m], h[i].key)

\* Method, target and protocol of a request line, if it is made of these.
Parts(line) ==
  LET Positions(set) == {i \in DOMAIN line : line[i] \in set}
      Between(i, j) == SubSeq(line, i + 1, j - 1)
      Apart(i, j) == i < j /\ Between(i, j) # <<>> /\ Blanks(Between(i, j))
  IN {[method |-> line[q[1]], target |-> SubSeq(line, q[2], q[3]), protocol |-> line[q[4]]] :
        q \in {q \in Positions(Methods) \X (DOMAIN line) \X (DOMAIN line) \X Positions(Protocols) :
                 /\ Apart(q[1], q[2]) /\ q[2] <= q[3] /\ Apart(q[3], q[4])
                 /\ Blank \notin ToSet(SubSeq(line, q[2], q[3]))
                 /\ Blanks(Between(0, q[1])) /\ Blanks(Between(q[4], Len(line) + 1))}}

\* The target is a path, perhaps "?" and the query, and perhaps "#" and a fragment.
Aims(target, resolved, query) ==
  \E k, l \in 0..Len(target) :
    LET path == SubSeq(target, 1, k)
        middle == SubSeq(target, k + 1, l)
        fragment == SubSeq(target, l + 1, Len(target))
    IN /\ k <= l /\ {"?", "#"} \cap ToSet(path) = {} /\ "#" \notin ToSet(middle)
       /\ Plain(path) => resolved = Resolved(path)
       /\ (middle = <<>> /\ query = <<>>) \/ middle = <<"?">> \o query
       /\ fragment # <<>> => Head(fragment) = "#"

Requests(line, meta) ==
  \E part \in Parts(line) :
    part.protocol = meta.protocol /\ Aims(part.target, meta.path, meta.queryString)

\* The last of the lines is none that a request may have there.
Malformed(lines) ==
  /\ lines # <<>>
  /\ IF Len(lines) = 1 THEN Parts(lines[1]) = {}
     ELSE Last(lines) # <<>> /\ ":" \notin ToSet(Last(lines))

\* What the last Connection header of a request, or else its protocol, asks for.
AsksToClose(lines) ==
  LET about == {n \in 2..Len(lines) : Names(lines[n], <<"Connection">>)}
  IN IF about = {} THEN \E part \in Parts(lines[1]) : part.protocol = "HTTP/1.0"
     ELSE Sets(lines[Max(about)], <<"Connection">>, <<"close">>)

-----------------------------------------------------------------------------
(* Properties.                                                             *)

\* Every variable has its type: in particular dataHandler's buffer never holds more
\* than BUFFER_LENGTH bytes, and nothing is held of a request that has started.
TypeOK ==
  /\ eof \in BOOLEAN /\ failed \in BOOLEAN /\ sent \in 0..MaxLines
  /\ state \in {"OPENED", "PROCESSING", "KEEP_ALIVE", "ABORTED"}
  /\ pc \in {"wait", "read"} /\ (pc = "read" => state = "OPENED")
  /\ Len(buffer) <= BUFFER_LENGTH /\ (pc = "wait" => buffer = <<>>)
  /\ fault \in {"none", "length", "buffer", "uri"}
  /\ metaData = NULL \/ metaData.protocol \in Protocols
  /\ state # "OPENED" => currentHeader = NULL

\* However a request is cut into pieces, and wherever the buffer was dumped in
\* between, metaData and headers say what the complete lines so far say, nothing
\* of the request before, and the open line is kept (dataHandler, 724-815).
ReadsWhatWasSent ==
  LET lines == LinesOf(taken)
  IN fault = "none" /\ state # "ABORTED" =>
       /\ dumpHeaderBuffer = OpenLine(taken)
       /\ IF lines = <<>> THEN metaData = NULL /\ headers = <<>>
          ELSE Requests(lines[1], metaData) /\ Says(headers, lines)

\* A request starts at its first empty line, with nothing read beyond it, and the
\* connection is not to be kept if the last Connection header says close or,
\* without that header, the protocol is HTTP/1.0 (lines 759-794).
StartsAtEmptyLine ==
  [][LET lines == LinesOf(taken')
     IN state = "OPENED" /\ state' \in {"KEEP_ALIVE", "PROCESSING"} =>
          /\ OpenLine(taken') = <<>>
          /\ \A n \in DOMAIN lines : lines[n] = <<>> <=> n = Len(lines)
          /\ state' = "PROCESSING" <=> AsksToClose(lines)]_vars

\* A connection is given up only at its end, when read fails, or for a line that is
\* malformed; never because a line came in pieces (lines 744-755, 796-806, 837-878).
DroppedForAReason ==
  [][state' = "ABORTED" => state = "ABORTED" \/ eof \/ failed' \/ Malformed(LinesOf(taken'))
    ]_vars
=============================================================================
