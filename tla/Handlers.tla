------------------------------ MODULE Handlers ------------------------------
(***************************************************************************)
(* The handlers a request is given to, and all they start: status() and    *)
(* the directory listing (src/status.c, src/files.c), fileHandler with     *)
(* normalizePath (src/files.c), cgiHandler with its child process          *)
(* (src/cgi.c), fileCopyThread (src/util.c), and sendHeader with the       *)
(* thread that encodes chunks (src/networking.c).                          *)
(*                                                                         *)
(* One process serves all requests, and no descriptor is close-on-exec: a  *)
(* child holds the write end of every pipe that was open when it was       *)
(* forked, those of other requests included, until it exits.  Bytes go one *)
(* at a time and stand for a buffer of any length; every pipe holds Room   *)
(* of them.  A line of a script's header counts as one; "header" is any    *)
(* that can be read, a good Status among them, and "200" what it may say;  *)
(* a script gives its status at most once.                                 *)
(*                                                                         *)
(* The socket of a connection does not block, and nobody looks at what     *)
(* write and the calls of stdio return: an item for which its send buffer  *)
(* has not room enough is lost, whole or in part.                          *)
(***************************************************************************)
EXTENDS Naturals, Sequences

CONSTANTS
  Requests,  \* what the server is asked for, each by a client of its own
  Unruly,    \* those where system calls may fail and the 30 s may pass
  Slow,      \* those whose clients may be slower to read than the server to write
  Things,    \* what a path may turn out to be
  Scripts,   \* what the program a request may ask for may write
  Files,     \* what the file may hold
  Room,      \* what a pipe holds
  Server     \* the server process; the others are the children

Lines == {"header", "length", "wrong", "malformed", "blank"}
Bytes == {"a", "b"}
AllThings == {"no root", "absent", "denied", "trouble", "outside",
              "file", "program", "directory", "device"}
Statuses == {"200", "400", "403", "404", "500"}

ASSUME HandlersAssumption ==
  /\ Unruly \subseteq Requests /\ Slow \subseteq Requests /\ Server \notin Requests
  /\ Things \subseteq AllThings
  /\ Scripts \in [Requests -> SUBSET Seq(Lines \cup Bytes)]
  /\ Files \in [Requests -> SUBSET Seq(Bytes)]
  /\ Room \in Nat \ {0}

VARIABLES
  pc,         \* where the thread that runs the handler is
  job,        \* what it writes after the head: a page, a file or a script's body
  head,       \* the status it sends
  persistent, \* whether the connection is
  kind,       \* what answers: a page, a file or a program
  whole,      \* what the file holds, or the program writes
  given,      \* how much of it was read, or written
  got,        \* what the header of the program said so far
  child,      \* the child process
  fd,         \* what the handler writes to
  copyFd,     \* what the copy thread writes to
  thread,     \* the thread that reads a pipe: the copy thread or an encoder
  pipe,       \* what is in it
  writers,    \* the processes that hold its write end
  out         \* what the client was sent, with a mark for what was lost

handler == <<pc, job, head, fd>>
request == <<persistent, kind>>
content == <<whole, given, got, child>>
copies == <<copyFd, thread>>
pipes == <<pipe, writers>>
vars == <<handler, request, content, copies, pipes, out>>

\* A request has a pipe from its child and one to the encoder; again is that of
\* a second response to the same request.
Encoders == {"enc", "again"}
Pipes == Requests \X ({"cgi"} \cup Encoders)
Cgi(r) == <<r, "cgi">>

Init ==
  /\ pc = [r \in Requests |-> "start"]
  /\ job = [r \in Requests |-> "page"]
  /\ head = [r \in Requests |-> "500"]
  /\ persistent \in [Requests -> BOOLEAN]
  /\ kind = [r \in Requests |-> "page"]
  /\ whole = [r \in Requests |-> << >>]
  /\ given = [r \in Requests |-> 0]
  /\ got = [r \in Requests |-> "nothing"]
  /\ child = [r \in Requests |-> "none"]
  /\ fd = [r \in Requests |-> "none"]
  /\ copyFd = [r \in Requests |-> "none"]
  /\ thread = [p \in Pipes |-> "none"]
  /\ pipe = [p \in Pipes |-> << >>]
  /\ writers = [p \in Pipes |-> {}]
  /\ out = [r \in Requests |-> << >>]

Goto(r, l) == pc' = [pc EXCEPT ![r] = l]

\* An item on its way to f, the socket or the pipe of an encoder of r.
HasRoom(r, f) == f # "socket" => Len(pipe[<<r, f>>]) < Room
Received(r, item) == {item} \cup (IF r \in Slow THEN {"lost"} ELSE {})
ToClient(r, item) ==
  \E x \in Received(r, item) : out' = [out EXCEPT ![r] = Append(@, x)]
Sends(r, f, item) == IF f = "socket" THEN ToClient(r, item) ELSE out' = out
Piped(q, r, f, item) ==
  IF f = "socket" THEN q ELSE [q EXCEPT ![<<r, f>>] = Append(@, item)]

\* The server closes what it wrote to; after that process x holds no write end.
Closed(r, f) ==
  IF f = "socket" THEN writers ELSE [writers EXCEPT ![<<r, f>>] = @ \ {Server}]
Released(x) == [p \in Pipes |-> writers[p] \ {x}]

-----------------------------------------------------------------------------
(* What is answered.  "ok" is no answer yet.                                *)

normalizePath(thing) ==
  CASE thing = "outside" -> "400"
    [] thing = "denied" -> "403"
    [] thing = "absent" -> "404"
    [] thing \in {"no root", "trouble"} -> "500"
    [] OTHER -> "ok"

\* Access for execution, then the type.
Executable(thing) ==
  IF normalizePath(thing) # "ok" THEN normalizePath(thing)
  ELSE IF thing = "program" THEN "ok" ELSE "403"

\* A directory is listed, or refused if the settings do not allow it.
Readable(thing) ==
  CASE normalizePath(thing) # "ok" -> {normalizePath(thing)}
    [] thing = "directory" -> {"200", "403"}
    [] thing = "device" -> {"500"}
    [] OTHER -> {"ok"}

PagesOrNone == {"500"} \cup UNION {{Executable(t)} \cup Readable(t) : t \in Things}

\* Every refusal; 500 is also for stat, open, malloc and pipe, and for no handler.
Pages ==
  {"500"} \cup ((UNION {{Executable(t)} \cup Readable(t) : t \in Things}) \ {"ok"})

Page(r, s) ==
  /\ job' = [job EXCEPT ![r] = "page"]
  /\ head' = [head EXCEPT ![r] = s]
  /\ Goto(r, "send")

ServePage(r) ==
  /\ pc[r] = "start"
  /\ \E s \in Pages : Page(r, s)
  /\ UNCHANGED <<fd, request, content, copies, pipes, out>>

\* The file, or the index file of the directory.
ServeFile(r) ==
  /\ pc[r] = "start" /\ \E t \in Things : t = "directory" \/ "ok" \in Readable(t)
  /\ \E s \in Files[r] : whole' = [whole EXCEPT ![r] = s]
  /\ kind' = [kind EXCEPT ![r] = "file"]
  /\ job' = [job EXCEPT ![r] = "file"]
  /\ head' = [head EXCEPT ![r] = "200"]
  /\ Goto(r, "send")
  /\ UNCHANGED <<persistent, fd, given, got, child, copies, pipes, out>>

StartCgi(r) ==
  /\ pc[r] = "start" /\ \E t \in Things : Executable(t) = "ok"
  /\ kind' = [kind EXCEPT ![r] = "cgi"]
  /\ writers' = [writers EXCEPT ![Cgi(r)] = {Server}]
  /\ Goto(r, "fork")
  /\ UNCHANGED <<job, head, fd, persistent, content, copies, pipe, out>>

-----------------------------------------------------------------------------
(* sendHeader                                                              *)

\* A Content-Length, or no persistence, makes the response unchunked.
Sized(r) == job[r] = "file" \/ (job[r] = "copy" /\ got[r] = "length")
Encoder(r) == IF thread[<<r, "enc">>] = "none" THEN "enc" ELSE "again"

SendUnchunked(r) ==
  /\ pc[r] = "send" /\ (persistent[r] => Sized(r))
  /\ fd' = [fd EXCEPT ![r] = "socket"]
  /\ Goto(r, "head")
  /\ UNCHANGED <<job, head, request, content, copies, pipes, out>>

\* The encoder runs before the head is written.
SendChunked(r) ==
  LET p == <<r, Encoder(r)>>
  IN /\ pc[r] = "send" /\ persistent[r] /\ ~Sized(r)
     /\ fd' = [fd EXCEPT ![r] = Encoder(r)]
     /\ thread' = [thread EXCEPT ![p] = "copy"]
     /\ writers' = [writers EXCEPT ![p] = {Server}]
     /\ Goto(r, "head")
     /\ UNCHANGED <<job, head, request, content, copyFd, pipe, out>>

WriteHead(r) ==
  /\ pc[r] = "head"
  /\ ToClient(r, head[r])
  /\ Goto(r, job[r])
  /\ UNCHANGED <<job, head, fd, request, content, copies, pipes>>

-----------------------------------------------------------------------------
(* status, showIndex and fuckyouHandler; fileHandler                       *)

\* cgiHandler goes on after a page of its own: to the join when the child was
\* waited for, else to the cancellation of the copy thread.
AfterPage(r) ==
  CASE thread[Cgi(r)] = "none" -> "returned"
    [] thread[Cgi(r)] # "none" /\ child[r] = "reaped" -> "join"
    [] OTHER -> "cancel"

\* fclose writes the buffered page and closes.
WritePage(r) ==
  /\ pc[r] = "page" /\ HasRoom(r, fd[r])
  /\ Sends(r, fd[r], "page")
  /\ pipe' = Piped(pipe, r, fd[r], "page")
  /\ writers' = Closed(r, fd[r])
  /\ fd' = [fd EXCEPT ![r] = "none"]
  /\ Goto(r, AfterPage(r))
  /\ UNCHANGED <<job, head, request, content, copies>>

\* fdopen or scandir fails: nothing is written, and nothing closed.
PageFails(r) ==
  /\ r \in Unruly /\ pc[r] = "page"
  /\ Goto(r, AfterPage(r))
  /\ UNCHANGED <<job, head, fd, request, content, copies, pipes, out>>

WriteFile(r) ==
  /\ pc[r] = "file" /\ given[r] < Len(whole[r])
  /\ Sends(r, fd[r], whole[r][given[r] + 1])
  /\ given' = [given EXCEPT ![r] = @ + 1]
  /\ UNCHANGED <<handler, request, whole, got, child, copies, pipes>>

CloseFile(r) ==
  /\ pc[r] = "file" /\ given[r] = Len(whole[r])
  /\ fd' = [fd EXCEPT ![r] = "none"]
  /\ Goto(r, "returned")
  /\ UNCHANGED <<job, head, request, content, copies, pipes, out>>

\* read returns -1 for ever, which the loop takes for a byte.
FileReadFails(r) ==
  /\ r \in Unruly /\ pc[r] = "file"
  /\ Goto(r, "spin")
  /\ UNCHANGED <<job, head, fd, request, content, copies, pipes, out>>

-----------------------------------------------------------------------------
(* cgiHandler                                                              *)

\* The child holds what the server holds, of every request.
Inherited(r) ==
  [p \in Pipes |-> writers[p] \cup (IF Server \in writers[p] THEN {r} ELSE {})]

Fork(r) ==
  /\ pc[r] = "fork"
  /\ child' = [child EXCEPT ![r] = "forked"]
  /\ writers' = Inherited(r)
  /\ Goto(r, "close")
  /\ UNCHANGED <<job, head, fd, request, whole, given, got, copies, pipe, out>>

\* Both ends of the pipe stay open.
ForkFails(r) ==
  /\ pc[r] = "fork"
  /\ Page(r, "500")
  /\ UNCHANGED <<fd, request, content, copies, pipes, out>>

CloseOwnNot(r) ==
  /\ pc[r] = "close"
  /\ Goto(r, "read")
  /\ UNCHANGED <<job, head, fd, request, content, copies, pipes, out>>

CloseOwn(r) ==
  /\ pc[r] = "close"
  /\ writers' = [writers EXCEPT ![Cgi(r)] = @ \ {Server}]
  /\ Goto(r, "read")
  /\ UNCHANGED <<job, head, fd, request, content, copies, pipe, out>>

\* The next line of the header.
Reads(r, line) ==
  /\ pc[r] = "read" /\ pipe[Cgi(r)] # << >>
  /\ line = Head(pipe[Cgi(r)])
  /\ pipe' = [pipe EXCEPT ![Cgi(r)] = Tail(@)]

\* The status is looked at after the last line; a wrong one is not forgotten.
ReadLine(r) ==
  /\ \E line \in {"header", "length", "wrong"} :
       /\ Reads(r, line)
       /\ got' = [got EXCEPT ![r] = IF "wrong" \in {line, @} THEN "wrong"
                                    ELSE IF "length" \in {line, @} THEN "length"
                                    ELSE "header"]
  /\ UNCHANGED <<handler, request, whole, given, child, copies, writers, out>>

\* The header ends with an empty line after another line, and a good status.
ReadBlank(r) ==
  /\ Reads(r, "blank") /\ got[r] \in {"header", "length"}
  /\ job' = [job EXCEPT ![r] = "copy"]
  /\ head' = [head EXCEPT ![r] = "200"]
  /\ Goto(r, "send")
  /\ UNCHANGED <<fd, request, content, copies, writers, out>>

\* SIGTERM, which a program may ignore; the end of a child closes what it held.
Kill(r) ==
  /\ \/ /\ child' = [child EXCEPT ![r] = IF @ = "failed" THEN @ ELSE "exited"]
        /\ writers' = Released(r)
     \/ r \in Unruly /\ child[r] = "run" /\ UNCHANGED <<child, writers>>
  /\ Goto(r, "reap")

\* An empty first line is taken for a header that cannot be parsed.
ReadMalformed(r) ==
  /\ \/ Reads(r, "blank") /\ got[r] \in {"nothing", "wrong"}
     \/ \E line \in {"malformed"} \cup Bytes : Reads(r, line)
  /\ Kill(r)
  /\ UNCHANGED <<job, head, fd, request, whole, given, got, copies, out>>

ReadEof(r) ==
  /\ pc[r] = "read" /\ pipe[Cgi(r)] = << >> /\ writers[Cgi(r)] = {}
  /\ Kill(r)
  /\ UNCHANGED <<job, head, fd, request, whole, given, got, copies, pipe, out>>

Ended(r) == child[r] \in {"exited", "failed"}

ReapNot(r) ==
  /\ pc[r] = "reap"
  /\ Page(r, "500")
  /\ UNCHANGED <<fd, request, content, copies, pipes, out>>

\* waitpid after the SIGTERM.
Reap(r) ==
  /\ pc[r] = "reap" /\ Ended(r)
  /\ child' = [child EXCEPT ![r] = "reaped"]
  /\ Page(r, "500")
  /\ UNCHANGED <<fd, request, whole, given, got, copies, pipes, out>>

\* What the header was sent to is the copy thread's to close.
StartCopy(r) ==
  /\ pc[r] = "copy"
  /\ thread' = [thread EXCEPT ![Cgi(r)] = "copy"]
  /\ copyFd' = [copyFd EXCEPT ![r] = fd[r]]
  /\ fd' = [fd EXCEPT ![r] = "none"]
  /\ Goto(r, "wait")
  /\ UNCHANGED <<job, head, request, content, pipes, out>>

\* The result of startCopyThread is not looked at.
StartCopyFails(r) ==
  /\ r \in Unruly /\ pc[r] = "copy"
  /\ thread' = [thread EXCEPT ![Cgi(r)] = "garbage"]
  /\ Goto(r, "wait")
  /\ UNCHANGED <<job, head, fd, request, content, copyFd, pipes, out>>

\* A child that exits with 255 is taken for one that was not executed, and
\* answered for a second time.
Waitpid(r) ==
  /\ pc[r] = "wait" /\ Ended(r)
  /\ child' = [child EXCEPT ![r] = "reaped"]
  /\ \/ child[r] = "failed" /\ Page(r, "500")
     \/ child[r] = "exited" /\ Goto(r, "join") /\ UNCHANGED <<job, head>>
  /\ UNCHANGED <<fd, request, whole, given, got, copies, pipes, out>>

WaitpidFails(r) ==
  /\ r \in Unruly /\ pc[r] = "wait"
  /\ Page(r, "500")
  /\ UNCHANGED <<fd, request, content, copies, pipes, out>>

JoinNot(r) ==
  /\ pc[r] = "join"
  /\ Goto(r, "returned")
  /\ UNCHANGED <<job, head, fd, request, content, copies, pipes, out>>

Join(r) ==
  /\ pc[r] = "join" /\ thread[Cgi(r)] = "ended"
  /\ Goto(r, "returned")
  /\ UNCHANGED <<job, head, fd, request, content, copies, pipes, out>>

\* The copy thread is not joined, and what it wrote to stays open.
CancelCopy(r) ==
  /\ pc[r] = "cancel" /\ thread[Cgi(r)] # "garbage"
  /\ thread' = [thread EXCEPT ![Cgi(r)] = IF @ = "copy" THEN "stopped" ELSE @]
  /\ Goto(r, "returned")
  /\ UNCHANGED <<job, head, fd, request, content, copyFd, pipes, out>>

\* pthread_join or pthread_cancel of what was never a thread.
UsesGarbage(r) ==
  /\ pc[r] \in {"join", "cancel"} /\ thread[Cgi(r)] = "garbage"
  /\ Goto(r, "undefined")
  /\ UNCHANGED <<job, head, fd, request, content, copies, pipes, out>>

-----------------------------------------------------------------------------
(* The child                                                               *)

Exec(r) ==
  /\ child[r] = "forked"
  /\ child' = [child EXCEPT ![r] = "run"]
  /\ \E s \in Scripts[r] : whole' = [whole EXCEPT ![r] = s]
  /\ UNCHANGED <<handler, request, given, got, copies, pipes, out>>

Exit(r, s) ==
  /\ child' = [child EXCEPT ![r] = s]
  /\ writers' = Released(r)
  /\ UNCHANGED <<handler, request, whole, given, got, copies, pipe, out>>

\* dup2, setenv or execl fails.
ExecFails(r) == child[r] = "forked" /\ Exit(r, "failed")

ChildWrites(r) ==
  /\ child[r] = "run" /\ given[r] < Len(whole[r]) /\ Len(pipe[Cgi(r)]) < Room
  /\ pipe' = [pipe EXCEPT ![Cgi(r)] = Append(@, whole[r][given[r] + 1])]
  /\ given' = [given EXCEPT ![r] = @ + 1]
  /\ UNCHANGED <<handler, request, whole, got, child, copies, writers, out>>

ChildExits(r) ==
  /\ child[r] = "run" /\ given[r] = Len(whole[r])
  /\ \E s \in {"exited"} \cup (IF r \in Unruly THEN {"failed"} ELSE {}) : Exit(r, s)

-----------------------------------------------------------------------------
(* fileCopyThread and chunkedTransferEncodingThread                        *)

Target(p) == IF p[2] = "cgi" THEN copyFd[p[1]] ELSE "socket"
AtEofEmpty(p) == pipe[p] = << >>
AtEof(p) == pipe[p] = << >> /\ writers[p] = {}

Moves(p) ==
  LET r == p[1]
      item == Head(pipe[p])
  IN /\ thread[p] = "copy" /\ pipe[p] # << >> /\ HasRoom(r, Target(p))
     /\ pipe' = Piped([pipe EXCEPT ![p] = Tail(@)], r, Target(p), item)
     /\ Sends(r, Target(p), item)
     /\ UNCHANGED <<handler, request, content, copies, writers>>

CopierEnds(r) ==
  /\ thread[Cgi(r)] = "copy" /\ AtEof(Cgi(r))
  /\ thread' = [thread EXCEPT ![Cgi(r)] = "ended"]
  /\ writers' = Closed(r, copyFd[r])
  /\ copyFd' = [copyFd EXCEPT ![r] = "none"]
  /\ UNCHANGED <<handler, request, content, pipe, out>>

\* The last chunk.
EncoderEnds(r, e) ==
  LET p == <<r, e>>
  IN /\ thread[p] = "copy" /\ AtEof(p)
     /\ thread' = [thread EXCEPT ![p] = "ended"]
     /\ ToClient(r, "last")
     /\ UNCHANGED <<handler, request, content, copyFd, pipes>>

-----------------------------------------------------------------------------
(* The 30 s of requestThread, and the cleanup that stops the encoder.      *)

Running == {"start", "fork", "close", "read", "reap", "send", "head", "page",
            "file", "spin", "copy", "wait", "join", "cancel"}
Encoding(r) == \E e \in Encoders : thread[<<r, e>>] = "copy"

Cancel(r) ==
  /\ r \in Unruly
  /\ pc[r] \in Running \/ (pc[r] = "returned" /\ Encoding(r))
  /\ Goto(r, "cancelled")
  /\ thread' = [p \in Pipes |-> IF p[1] = r /\ p[2] # "cgi" /\ thread[p] = "copy"
                                THEN "stopped" ELSE thread[p]]
  /\ UNCHANGED <<job, head, fd, request, content, copyFd, pipes, out>>

-----------------------------------------------------------------------------
HandlerStep(r) ==
  \/ ServePage(r) \/ ServeFile(r) \/ StartCgi(r)
  \/ SendUnchunked(r) \/ SendChunked(r) \/ WriteHead(r)
  \/ WritePage(r) \/ PageFails(r) \/ WriteFile(r) \/ CloseFile(r) \/ FileReadFails(r)
  \/ Fork(r) \/ ForkFails(r) \/ CloseOwn(r)
  \/ ReadLine(r) \/ ReadBlank(r) \/ ReadMalformed(r) \/ ReadEof(r) \/ Reap(r)
  \/ StartCopy(r) \/ StartCopyFails(r) \/ Waitpid(r) \/ WaitpidFails(r)
  \/ Join(r) \/ CancelCopy(r) \/ UsesGarbage(r)

ChildStep(r) == Exec(r) \/ ExecFails(r) \/ ChildWrites(r) \/ ChildExits(r)

CopierStep(r) == Moves(Cgi(r)) \/ CopierEnds(r)
EncoderStep(r, e) == Moves(<<r, e>>) \/ EncoderEnds(r, e)

Next ==
  \E r \in Requests :
    \/ HandlerStep(r) \/ ChildStep(r) \/ CopierStep(r) \/ Cancel(r)
    \/ \E e \in Encoders : EncoderStep(r, e)

Spec == Init /\ [][Next]_vars

\* Threads and processes are scheduled, a program ends when what it writes is
\* read, and the timeout comes.
FairSpec ==
  /\ Spec
  /\ \A r \in Requests :
       /\ WF_vars(HandlerStep(r)) /\ WF_vars(ChildStep(r))
       /\ WF_vars(CopierStep(r)) /\ WF_vars(Cancel(r))
       /\ \A e \in Encoders : WF_vars(EncoderStep(r, e))
-----------------------------------------------------------------------------
Ruly == Requests \ Unruly

PCs == Running \cup {"returned", "cancelled", "undefined"}
Sinks == {"none", "socket"} \cup Encoders
Threads == {"none", "copy", "ended", "stopped", "garbage"}
Children == {"none", "forked", "run", "exited", "failed", "reaped"}

\* Every variable keeps its kind of value, and no pipe holds more than it can.
TypeOK ==
  /\ pc \in [Requests -> PCs]
  /\ job \in [Requests -> {"page", "file", "copy"}]
  /\ head \in [Requests -> Statuses]
  /\ persistent \in [Requests -> BOOLEAN]
  /\ kind \in [Requests -> {"page", "file", "cgi"}]
  /\ whole \in [Requests -> Seq(Lines \cup Bytes)]
  /\ given \in [Requests -> Nat] /\ \A r \in Requests : given[r] <= Len(whole[r])
  /\ got \in [Requests -> {"nothing", "header", "length", "wrong"}]
  /\ child \in [Requests -> Children]
  /\ fd \in [Requests -> Sinks] /\ copyFd \in [Requests -> Sinks]
  /\ thread \in [Pipes -> Threads]
  /\ pipe \in [Pipes -> Seq(Lines \cup Bytes \cup {"page"})]
  /\ \A p \in Pipes : Len(pipe[p]) <= Room
  /\ writers \in [Pipes -> SUBSET (Requests \cup {Server})]
  /\ out \in [Requests -> Seq(Statuses \cup Lines \cup Bytes \cup {"page", "last", "lost"})]

\* What a program wrote as a header, if it is one: lines that can be read, a
\* status that is one, and an empty line.
Header(s, n) ==
  /\ n \in 2 .. Len(s) /\ s[n] = "blank"
  /\ \A i \in 1 .. n - 1 : s[i] \in {"header", "length"}

Answer(r) ==
  CASE kind[r] = "page" -> <<head[r], "page">>
    [] kind[r] = "file" -> <<"200">> \o whole[r]
    [] kind[r] = "cgi" /\ \E n \in DOMAIN whole[r] : Header(whole[r], n) ->
         LET n == CHOOSE i \in DOMAIN whole[r] : Header(whole[r], i)
         IN <<"200">> \o SubSeq(whole[r], n + 1, Len(whole[r]))
    [] OTHER -> <<"500", "page">>

Measured(r) ==
  \/ kind[r] = "file"
  \/ \E n \in DOMAIN whole[r] :
       Header(whole[r], n) /\ \E i \in 1 .. n : whole[r][i] = "length"

Response(r) ==
  IF persistent[r] /\ ~Measured(r) THEN Answer(r) \o <<"last">> ELSE Answer(r)

Served(r) == pc[r] = "returned" /\ ~Encoding(r)

\* A client is sent the answer to its request: what the file holds, what the program
\* wrote after a header that is one, or else a page; each item once and in its place,
\* and the last when the handler has returned and the encoder has ended, whatever the
\* other requests meet, and whichever threads run first.  What is missing of it is
\* what the socket of a slow client had no room for (files.c:225, util.c:149,
\* networking.c:395); a client that keeps up misses nothing.
AnswersInOrder ==
  \A r \in Ruly :
    /\ Len(out[r]) <= Len(Response(r))
    /\ \A i \in 1 .. Len(out[r]) : out[r][i] \in Received(r, Response(r)[i])
    /\ Served(r) => Len(out[r]) = Len(Response(r))

\* cgiHandler leaves no child behind, neither running nor a zombie.
ChildReaped ==
  \A r \in Ruly : pc[r] = "returned" => child[r] \in {"none", "reaped"}

\* The handlers keep what Connection counts on (HandlerPromise), however the
\* copy thread, the child and the encoder take their turns.
Phase(r) ==
  CASE pc[r] \in {"page", "file", "copy", "wait", "join"} -> "body"
    [] pc[r] = "returned" -> "end"
    [] OTHER -> "handler"
Promise == INSTANCE HandlerPromise WITH
  Requests <- Ruly,
  rs <- [r \in Ruly |-> Phase(r)],
  en <- [r \in Ruly |-> thread[<<r, "enc">>]],
  open <- {r \in Ruly : fd[r] # "none" \/ copyFd[r] # "none"}
KeepsPromise == Promise!Spec

\* A cancelled handler, or one whose copy thread never ran, may leave a child
\* that nobody reads from: it holds the pipes of others and does not exit.
Abandoned(q) == pc[q] \in {"cancelled", "undefined"}
                  \/ thread[Cgi(q)] \in {"stopped", "garbage"}

\* Every request is answered to the end, although the end of a response has to
\* wait for the children of other requests, which hold its pipe; but not when
\* one of them was abandoned.
AllEnds ==
  \A r \in Ruly : <>(Served(r) \/ \E q \in Unruly : Abandoned(q))
=============================================================================
