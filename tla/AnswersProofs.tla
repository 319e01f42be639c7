---------------------------- MODULE AnswersProofs ----------------------------
(***************************************************************************)
(* Every request without faults of its own is answered in order, and       *)
(* nothing is missing but what a slow client lost: AnswersInOrder of       *)
(* Handlers, for any requests, programs, files and size of pipes.          *)
(***************************************************************************)
EXTENDS HandlersProofs

-----------------------------------------------------------------------------
(* Pipes: c holds the items of w that follow the n-th one.                 *)

Holds(c, w, n) == \A i \in 1 .. Len(c) : c[i] = w[n + i]

LEMMA HoldsTail ==
  ASSUME NEW S, NEW c \in Seq(S), NEW w, NEW n \in Int, c # << >>, Holds(c, w, n)
  PROVE  /\ Head(c) = w[n + 1] /\ Holds(Tail(c), w, n + 1)
         /\ Tail(c) \in Seq(S) /\ Len(Tail(c)) = Len(c) - 1
<1>1. /\ Len(c) \in Nat \ {0} /\ Tail(c) \in Seq(S) /\ Len(Tail(c)) = Len(c) - 1
      /\ \A i \in 1 .. Len(Tail(c)) : Tail(c)[i] = c[i + 1]
      BY HeadTailProperties, EmptySeq
<1>2. Head(c) = c[1]
      OBVIOUS
<1>3. \A i \in 1 .. Len(Tail(c)) : Tail(c)[i] = w[(n + 1) + i]
  <2> SUFFICES ASSUME NEW i \in 1 .. Len(Tail(c)) PROVE Tail(c)[i] = w[(n + 1) + i]
      OBVIOUS
  <2>1. i + 1 \in 1 .. Len(c) /\ n + (i + 1) = (n + 1) + i
        BY <1>1
  <2> QED BY <1>1, <2>1 DEF Holds
<1>4. 1 \in 1 .. Len(c)
      BY <1>1
<1> QED BY <1>1, <1>2, <1>3, <1>4 DEF Holds

LEMMA HoldsAppend ==
  ASSUME NEW S, NEW c \in Seq(S), NEW w, NEW n \in Int, NEW x \in S,
         x = w[n + Len(c) + 1], Holds(c, w, n)
  PROVE  /\ Holds(Append(c, x), w, n)
         /\ Append(c, x) \in Seq(S) /\ Len(Append(c, x)) = Len(c) + 1
<1>1. /\ Len(c) \in Nat /\ Append(c, x) \in Seq(S) /\ Len(Append(c, x)) = Len(c) + 1
      /\ \A i \in 1 .. Len(c) : Append(c, x)[i] = c[i]
      /\ Append(c, x)[Len(c) + 1] = x
      OBVIOUS
<1>2. SUFFICES ASSUME NEW i \in 1 .. Len(c) + 1 PROVE Append(c, x)[i] = w[n + i]
      BY <1>1 DEF Holds
<1>3. CASE i \in 1 .. Len(c)
      BY <1>1, <1>3 DEF Holds
<1>4. CASE i = Len(c) + 1
  <2>1. n + i = n + Len(c) + 1
        BY <1>1, <1>4
  <2> QED BY <1>1, <1>4, <2>1
<1> QED BY <1>1, <1>2, <1>3, <1>4

\* A header has one end.
LEMMA HeaderOnce ==
  ASSUME NEW s, NEW m, NEW n, Header(s, m), Header(s, n)
  PROVE  m = n
<1>1. \A i \in 2 .. Len(s), j \in 2 .. Len(s) :
        Header(s, i) /\ Header(s, j) => ~(i < j)
  <2> SUFFICES ASSUME NEW i \in 2 .. Len(s), NEW j \in 2 .. Len(s),
                      Header(s, i), Header(s, j), i < j
               PROVE  FALSE
      OBVIOUS
  <2>1. i \in 1 .. j - 1
        OBVIOUS
  <2>2. s[i] = "blank" /\ s[i] \in {"header", "length"}
        BY <2>1 DEF Header
  <2> QED BY <2>2
<1>2. m \in 2 .. Len(s) /\ n \in 2 .. Len(s)
      BY DEF Header
<1> QED BY <1>1, <1>2

\* Lines that make a header impossible.
LEMMA NoHeader ==
  ASSUME NEW S, NEW s \in Seq(S), NEW n \in Nat,
         \A i \in 1 .. n : s[i] \in {"header", "length", "wrong"},
         \/ \E i \in 1 .. n : s[i] = "wrong"
         \/ n + 1 <= Len(s) /\ s[n + 1] \notin {"header", "length", "blank"}
         \/ n = 0 /\ s[1] = "blank"
         \/ n = Len(s)
  PROVE  ~\E m \in DOMAIN s : Header(s, m)
<1> SUFFICES ASSUME NEW m \in DOMAIN s, Header(s, m) PROVE FALSE
    OBVIOUS
<1>1. /\ m \in 2 .. Len(s) /\ s[m] = "blank" /\ Len(s) \in Nat
      /\ \A i \in 1 .. m - 1 : s[i] \in {"header", "length"}
      BY DEF Header
<1>2. ~(m <= n)
      BY <1>1
<1>3. n < m
      BY <1>1, <1>2
<1>4. CASE \E i \in 1 .. n : s[i] = "wrong"
      BY <1>1, <1>3, <1>4
<1>5. CASE n + 1 <= Len(s) /\ s[n + 1] \notin {"header", "length", "blank"}
  <2>1. n + 1 \in 1 .. m - 1 \/ n + 1 = m
        BY <1>1, <1>3
  <2> QED BY <1>1, <1>5, <2>1
<1>6. CASE n = 0 /\ s[1] = "blank"
      BY <1>1, <1>6
<1>7. CASE n = Len(s)
      BY <1>1, <1>3, <1>7
<1> QED BY <1>4, <1>5, <1>6, <1>7

-----------------------------------------------------------------------------
(* The source of an answer: the file, or the program and its pipe.         *)

\* What was taken out of the pipe of the program, or read of the file.
Taken(r) == given[r] - Len(pipe[Cgi(r)])

\* The pipe holds what was written and nobody has taken yet.
Queue(r) == Taken(r) >= 0 /\ Holds(pipe[Cgi(r)], whole[r], Taken(r))

LEMMA Locals ==
  ASSUME TypeOK, NEW r \in Requests
  PROVE  /\ whole[r] \in Seq(Lines \cup Bytes) /\ Len(whole[r]) \in Nat
         /\ given[r] \in Nat /\ given[r] <= Len(whole[r])
         /\ pipe[Cgi(r)] \in Seq(Items) /\ Len(pipe[Cgi(r)]) \in Nat
         /\ pipe[<<r, "enc">>] \in Seq(Items) /\ Len(pipe[<<r, "enc">>]) \in Nat
         /\ Taken(r) \in Int /\ Taken(r) <= Len(whole[r])
<1>1. Cgi(r) \in Pipes /\ <<r, "enc">> \in Pipes
      BY PipeIds DEF Encoders
<1>2. /\ whole[r] \in Seq(Lines \cup Bytes) /\ given[r] \in Nat /\ given[r] <= Len(whole[r])
      /\ pipe[Cgi(r)] \in Seq(Items) /\ pipe[<<r, "enc">>] \in Seq(Items)
      BY <1>1 DEF TypeOK, Items
<1>3. /\ Len(whole[r]) \in Nat /\ Len(pipe[Cgi(r)]) \in Nat
      /\ Len(pipe[<<r, "enc">>]) \in Nat
      BY <1>2
<1> QED BY <1>2, <1>3 DEF Taken

\* Nothing is read and nothing taken, or the next item x is.
Stays(r) == whole'[r] = whole[r] /\ Taken(r)' = Taken(r)
Advances(r, x) ==
  /\ whole'[r] = whole[r] /\ Taken(r)' = Taken(r) + 1
  /\ Taken(r) < Len(whole[r]) /\ x = whole[r][Taken(r) + 1]

LEMMA KeptQueue ==
  ASSUME NEW r \in Requests, Queue(r),
         whole'[r] = whole[r], given'[r] = given[r], pipe'[Cgi(r)] = pipe[Cgi(r)]
  PROVE  Stays(r) /\ Queue(r)'
BY DEF Stays, Queue, Taken, Holds, Cgi

LEMMA TakenQueue ==
  ASSUME TypeOK, NEW r \in Requests, Queue(r), pipe[Cgi(r)] # << >>,
         whole'[r] = whole[r], given'[r] = given[r],
         pipe'[Cgi(r)] = Tail(pipe[Cgi(r)])
  PROVE  Advances(r, Head(pipe[Cgi(r)])) /\ Queue(r)'
<1>1. /\ Len(pipe[Cgi(r)]) \in Nat \ {0} /\ given[r] \in Nat /\ given[r] <= Len(whole[r])
      /\ pipe[Cgi(r)] \in Seq(Items) /\ Taken(r) \in Int /\ Len(whole[r]) \in Nat
      BY Locals, EmptySeq
<1>2. /\ Head(pipe[Cgi(r)]) = whole[r][Taken(r) + 1]
      /\ Holds(Tail(pipe[Cgi(r)]), whole[r], Taken(r) + 1)
      /\ Len(Tail(pipe[Cgi(r)])) = Len(pipe[Cgi(r)]) - 1
      BY <1>1, HoldsTail DEF Queue
<1>3. Cgi(r)' = Cgi(r)
      BY DEF Cgi
<1>4. Taken(r)' = Taken(r) + 1 /\ Taken(r) < Len(whole[r])
      BY <1>1, <1>2, <1>3 DEF Taken
<1>5. Taken(r)' >= 0 /\ Holds(pipe[Cgi(r)], whole[r], Taken(r))'
      BY <1>1, <1>2, <1>3, <1>4 DEF Queue, Holds
<1> QED BY <1>2, <1>4, <1>5 DEF Advances, Queue

LEMMA AddedQueue ==
  ASSUME TypeOK, NEW r \in Requests, Queue(r), given[r] < Len(whole[r]),
         whole'[r] = whole[r], given'[r] = given[r] + 1,
         pipe'[Cgi(r)] = Append(pipe[Cgi(r)], whole[r][given[r] + 1])
  PROVE  Stays(r) /\ Queue(r)'
<1> DEFINE x == whole[r][given[r] + 1]
<1>1. /\ Len(pipe[Cgi(r)]) \in Nat /\ given[r] \in Nat /\ Len(whole[r]) \in Nat
      /\ pipe[Cgi(r)] \in Seq(Items) /\ Taken(r) \in Int
      /\ whole[r] \in Seq(Lines \cup Bytes)
      BY Locals
<1>2. given[r] + 1 \in 1 .. Len(whole[r]) /\ Taken(r) + Len(pipe[Cgi(r)]) + 1 = given[r] + 1
      BY <1>1 DEF Taken
<1>3. x \in Items /\ x = whole[r][Taken(r) + Len(pipe[Cgi(r)]) + 1]
      BY <1>1, <1>2, ElementOfSeq DEF Items
<1> HIDE DEF x
<1>4. /\ Holds(Append(pipe[Cgi(r)], x), whole[r], Taken(r))
      /\ Len(Append(pipe[Cgi(r)], x)) = Len(pipe[Cgi(r)]) + 1
  <2>1. Holds(pipe[Cgi(r)], whole[r], Taken(r))
        BY DEF Queue
  <2> DEFINE c == pipe[Cgi(r)]
             w == whole[r]
             n == Taken(r)
  <2>2. c \in Seq(Items) /\ n \in Int /\ x \in Items /\ x = w[n + Len(c) + 1] /\ Holds(c, w, n)
        BY <1>1, <1>3, <2>1
  <2> HIDE DEF c, w, n
  <2>3. Holds(Append(c, x), w, n) /\ Len(Append(c, x)) = Len(c) + 1
        BY <2>2, HoldsAppend
  <2> QED BY <2>3 DEF c, w, n
<1>5. Cgi(r)' = Cgi(r) /\ pipe'[Cgi(r)] = Append(pipe[Cgi(r)], x)
      BY DEF Cgi, x
<1>6. Taken(r)' = Taken(r)
      BY <1>1, <1>4, <1>5, SMTT(30) DEF Taken
<1> QED BY <1>4, <1>5, <1>6 DEF Stays, Queue, Holds

\* One more item of a file, and the choice of what there is to read.
LEMMA ReadQueue ==
  ASSUME TypeOK, NEW r \in Requests, pipe[Cgi(r)] = << >>, given[r] < Len(whole[r]),
         whole'[r] = whole[r], given'[r] = given[r] + 1, pipe'[Cgi(r)] = pipe[Cgi(r)]
  PROVE  /\ Advances(r, whole[r][given[r] + 1]) /\ Queue(r)'
         /\ Taken(r) = given[r]
<1>1. given[r] \in Nat /\ Len(whole[r]) \in Nat
      BY Locals
<1>2. Cgi(r)' = Cgi(r) /\ Len(pipe[Cgi(r)]) = 0
      BY DEF Cgi
<1>3. Taken(r) = given[r] /\ Taken(r)' = given[r] + 1
      BY <1>1, <1>2 DEF Taken
<1> QED BY <1>1, <1>2, <1>3 DEF Advances, Queue, Holds

LEMMA ChosenQueue ==
  ASSUME NEW r \in Requests, given'[r] = 0, pipe'[Cgi(r)] = << >>
  PROVE  Taken(r)' = 0 /\ Queue(r)'
<1>1. Cgi(r)' = Cgi(r) /\ Len(pipe'[Cgi(r)]) = 0
      BY DEF Cgi
<1>2. Taken(r)' = 0 - 0
      BY <1>1 DEF Taken, Cgi
<1> QED BY <1>1, <1>2 DEF Queue, Holds

-----------------------------------------------------------------------------
(* What each step does to the source.                                      *)

LEMMA Ids ==
  ASSUME NEW r \in Ruly
  PROVE  /\ r \in Requests /\ r \notin Unruly /\ r # Server
         /\ Cgi(r) \in Pipes /\ <<r, "enc">> \in Pipes /\ <<r, "again">> \in Pipes
         /\ Cgi(r) # <<r, "enc">> /\ Cgi(r) # <<r, "again">>
         /\ <<r, "enc">> # <<r, "again">>
BY PipeIds, HandlersAssumption DEF Ruly, Encoders

LEMMA NoFaults ==
  ASSUME NEW r \in Ruly, Orderly(r)
  PROVE  ~(\/ PageFails(r) \/ FileReadFails(r) \/ StartCopyFails(r) \/ WaitpidFails(r)
           \/ CancelCopy(r) \/ UsesGarbage(r) \/ Cancel(r))
BY Ids DEF PageFails, FileReadFails, StartCopyFails, WaitpidFails, Cancel, CancelCopy,
     UsesGarbage, Orderly, SinkOrder

LEMMA ReadsSource ==
  ASSUME TypeOK, NEW r \in Ruly, Queue(r), NEW line, Reads(r, line), UNCHANGED <<whole, given>>
  PROVE  Advances(r, line) /\ Queue(r)'
<1>1. /\ pipe[Cgi(r)] # << >> /\ pipe'[Cgi(r)] = Tail(pipe[Cgi(r)])
      /\ line = Head(pipe[Cgi(r)])
      BY Ids DEF Reads, TypeOK
<1> QED BY <1>1, TakenQueue, Ids

Silent(r) ==
  \/ ServePage(r) \/ StartCgi(r) \/ SendUnchunked(r) \/ SendChunked(r) \/ WriteHead(r)
  \/ WritePage(r) \/ CloseFile(r) \/ Fork(r) \/ ForkFails(r) \/ CloseOwn(r)
  \/ ReadEof(r) \/ Reap(r) \/ StartCopy(r) \/ Waitpid(r) \/ Join(r)

LEMMA HandlerSteps ==
  ASSUME NEW r \in Ruly, Orderly(r), HandlerStep(r)
  PROVE  \/ Silent(r) \/ ServeFile(r) \/ WriteFile(r)
         \/ ReadLine(r) \/ ReadBlank(r) \/ ReadMalformed(r)
BY NoFaults DEF HandlerStep, Silent

LEMMA SilentSource ==
  ASSUME TypeOK, NEW r \in Ruly, Queue(r), Orderly(r), Silent(r)
  PROVE  /\ Stays(r) /\ Queue(r)'
         /\ whole'[r] = whole[r] /\ given'[r] = given[r] /\ pipe'[Cgi(r)] = pipe[Cgi(r)]
<1> USE Ids DEF content, pipes, Page
<1>1. CASE ServePage(r) \/ StartCgi(r) \/ SendUnchunked(r) \/ SendChunked(r) \/ WriteHead(r)
      BY <1>1, KeptQueue DEF ServePage, StartCgi, SendUnchunked, SendChunked, WriteHead
<1>2. CASE WritePage(r)
      BY <1>2, KeptQueue DEF WritePage, Piped, Cgi, Orderly, SinkOrder, TypeOK
<1>3. CASE CloseFile(r) \/ Fork(r) \/ ForkFails(r) \/ CloseOwn(r)
      BY <1>3, KeptQueue DEF CloseFile, Fork, ForkFails, CloseOwn
<1>4. CASE ReadEof(r) \/ Reap(r) \/ StartCopy(r) \/ Waitpid(r) \/ Join(r)
      BY <1>4, KeptQueue DEF ReadEof, Reap, StartCopy, Waitpid, Join
<1> QED BY <1>1, <1>2, <1>3, <1>4 DEF Silent

LEMMA FileSource ==
  ASSUME TypeOK, NEW r \in Ruly, WriteFile(r), pipe[Cgi(r)] = << >>
  PROVE  /\ Advances(r, whole[r][given[r] + 1]) /\ Queue(r)' /\ Taken(r) = given[r]
         /\ given'[r] = given[r] + 1 /\ pipe'[Cgi(r)] = << >>
<1>1. /\ given[r] < Len(whole[r]) /\ given'[r] = given[r] + 1 /\ whole'[r] = whole[r]
      /\ pipe'[Cgi(r)] = pipe[Cgi(r)]
      BY Ids DEF WriteFile, TypeOK, copies, pipes
<1> QED BY <1>1, ReadQueue, Ids

LEMMA ChildSource ==
  ASSUME TypeOK, NEW r \in Ruly, Queue(r), ChildStep(r), ~Exec(r)
  PROVE  Stays(r) /\ Queue(r)'
<1> USE Ids DEF TypeOK
<1>1. CASE ExecFails(r) \/ ChildExits(r)
      BY <1>1, KeptQueue DEF ExecFails, ChildExits, Exit
<1>2. CASE ChildWrites(r)
      BY <1>2, AddedQueue DEF ChildWrites
<1> QED BY <1>1, <1>2 DEF ChildStep

LEMMA MovesSource ==
  ASSUME TypeOK, NEW r \in Ruly, Queue(r), Orderly(r), Moves(Cgi(r))
  PROVE  /\ Advances(r, Head(pipe[Cgi(r)])) /\ Queue(r)'
         /\ pipe[Cgi(r)] # << >> /\ given'[r] = given[r]
         /\ pipe'[Cgi(r)] = Tail(pipe[Cgi(r)])
<1>1. /\ pipe[Cgi(r)] # << >> /\ whole'[r] = whole[r] /\ given'[r] = given[r]
      BY DEF Moves, content
<1>2. pipe'[Cgi(r)] = Tail(pipe[Cgi(r)])
      BY Ids DEF Moves, Piped, Target, Cgi, Orderly, SinkOrder, TypeOK
<1> QED BY <1>1, <1>2, TakenQueue, Ids

LEMMA OthersSource ==
  ASSUME TypeOK, NEW r \in Ruly, Queue(r), NEW e \in Encoders,
         CopierEnds(r) \/ EncoderStep(r, e)
  PROVE  /\ Stays(r) /\ Queue(r)'
         /\ whole'[r] = whole[r] /\ given'[r] = given[r] /\ pipe'[Cgi(r)] = pipe[Cgi(r)]
<1> USE Ids DEF content, pipes
<1>1. CASE CopierEnds(r)
      BY <1>1, KeptQueue DEF CopierEnds
<1>2. CASE Moves(<<r, e>>)
      <2>1. pipe'[Cgi(r)] = pipe[Cgi(r)]
            BY <1>2 DEF Moves, Piped, Target, Cgi, Encoders, TypeOK
      <2> QED BY <1>2, <2>1, KeptQueue DEF Moves
<1>3. CASE EncoderEnds(r, e)
      BY <1>3, KeptQueue DEF EncoderEnds
<1> QED BY <1>1, <1>2, <1>3 DEF EncoderStep

-----------------------------------------------------------------------------
(* What answers, and whether its source can still grow.                    *)

HasHeader(r) == \E n \in DOMAIN whole[r] : Header(whole[r], n)

\* What is answered goes with what answers.
AnswerOrder(r) ==
  /\ pc[r] = "start" => kind[r] = "page"
  /\ pc[r] \in {"fork", "close", "read", "reap"} => kind[r] = "cgi"
  /\ pc[r] \in {"close", "read"} => child[r] \notin {"none", "reaped"}
  /\ job[r] = "file" <=> kind[r] = "file"
  /\ job[r] = "copy" => kind[r] = "cgi"
  /\ job[r] # "page" => head[r] = "200"
  /\ kind[r] = "cgi" /\ job[r] = "page" /\ pc[r] \notin {"fork", "close", "read"} =>
       /\ ~HasHeader(r) /\ child[r] \notin {"forked", "run"}
       /\ pc[r] # "reap" => head[r] = "500"

\* A program holds the other end of its pipe until it has written all.
SourceOrder(r) ==
  /\ kind[r] # "cgi" => pipe[Cgi(r)] = << >> /\ child[r] = "none"
  /\ kind[r] = "page" => whole[r] = << >>
  /\ kind[r] = "cgi" /\ child[r] \in {"none", "forked", "failed"} =>
       whole[r] = << >> /\ given[r] = 0
  /\ pc[r] = "fork" => Server \in writers[Cgi(r)]
  /\ child[r] \in {"forked", "run"} => r \in writers[Cgi(r)]
  /\ child[r] \in {"exited", "reaped"} /\ (pc[r] \in {"close", "read"} \/ job[r] = "copy") =>
       given[r] = Len(whole[r])
  /\ thread[Cgi(r)] = "ended" => pipe[Cgi(r)] = << >> /\ given[r] = Len(whole[r])

\* All that a step for r may count on.
Known(r) ==
  Fresh(r) /\ Orderly(r) /\ Queue(r) /\ AnswerOrder(r) /\ SourceOrder(r)

LEMMA SourceSilent ==
  ASSUME TypeOK, NEW r \in Ruly, Known(r), Silent(r)
  PROVE  SourceOrder(r)'
<1>1. whole'[r] = whole[r] /\ given'[r] = given[r] /\ pipe'[Cgi(r)] = pipe[Cgi(r)]
      BY SilentSource DEF Known
<1>2. \A e : <<r, e>> = Cgi(r) => e = "cgi"
      BY DEF Cgi
<1> USE Ids, <1>1 DEF TypeOK, Known, SourceOrder, Goto, Page, handler, request, content,
         copies, pipes
<1>3. CASE ServePage(r)
      BY <1>3 DEF ServePage, Fresh
<1>4. CASE StartCgi(r)
  <2>1. /\ given[r] = 0 /\ child[r] = "none" /\ whole[r] = << >> /\ job[r] = "page"
        /\ thread[Cgi(r)] = "none"
        BY <1>4 DEF StartCgi, AnswerOrder, Fresh, Orderly, SinkOrder
  <2> QED BY <1>4, <2>1 DEF StartCgi
<1>5. CASE SendUnchunked(r) \/ SendChunked(r) \/ WriteHead(r)
      BY <1>2, <1>5 DEF SendUnchunked, SendChunked, WriteHead, Encoder
<1>6. CASE WritePage(r)
  <2>1. writers'[Cgi(r)] = writers[Cgi(r)]
        BY <1>2, <1>6 DEF WritePage, Closed, Orderly, SinkOrder
  <2>2. UNCHANGED <<kind, child, thread, job>> /\ pc'[r] \notin {"fork", "close", "read"}
        BY <1>6 DEF WritePage, AfterPage
  <2> QED BY <2>1, <2>2
<1>7. CASE CloseFile(r) \/ ForkFails(r)
      BY <1>7 DEF CloseFile, ForkFails
<1>8. CASE Fork(r)
      BY <1>8 DEF Fork, Inherited, Fresh, AnswerOrder, Orderly, SinkOrder
<1>9. CASE CloseOwn(r)
      BY <1>9 DEF CloseOwn
<1>10. CASE ReadEof(r)
      BY <1>10 DEF ReadEof, Kill, Released, AnswerOrder, Orderly, ChildOrder
<1>11. CASE Reap(r)
      BY <1>11 DEF Reap, AnswerOrder
<1>12. CASE StartCopy(r) \/ Join(r)
      BY <1>12 DEF StartCopy, Join
<1>13. CASE Waitpid(r)
      BY <1>13 DEF Waitpid, Orderly, ChildOrder
<1> QED BY <1>3, <1>4, <1>5, <1>6, <1>7, <1>8, <1>9, <1>10, <1>11, <1>12, <1>13 DEF Silent

LEMMA SourceHandler ==
  ASSUME TypeOK, NEW r \in Ruly, Known(r), HandlerStep(r)
  PROVE  SourceOrder(r)'
<1> USE Ids DEF TypeOK, SourceOrder, Goto, handler, request, content, copies, pipes
<1>1. CASE ServeFile(r)
      BY <1>1 DEF ServeFile, Known, AnswerOrder, Fresh, Orderly, SinkOrder
<1>2. CASE WriteFile(r)
      BY <1>2 DEF WriteFile, Known, AnswerOrder, Orderly, ChildOrder, SinkOrder
<1>3. ASSUME NEW line, Reads(r, line)
      PROVE  /\ kind[r] = "cgi" /\ child[r] \notin {"none", "forked", "failed"}
             /\ thread[Cgi(r)] = "none"
      BY <1>3 DEF Reads, Known, AnswerOrder, Orderly, ChildOrder, SinkOrder
<1>4. CASE ReadLine(r)
      BY <1>3, <1>4 DEF ReadLine, Known, Reads
<1>5. CASE ReadBlank(r)
      BY <1>3, <1>5 DEF ReadBlank, Known, Reads
<1>6. CASE ReadMalformed(r)
  <2>1. PICK line : Reads(r, line)
        BY <1>6 DEF ReadMalformed
  <2>2. child'[r] = "exited" /\ pc'[r] = "reap" /\ job'[r] = "page" /\ kind'[r] = "cgi"
        BY <1>3, <1>6, <2>1 DEF ReadMalformed, Kill, Reads, Known, Orderly, ChildOrder
  <2>3. thread'[Cgi(r)] = "none"
        BY <1>3, <1>6, <2>1 DEF ReadMalformed
  <2> QED BY <2>2, <2>3
<1> QED BY <1>1, <1>2, <1>4, <1>5, <1>6, HandlerSteps, SourceSilent DEF Known

LEMMA SourceOthers ==
  ASSUME TypeOK, NEW r \in Ruly, NEW e \in Encoders, Known(r),
         ChildStep(r) \/ CopierStep(r) \/ EncoderStep(r, e)
  PROVE  SourceOrder(r)'
<1>0. Orderly(r) /\ Queue(r) /\ SourceOrder(r) /\ AnswerOrder(r) /\ Fresh(r)
      BY DEF Known
<1> USE Ids, <1>0 DEF TypeOK, handler, request, content, copies, pipes
<1>1. CASE Exec(r)
  <2>1. kind[r] = "cgi" /\ thread[Cgi(r)] # "ended" /\ given[r] = 0
        BY <1>1 DEF Exec, SourceOrder, Orderly, SinkOrder, ChildOrder, Fresh
  <2> QED BY <1>1, <2>1 DEF Exec, SourceOrder
<1>2. CASE ExecFails(r) \/ ChildExits(r)
  <2>1. /\ UNCHANGED <<pc, kind, job, whole, given, thread, pipe>>
        /\ writers'[Cgi(r)] = writers[Cgi(r)] \ {r}
        BY <1>2 DEF ExecFails, ChildExits, Exit, Released
  <2>2. \/ child[r] = "forked" /\ child'[r] = "failed"
        \/ child[r] = "run" /\ child'[r] = "exited" /\ given[r] = Len(whole[r])
        BY <1>2 DEF ExecFails, ChildExits, Exit
  <2> QED BY <2>1, <2>2 DEF SourceOrder
<1>3. CASE ChildWrites(r)
      BY <1>3 DEF ChildWrites, SourceOrder
<1>4. CASE Moves(Cgi(r))
  <2>1. /\ whole'[r] = whole[r] /\ given'[r] = given[r]
        /\ pipe[Cgi(r)] # << >>
        BY <1>4, MovesSource DEF Advances
  <2>2. thread[Cgi(r)] = "copy" /\ UNCHANGED <<pc, kind, job, child, thread, writers>>
        BY <1>4 DEF Moves
  <2> QED BY <2>1, <2>2 DEF SourceOrder
<1>5. CASE CopierEnds(r)
  <2>1. whole'[r] = whole[r] /\ given'[r] = given[r] /\ pipe'[Cgi(r)] = pipe[Cgi(r)]
        BY <1>5, OthersSource
  <2>2. pipe[Cgi(r)] = << >> /\ writers[Cgi(r)] = {} /\ thread[Cgi(r)] = "copy"
        BY <1>5 DEF CopierEnds, AtEof
  <2>3. job[r] = "copy" /\ child[r] \in {"exited", "reaped"}
        BY <2>2 DEF Orderly, SinkOrder, ChildOrder, SourceOrder, Children
  <2>4. given[r] = Len(whole[r])
        BY <2>3 DEF SourceOrder
  <2>5. UNCHANGED <<pc, kind, job, child>> /\ thread'[Cgi(r)] = "ended"
        /\ r \notin writers[Cgi(r)] /\ pc[r] # "fork" /\ child[r] \notin {"forked", "run"}
        BY <1>5, <2>2, <2>3 DEF CopierEnds, SourceOrder
  <2> QED BY <2>1, <2>2, <2>4, <2>5 DEF SourceOrder
<1>6. CASE EncoderStep(r, e)
  <2>1. whole'[r] = whole[r] /\ given'[r] = given[r] /\ pipe'[Cgi(r)] = pipe[Cgi(r)]
        BY <1>6, OthersSource
  <2>2. UNCHANGED <<pc, kind, job, child, writers>> /\ thread'[Cgi(r)] = thread[Cgi(r)]
        BY <1>6 DEF EncoderStep, Moves, EncoderEnds, Cgi, Encoders
  <2> QED BY <2>1, <2>2 DEF SourceOrder
<1> QED BY <1>1, <1>2, <1>3, <1>4, <1>5, <1>6 DEF ChildStep, CopierStep

-----------------------------------------------------------------------------
(* What the header said.                                                   *)

\* While the header is read, got says what was in it; once it is accepted, the
\* header is behind.
HeaderOrder(r) ==
  /\ pc[r] \in {"fork", "close", "read"} =>
       /\ got[r] = "nothing" <=> Taken(r) = 0
       /\ \A i \in 1 .. Taken(r) : whole[r][i] \in {"header", "length", "wrong"}
       /\ got[r] = "wrong" <=> \E i \in 1 .. Taken(r) : whole[r][i] = "wrong"
       /\ got[r] = "length" => \E i \in 1 .. Taken(r) : whole[r][i] = "length"
       /\ got[r] = "header" => \A i \in 1 .. Taken(r) : whole[r][i] # "length"
  /\ job[r] = "copy" =>
       \E n \in 1 .. Taken(r) :
         /\ Header(whole[r], n)
         /\ got[r] = "length" <=> \E i \in 1 .. n : whole[r][i] = "length"

LEMMA HeaderStays ==
  ASSUME TypeOK, NEW r \in Ruly, HeaderOrder(r), Taken(r) >= 0,
         whole'[r] = whole[r], got'[r] = got[r],
         Taken(r)' \in Int, Taken(r)' >= Taken(r),
         Taken(r)' = Taken(r) \/ pc[r] \notin {"fork", "close", "read"},
         pc'[r] \in {"fork", "close", "read"} => pc[r] \in {"fork", "close", "read"},
         job'[r] = "copy" => job[r] = "copy"
  PROVE  HeaderOrder(r)'
<1>1. Taken(r) \in Int
      BY Locals, Ids
<1>2. ASSUME pc'[r] \in {"fork", "close", "read"} PROVE Taken(r)' = Taken(r)
      BY <1>2
<1>3. \A n \in 1 .. Taken(r) : n \in 1 .. Taken(r)'
      BY <1>1
<1>4. (pc[r] \in {"fork", "close", "read"} =>
         /\ got[r] = "nothing" <=> Taken(r) = 0
         /\ \A i \in 1 .. Taken(r) : whole[r][i] \in {"header", "length", "wrong"}
         /\ got[r] = "wrong" <=> \E i \in 1 .. Taken(r) : whole[r][i] = "wrong"
         /\ got[r] = "length" => \E i \in 1 .. Taken(r) : whole[r][i] = "length"
         /\ got[r] = "header" => \A i \in 1 .. Taken(r) : whole[r][i] # "length")'
      BY <1>2 DEF HeaderOrder
<1>5. (job[r] = "copy" =>
         \E n \in 1 .. Taken(r) :
           /\ Header(whole[r], n)
           /\ got[r] = "length" <=> \E i \in 1 .. n : whole[r][i] = "length")'
  <2> SUFFICES ASSUME job'[r] = "copy"
               PROVE  (\E n \in 1 .. Taken(r) :
                         /\ Header(whole[r], n)
                         /\ got[r] = "length" <=> \E i \in 1 .. n : whole[r][i] = "length")'
      OBVIOUS
  <2>1. PICK n \in 1 .. Taken(r) :
          /\ Header(whole[r], n)
          /\ got[r] = "length" <=> \E i \in 1 .. n : whole[r][i] = "length"
        BY DEF HeaderOrder
  <2>2. n \in 1 .. Taken(r)' /\ Header(whole'[r], n)
        BY <1>3, <2>1
  <2>3. got'[r] = "length" <=> \E i \in 1 .. n : whole'[r][i] = "length"
        BY <2>1
  <2>4. Header(whole[r], n)' <=> Header(whole'[r], n)
        BY DEF Header
  <2> QED BY <2>2, <2>3, <2>4
<1> QED BY <1>4, <1>5 DEF HeaderOrder

LEMMA HeaderReads ==
  ASSUME TypeOK, NEW r \in Ruly, Known(r), HeaderOrder(r), ReadLine(r)
  PROVE  HeaderOrder(r)'
<1>1. PICK line \in {"header", "length", "wrong"} :
        /\ Reads(r, line)
        /\ got' = [got EXCEPT ![r] = IF "wrong" \in {line, @} THEN "wrong"
                                     ELSE IF "length" \in {line, @} THEN "length"
                                     ELSE "header"]
      BY DEF ReadLine
<1>2. Advances(r, line)
      BY <1>1, ReadsSource DEF ReadLine, Known
<1> DEFINE T == Taken(r)
           w == whole[r]
<1>3. T \in Int /\ T >= 0 /\ Taken(r)' = T + 1 /\ whole'[r] = w /\ w[T + 1] = line
      BY <1>2, Locals, Ids DEF Advances, Known, Queue
<1>4. /\ got[r] = "nothing" <=> T = 0
      /\ \A i \in 1 .. T : w[i] \in {"header", "length", "wrong"}
      /\ got[r] = "wrong" <=> \E i \in 1 .. T : w[i] = "wrong"
      /\ got[r] = "length" => \E i \in 1 .. T : w[i] = "length"
      /\ got[r] = "header" => \A i \in 1 .. T : w[i] # "length"
      BY <1>1 DEF HeaderOrder, Reads
<1>5. /\ pc'[r] = "read" /\ job'[r] = job[r] /\ job[r] = "page"
      /\ got'[r] = IF "wrong" \in {line, got[r]} THEN "wrong"
                   ELSE IF "length" \in {line, got[r]} THEN "length" ELSE "header"
      /\ got[r] \in {"nothing", "header", "length", "wrong"}
      BY <1>1, Ids DEF ReadLine, Reads, handler, TypeOK, Known, Orderly, ChildOrder
<1> HIDE DEF T, w
<1>6. 1 .. T + 1 = (1 .. T) \cup {T + 1}
      BY <1>3
<1>7. T = 0 => 1 .. T = {}
      OBVIOUS
<1>8. /\ got'[r] = "nothing" <=> T + 1 = 0
      /\ \A i \in 1 .. T + 1 : w[i] \in {"header", "length", "wrong"}
      /\ got'[r] = "wrong" <=> \E i \in 1 .. T + 1 : w[i] = "wrong"
      /\ got'[r] = "length" => \E i \in 1 .. T + 1 : w[i] = "length"
      /\ got'[r] = "header" => \A i \in 1 .. T + 1 : w[i] # "length"
  <2>1. got'[r] # "nothing" /\ T + 1 # 0
        BY <1>3, <1>5
  <2>2. \A i \in 1 .. T + 1 : w[i] \in {"header", "length", "wrong"}
        BY <1>1, <1>3, <1>4, <1>6
  <2>3. got'[r] = "wrong" <=> \E i \in 1 .. T + 1 : w[i] = "wrong"
        BY <1>3, <1>4, <1>5, <1>6
  <2>4. got'[r] = "length" => \E i \in 1 .. T + 1 : w[i] = "length"
        BY <1>3, <1>4, <1>5, <1>6
  <2>5. got'[r] = "header" => \A i \in 1 .. T + 1 : w[i] # "length"
        BY <1>3, <1>4, <1>5, <1>6, <1>7
  <2> QED BY <2>1, <2>2, <2>3, <2>4, <2>5
<1> QED BY <1>3, <1>5, <1>8 DEF HeaderOrder

\* The end of a header that is accepted.
LEMMA HeaderEnds ==
  ASSUME TypeOK, NEW r \in Ruly, Known(r), HeaderOrder(r), ReadBlank(r)
  PROVE  /\ Header(whole[r], Taken(r) + 1) /\ Advances(r, "blank")
         /\ got[r] = "length" <=> \E i \in 1 .. Taken(r) + 1 : whole[r][i] = "length"
         /\ HeaderOrder(r)'
<1> DEFINE T == Taken(r)
           w == whole[r]
<1>1. Advances(r, "blank")
      BY ReadsSource DEF ReadBlank, Known, content
<1>2. /\ T \in Int /\ T >= 0 /\ Taken(r)' = T + 1 /\ T < Len(w) /\ w[T + 1] = "blank"
      /\ whole'[r] = w /\ Len(w) \in Nat
      BY <1>1, Locals, Ids DEF Advances, Known, Queue
<1>3. /\ got[r] \in {"header", "length"} /\ got'[r] = got[r] /\ pc'[r] = "send"
      /\ job'[r] = "copy" /\ pc[r] = "read"
      BY Ids DEF ReadBlank, Reads, Goto, content, TypeOK
<1>4. /\ T # 0 /\ \A i \in 1 .. T : w[i] \in {"header", "length", "wrong"} /\ w[i] # "wrong"
      /\ got[r] = "length" <=> \E i \in 1 .. T : w[i] = "length"
      BY <1>3 DEF HeaderOrder
<1> HIDE DEF T, w
<1>5. 1 .. T + 1 = (1 .. T) \cup {T + 1} /\ 1 .. (T + 1) - 1 = 1 .. T /\ T + 1 \in 2 .. Len(w)
      BY <1>2, <1>4
<1>6. Header(w, T + 1)
      BY <1>2, <1>4, <1>5 DEF Header
<1>7. got[r] = "length" <=> \E i \in 1 .. T + 1 : w[i] = "length"
      BY <1>2, <1>4, <1>5
<1>8. T + 1 \in 1 .. Taken(r)'
      BY <1>2
<1>9. Header(w, T + 1) => Header(whole'[r], T + 1)
      BY <1>2
<1>10. (\E n \in 1 .. Taken(r) :
          /\ Header(whole[r], n)
          /\ got[r] = "length" <=> \E i \in 1 .. n : whole[r][i] = "length")'
  <2>1. got'[r] = "length" <=> \E i \in 1 .. T + 1 : whole'[r][i] = "length"
        BY <1>2, <1>3, <1>7
  <2> QED BY <1>6, <1>8, <1>9, <2>1
<1>11. HeaderOrder(r)'
      BY <1>3, <1>10 DEF HeaderOrder
<1> QED BY <1>1, <1>6, <1>7, <1>11 DEF T, w

LEMMA HeaderHandler ==
  ASSUME TypeOK, NEW r \in Ruly, Known(r), HeaderOrder(r), HandlerStep(r)
  PROVE  HeaderOrder(r)'
<1>1. Taken(r) \in Int /\ Taken(r) >= 0
      BY Locals, Ids DEF Known, Queue
<1>2. CASE StartCgi(r)
  <2>1. /\ pc[r] = "start" /\ job[r] = "page" /\ kind[r] = "page" /\ child[r] = "none"
        BY <1>2, Ids DEF StartCgi, Known, Fresh, AnswerOrder
  <2>2. whole[r] = << >> /\ got[r] = "nothing"
        BY <2>1 DEF Known, SourceOrder, Orderly, ChildOrder
  <2>3. Taken(r) = 0
    <3>1. Len(whole[r]) = 0
          BY <2>2
    <3>2. Taken(r) <= Len(whole[r])
          BY Locals, Ids
    <3> QED BY <1>1, <3>1, <3>2
  <2>4. Stays(r)
        BY <1>2, SilentSource DEF Known, Silent
  <2>5. pc'[r] = "fork" /\ job'[r] = "page" /\ got'[r] = "nothing" /\ Taken(r)' = 0
        BY <1>2, <2>1, <2>2, <2>3, <2>4, Ids DEF StartCgi, Goto, TypeOK, content, Stays
  <2> QED BY <2>5 DEF HeaderOrder
<1>3. CASE Silent(r) /\ ~StartCgi(r)
  <2>1. Stays(r)
        BY <1>3, SilentSource DEF Known
  <2>2. /\ got'[r] = got[r] /\ (job'[r] = "copy" => job[r] = "copy")
        /\ pc'[r] \in {"fork", "close", "read"} => pc[r] \in {"fork", "close", "read"}
    <3> USE Ids DEF TypeOK, Goto, Page, handler, content
    <3>1. CASE ServePage(r) \/ SendUnchunked(r) \/ SendChunked(r)
          BY <3>1 DEF ServePage, SendUnchunked, SendChunked
    <3>2. CASE WriteHead(r)
          BY <3>2 DEF WriteHead
    <3>3. CASE WritePage(r)
          BY <3>3 DEF WritePage, AfterPage
    <3>4. CASE CloseFile(r) \/ Fork(r) \/ ForkFails(r) \/ CloseOwn(r)
          BY <3>4 DEF CloseFile, Fork, ForkFails, CloseOwn
    <3>5. CASE ReadEof(r) \/ Reap(r) \/ StartCopy(r)
          BY <3>5 DEF ReadEof, Kill, Reap, StartCopy
    <3>6. CASE Waitpid(r) \/ Join(r)
          BY <3>6 DEF Waitpid, Join
    <3> QED BY <1>3, <3>1, <3>2, <3>3, <3>4, <3>5, <3>6 DEF Silent
  <2> QED BY <1>1, <2>1, <2>2, HeaderStays DEF Stays
<1>4. CASE ServeFile(r) \/ ReadMalformed(r)
  <2>1. pc'[r] \notin {"fork", "close", "read"} /\ job'[r] # "copy"
        BY <1>4, Ids DEF ServeFile, ReadMalformed, Reads, Kill, Goto, TypeOK, Known, Orderly,
           ChildOrder
  <2> QED BY <2>1 DEF HeaderOrder
<1>5. CASE WriteFile(r)
  <2>1. pc'[r] = "file" /\ job'[r] = "file"
        BY <1>5, Ids DEF WriteFile, handler, Known, Orderly, ChildOrder
  <2> QED BY <2>1 DEF HeaderOrder
<1> QED BY <1>2, <1>3, <1>4, <1>5, HeaderReads, HeaderEnds, HandlerSteps DEF Known

LEMMA HeaderOthers ==
  ASSUME TypeOK, NEW r \in Ruly, NEW e \in Encoders, Known(r), HeaderOrder(r),
         ChildStep(r) \/ CopierStep(r) \/ EncoderStep(r, e)
  PROVE  HeaderOrder(r)'
<1>1. Taken(r) \in Int /\ Taken(r) >= 0
      BY Locals, Ids DEF Known, Queue
<1>2. UNCHANGED <<pc, job, got>>
      BY DEF ChildStep, Exec, ExecFails, ChildWrites, ChildExits, Exit, CopierStep, Moves,
         CopierEnds, EncoderStep, EncoderEnds, handler, content
<1>3. CASE Exec(r)
  <2>1. child[r] = "forked" /\ given'[r] = given[r] /\ pipe'[Cgi(r)] = pipe[Cgi(r)]
        BY <1>3 DEF Exec, pipes
  <2>2. /\ kind[r] = "cgi" /\ given[r] = 0 /\ pipe[Cgi(r)] = << >>
        /\ got[r] = "nothing" /\ job[r] # "copy"
        BY <2>1 DEF Known, SourceOrder, Fresh, Orderly, ChildOrder
  <2>3. Taken(r)' = 0
        BY <2>1, <2>2, ChosenQueue, Ids
  <2> QED BY <1>2, <2>2, <2>3 DEF HeaderOrder
<1>4. CASE ChildStep(r) /\ ~Exec(r)
  <2>1. Stays(r)
        BY <1>4, ChildSource DEF Known
  <2> QED BY <1>1, <1>2, <2>1, HeaderStays DEF Stays
<1>5. CASE Moves(Cgi(r))
  <2>1. Taken(r)' = Taken(r) + 1 /\ whole'[r] = whole[r]
        BY <1>5, MovesSource DEF Known, Advances
  <2>2. pc[r] \notin {"fork", "close", "read"}
        BY <1>5 DEF Moves, Known, Orderly, SinkOrder
  <2> QED BY <1>1, <1>2, <2>1, <2>2, HeaderStays
<1>6. CASE CopierEnds(r) \/ EncoderStep(r, e)
  <2>1. Stays(r)
        BY <1>6, OthersSource DEF Known
  <2> QED BY <1>1, <1>2, <2>1, HeaderStays DEF Stays
<1> QED BY <1>3, <1>4, <1>5, <1>6 DEF CopierStep

-----------------------------------------------------------------------------
(* A program is answered for with a page only if it gave no header.        *)

LEMMA NoHeaderEmpty ==
  ASSUME NEW s, s = << >>
  PROVE  ~\E n \in DOMAIN s : Header(s, n)
BY DEF Header

\* At a line that is none, and at the end of a program that gave no empty line.
LEMMA NoHeaderRead ==
  ASSUME TypeOK, NEW r \in Ruly, Known(r), HeaderOrder(r), ReadMalformed(r)
  PROVE  ~HasHeader(r)
<1> DEFINE T == Taken(r)
           w == whole[r]
<1>1. PICK line \in {"blank", "malformed"} \cup Bytes :
        /\ Reads(r, line)
        /\ line = "blank" => got[r] \in {"nothing", "wrong"}
      BY DEF ReadMalformed, Bytes
<1>2. Advances(r, line)
      BY <1>1, ReadsSource DEF ReadMalformed, Known
<1>3. /\ T \in Nat /\ T + 1 <= Len(w) /\ w[T + 1] = line
      /\ w \in Seq(Lines \cup Bytes) /\ Len(w) \in Nat
  <2>1. w \in Seq(Lines \cup Bytes) /\ Len(w) \in Nat /\ T \in Int
        BY Locals, Ids
  <2>2. T >= 0 /\ T < Len(w) /\ line = w[T + 1]
        BY <1>2 DEF Known, Queue, Advances
  <2> QED BY <2>1, <2>2
<1>4. /\ \A i \in 1 .. T : w[i] \in {"header", "length", "wrong"}
      /\ got[r] = "wrong" => \E i \in 1 .. T : w[i] = "wrong"
      /\ got[r] = "nothing" => T = 0
      BY <1>1 DEF Reads, HeaderOrder
<1> HIDE DEF T, w
<1>5. \/ \E i \in 1 .. T : w[i] = "wrong"
      \/ T + 1 <= Len(w) /\ w[T + 1] \notin {"header", "length", "blank"}
      \/ T = 0 /\ w[1] = "blank"
  <2>1. CASE line = "blank"
    <3>1. CASE got[r] = "nothing"
          BY <1>3, <1>4, <2>1, <3>1
    <3> QED BY <1>1, <1>4, <2>1, <3>1
  <2>2. CASE line # "blank"
        BY <1>1, <1>3, <2>2 DEF Bytes
  <2> QED BY <2>1, <2>2
<1>6. ~\E m \in DOMAIN w : Header(w, m)
      BY <1>3, <1>4, <1>5, NoHeader
<1> QED BY <1>6 DEF HasHeader, w

LEMMA NoHeaderEof ==
  ASSUME TypeOK, NEW r \in Ruly, Known(r), HeaderOrder(r), ReadEof(r)
  PROVE  ~HasHeader(r) /\ child[r] \in {"exited", "failed"}
<1>1. /\ pc[r] = "read" /\ pipe[Cgi(r)] = << >> /\ writers[Cgi(r)] = {}
      BY DEF ReadEof
<1>2. /\ child[r] \in {"exited", "failed"} /\ kind[r] = "cgi"
      BY <1>1, Ids DEF Known, SourceOrder, AnswerOrder, TypeOK, Children
<1>3. CASE child[r] = "failed"
      BY <1>2, <1>3, NoHeaderEmpty DEF Known, SourceOrder, HasHeader
<1>4. CASE child[r] = "exited"
  <2> DEFINE T == Taken(r)
             w == whole[r]
  <2>1. given[r] = Len(w)
        BY <1>1, <1>4 DEF Known, SourceOrder
  <2>2. T \in Nat /\ T = Len(w) /\ w \in Seq(Lines \cup Bytes)
    <3>1. Len(pipe[Cgi(r)]) = 0 /\ given[r] \in Nat /\ w \in Seq(Lines \cup Bytes)
          BY <1>1, Locals, Ids
    <3> QED BY <2>1, <3>1 DEF Taken
  <2>3. \A i \in 1 .. T : w[i] \in {"header", "length", "wrong"}
        BY <1>1 DEF HeaderOrder
  <2> HIDE DEF T, w
  <2>4. ~\E m \in DOMAIN w : Header(w, m)
        BY <2>2, <2>3, NoHeader
  <2> QED BY <1>2, <2>4 DEF HasHeader, w
<1> QED BY <1>2, <1>3, <1>4

LEMMA AnswerSilent ==
  ASSUME TypeOK, NEW r \in Ruly, Known(r), HeaderOrder(r), Silent(r)
  PROVE  AnswerOrder(r)'
<1>1. HasHeader(r)' = HasHeader(r)
      BY SilentSource DEF Known, HasHeader, Header
<1> USE Ids, <1>1 DEF TypeOK, Known, AnswerOrder, Goto, Page, handler, request, content
<1>2. CASE ServePage(r) \/ StartCgi(r)
      BY <1>2 DEF ServePage, StartCgi, Fresh
<1>3. CASE SendUnchunked(r) \/ SendChunked(r)
      BY <1>3 DEF SendUnchunked, SendChunked
<1>4. CASE WriteHead(r)
      BY <1>4 DEF WriteHead
<1>5. CASE WritePage(r)
      BY <1>5 DEF WritePage, AfterPage
<1>6. CASE CloseFile(r) \/ CloseOwn(r)
      BY <1>6 DEF CloseFile, CloseOwn
<1>7. CASE Fork(r)
      BY <1>7 DEF Fork
<1>8. CASE ForkFails(r)
  <2>1. whole[r] = << >> /\ child[r] = "none" /\ kind[r] = "cgi"
        BY <1>8 DEF ForkFails, Fresh, SourceOrder
  <2>2. ~HasHeader(r)
        BY <2>1, NoHeaderEmpty DEF HasHeader
  <2> QED BY <1>8, <2>1, <2>2 DEF ForkFails
<1>9. CASE ReadEof(r)
  <2>1. ~HasHeader(r) /\ child[r] \in {"exited", "failed"}
        BY <1>9, NoHeaderEof
  <2> QED BY <1>9, <2>1 DEF ReadEof, Kill
<1>10. CASE Reap(r)
  <2>1. ~HasHeader(r) /\ kind[r] = "cgi" /\ job[r] = "page"
        BY <1>10 DEF Reap, Orderly, ChildOrder
  <2> QED BY <1>10, <2>1 DEF Reap
<1>11. CASE StartCopy(r) \/ Join(r)
      BY <1>11 DEF StartCopy, Join
<1>12. CASE Waitpid(r)
      BY <1>12 DEF Waitpid, Orderly, ChildOrder
<1> QED BY <1>2, <1>3, <1>4, <1>5, <1>6, <1>7, <1>8, <1>9, <1>10, <1>11, <1>12 DEF Silent

LEMMA AnswerHandler ==
  ASSUME TypeOK, NEW r \in Ruly, Known(r), HeaderOrder(r), HandlerStep(r)
  PROVE  AnswerOrder(r)'
<1> USE Ids DEF TypeOK, Known, AnswerOrder, Goto, handler, request, content
<1>1. CASE ServeFile(r)
      BY <1>1 DEF ServeFile
<1>2. CASE WriteFile(r)
      BY <1>2 DEF WriteFile, Orderly, ChildOrder
<1>3. CASE ReadLine(r)
      BY <1>3 DEF ReadLine, Reads
<1>4. CASE ReadBlank(r)
      BY <1>4 DEF ReadBlank, Reads
<1>5. CASE ReadMalformed(r)
  <2>1. ~HasHeader(r)
        BY <1>5, NoHeaderRead
  <2>2. HasHeader(r)' = HasHeader(r)
        BY <1>5 DEF ReadMalformed, HasHeader, Header
  <2>3. /\ pc[r] = "read" /\ job[r] = "page" /\ kind[r] = "cgi"
        BY <1>5 DEF ReadMalformed, Reads, Orderly, ChildOrder
  <2>4. /\ pc'[r] = "reap" /\ job'[r] = "page" /\ kind'[r] = "cgi"
        /\ child'[r] \notin {"forked", "run"}
        BY <1>5, <2>3 DEF ReadMalformed, Kill
  <2> QED BY <2>1, <2>2, <2>4
<1> QED BY <1>1, <1>2, <1>3, <1>4, <1>5, HandlerSteps, AnswerSilent

LEMMA AnswerOthers ==
  ASSUME TypeOK, NEW r \in Ruly, NEW e \in Encoders, Known(r),
         ChildStep(r) \/ CopierStep(r) \/ EncoderStep(r, e)
  PROVE  AnswerOrder(r)'
<1> USE Ids DEF TypeOK, Known, AnswerOrder, handler, request, content
<1>1. CASE Exec(r)
  <2>1. child[r] = "forked" /\ kind[r] = "cgi"
        BY <1>1 DEF Exec, SourceOrder
  <2>2. job[r] # "copy"
        BY <2>1 DEF Orderly, ChildOrder
  <2>3. UNCHANGED <<pc, job, head, kind>> /\ child'[r] = "run"
        BY <1>1 DEF Exec
  <2> QED BY <2>1, <2>2, <2>3
<1>2. CASE ~Exec(r)
  <2>1. UNCHANGED <<pc, job, head, kind>> /\ whole'[r] = whole[r]
        BY <1>2 DEF ChildStep, ExecFails, ChildWrites, ChildExits, Exit, CopierStep, Moves,
           CopierEnds, EncoderStep, EncoderEnds
  <2>2. HasHeader(r)' = HasHeader(r)
        BY <2>1 DEF HasHeader, Header
  <2>3. \/ child'[r] = child[r]
        \/ child[r] \in {"forked", "run"} /\ child'[r] \in {"failed", "exited"}
        BY <1>2 DEF ChildStep, ExecFails, ChildWrites, ChildExits, Exit, CopierStep, Moves,
           CopierEnds, EncoderStep, EncoderEnds
  <2> QED BY <2>1, <2>2, <2>3
<1> QED BY <1>1, <1>2

-----------------------------------------------------------------------------
(* What reached the client, o, and what is on its way to it, p, are the    *)
(* beginning of w; of what reached a slow client some may be lost.         *)

Kept(r, o, w) == \A i \in 1 .. Len(o) : o[i] \in Received(r, w[i])
Carried(r, o, p, w) == Kept(r, o, w) /\ Holds(p, w, Len(o))

LEMMA KeptAppend ==
  ASSUME NEW r, NEW S, NEW o \in Seq(S), NEW w, NEW y \in S,
         y \in Received(r, w[Len(o) + 1]), Kept(r, o, w)
  PROVE  /\ Kept(r, Append(o, y), w) /\ Append(o, y) \in Seq(S)
         /\ Len(Append(o, y)) = Len(o) + 1
<1>1. /\ Len(o) \in Nat /\ Append(o, y) \in Seq(S) /\ Len(Append(o, y)) = Len(o) + 1
      /\ \A i \in 1 .. Len(o) : Append(o, y)[i] = o[i]
      /\ Append(o, y)[Len(o) + 1] = y
      OBVIOUS
<1>2. SUFFICES ASSUME NEW i \in 1 .. Len(o) + 1
               PROVE  Append(o, y)[i] \in Received(r, w[i])
      BY <1>1 DEF Kept
<1>3. CASE i \in 1 .. Len(o)
      BY <1>1, <1>3 DEF Kept
<1>4. CASE i = Len(o) + 1
      BY <1>1, <1>4
<1> QED BY <1>1, <1>3, <1>4

LEMMA CarriedOut ==
  ASSUME NEW r, NEW S, NEW o \in Seq(S), NEW w, NEW x, x = w[Len(o) + 1],
         NEW y \in S, y \in Received(r, x), Carried(r, o, << >>, w)
  PROVE  /\ Carried(r, Append(o, y), << >>, w) /\ Append(o, y) \in Seq(S)
         /\ Len(Append(o, y)) = Len(o) + 1
<1>1. Kept(r, o, w) /\ y \in Received(r, w[Len(o) + 1])
      BY DEF Carried
<1>2. /\ Kept(r, Append(o, y), w) /\ Append(o, y) \in Seq(S)
      /\ Len(Append(o, y)) = Len(o) + 1
      BY <1>1, KeptAppend
<1> QED BY <1>2 DEF Carried, Holds

LEMMA CarriedIn ==
  ASSUME NEW r, NEW S, NEW T, NEW o \in Seq(S), NEW p \in Seq(T), NEW w, NEW x \in T,
         x = w[Len(o) + Len(p) + 1], Carried(r, o, p, w)
  PROVE  Carried(r, o, Append(p, x), w) /\ Len(Append(p, x)) = Len(p) + 1
<1>1. Len(o) \in Int /\ Holds(p, w, Len(o))
      BY LenProperties DEF Carried
<1>2. Holds(Append(p, x), w, Len(o)) /\ Len(Append(p, x)) = Len(p) + 1
      BY <1>1, HoldsAppend
<1> QED BY <1>2 DEF Carried

LEMMA CarriedOn ==
  ASSUME NEW r, NEW S, NEW T, NEW o \in Seq(S), NEW p \in Seq(T), NEW w,
         p # << >>, NEW y \in S, y \in Received(r, Head(p)), Carried(r, o, p, w)
  PROVE  /\ Carried(r, Append(o, y), Tail(p), w)
         /\ Len(Append(o, y)) = Len(o) + 1 /\ Len(Tail(p)) = Len(p) - 1
<1>1. Len(o) \in Nat /\ Holds(p, w, Len(o)) /\ Kept(r, o, w)
      BY LenProperties DEF Carried
<1>2. /\ Head(p) = w[Len(o) + 1] /\ Holds(Tail(p), w, Len(o) + 1)
      /\ Len(Tail(p)) = Len(p) - 1
      BY <1>1, HoldsTail
<1>3. Kept(r, Append(o, y), w) /\ Len(Append(o, y)) = Len(o) + 1
      BY <1>1, <1>2, KeptAppend
<1> QED BY <1>2, <1>3 DEF Carried

-----------------------------------------------------------------------------
(* The answer as a stream, and how much of it was given to the encoder or  *)
(* the socket.                                                             *)

Base(r) == IF job[r] = "copy" THEN CHOOSE n \in DOMAIN whole[r] : Header(whole[r], n) ELSE 0
Size(r) == IF job[r] = "page" THEN 1 ELSE Len(whole[r]) - Base(r)
Given(r) ==
  IF job[r] = "page" THEN IF pc[r] = "returned" THEN 1 ELSE 0 ELSE Taken(r) - Base(r)

\* The head, the body and the last chunk.
Item(r, i) ==
  IF i = 1 THEN head[r]
  ELSE IF i = Size(r) + 2 THEN "last"
  ELSE IF job[r] = "page" THEN "page" ELSE whole[r][Base(r) + i - 1]
Stream(r) == [i \in Nat |-> Item(r, i)]

LEMMA BaseIs ==
  ASSUME TypeOK, NEW r \in Ruly, HeaderOrder(r), job[r] = "copy"
  PROVE  /\ Base(r) \in 1 .. Taken(r) /\ Header(whole[r], Base(r))
         /\ \A n \in DOMAIN whole[r] : Header(whole[r], n) => n = Base(r)
         /\ got[r] = "length" <=> \E i \in 1 .. Base(r) : whole[r][i] = "length"
<1>1. PICK n \in 1 .. Taken(r) :
        /\ Header(whole[r], n)
        /\ got[r] = "length" <=> \E i \in 1 .. n : whole[r][i] = "length"
      BY DEF HeaderOrder
<1>2. n \in DOMAIN whole[r]
  <2>1. n \in 2 .. Len(whole[r])
        BY <1>1 DEF Header
  <2>2. whole[r] \in Seq(Lines \cup Bytes) /\ Len(whole[r]) \in Nat
        BY Locals, Ids
  <2> QED BY <2>1, <2>2, LenProperties
<1>3. Header(whole[r], Base(r))
      BY <1>1, <1>2 DEF Base
<1>4. Base(r) = n
      BY <1>1, <1>3, HeaderOnce
<1> QED BY <1>1, <1>3, <1>4, HeaderOnce

LEMMA Numbers ==
  ASSUME TypeOK, NEW r \in Ruly, Queue(r), HeaderOrder(r)
  PROVE  /\ Base(r) \in Nat /\ Size(r) \in Nat /\ Given(r) \in Nat /\ Given(r) <= Size(r)
         /\ Taken(r) \in Nat /\ Len(whole[r]) \in Nat /\ Taken(r) <= Len(whole[r])
<1>1. /\ Taken(r) \in Nat /\ Len(whole[r]) \in Nat /\ Taken(r) <= Len(whole[r])
  <2>1. /\ Taken(r) \in Int /\ Len(whole[r]) \in Nat /\ Taken(r) <= Len(whole[r])
        BY Locals, Ids
  <2> QED BY <2>1 DEF Queue
<1>2. Base(r) \in Nat /\ Base(r) <= Taken(r)
  <2>1. CASE job[r] = "copy"
    <3>1. Base(r) \in 1 .. Taken(r)
          BY <2>1, BaseIs
    <3> QED BY <1>1, <3>1
  <2>2. CASE job[r] # "copy"
        BY <1>1, <2>2 DEF Base
  <2> QED BY <2>1, <2>2
<1> QED BY <1>1, <1>2 DEF Size, Given

LEMMA Frame ==
  ASSUME NEW r, job'[r] = job[r], head'[r] = head[r], whole'[r] = whole[r]
  PROVE  Base(r)' = Base(r) /\ Size(r)' = Size(r) /\ Stream(r)' = Stream(r)
<1>1. Base(r)' = Base(r)
      BY DEF Base, Header
<1>2. Size(r)' = Size(r)
      BY <1>1 DEF Size
<1>3. \A i \in Nat : Item(r, i)' = Item(r, i)
      BY <1>1, <1>2 DEF Item
<1> QED BY <1>1, <1>2, <1>3 DEF Stream

\* The next item of a body that is not a page, and the chunk after it.
LEMMA BodyItem ==
  ASSUME TypeOK, NEW r \in Ruly, Queue(r), HeaderOrder(r), job[r] # "page",
         Taken(r) < Len(whole[r])
  PROVE  Stream(r)[Given(r) + 2] = whole[r][Taken(r) + 1] /\ Given(r) < Size(r)
<1>1. /\ Base(r) \in Nat /\ Taken(r) \in Nat /\ Len(whole[r]) \in Nat /\ Given(r) \in Nat
      BY Numbers
<1>2. Given(r) = Taken(r) - Base(r) /\ Size(r) = Len(whole[r]) - Base(r)
      BY DEF Given, Size
<1>3. /\ Given(r) + 2 \in Nat /\ Given(r) + 2 # 1 /\ Given(r) + 2 # Size(r) + 2
      /\ Base(r) + (Given(r) + 2) - 1 = Taken(r) + 1
      BY <1>1, <1>2, SMTT(30)
<1> QED BY <1>1, <1>2, <1>3, SMTT(30) DEF Stream, Item

LEMMA PageItem ==
  ASSUME NEW r, job[r] = "page"
  PROVE  Stream(r)[2] = "page"
BY DEF Stream, Item, Size

LEMMA LastItem ==
  ASSUME NEW r, Size(r) \in Nat
  PROVE  Stream(r)[Size(r) + 2] = "last" /\ Stream(r)[1] = head[r]
BY DEF Stream, Item

-----------------------------------------------------------------------------
(* The client and the encoder's pipe hold what was given, in order.        *)

Started(r) == pc[r] \in {"page", "file", "copy", "wait", "join", "returned"}
Last(r) == IF thread[<<r, "enc">>] = "ended" THEN 1 ELSE 0

\* Who encodes, and when it is over.
EncodingOrder(r) ==
  /\ thread[<<r, "enc">>] = "none" => pipe[<<r, "enc">>] = << >>
  /\ "enc" \in {fd[r], copyFd[r]} => thread[<<r, "enc">>] # "none"
  /\ pc[r] = "head" \/ Started(r) =>
       (thread[<<r, "enc">>] # "none" <=> persistent[r] /\ ~Sized(r))
  /\ thread[<<r, "enc">>] = "ended" =>
       /\ pipe[<<r, "enc">>] = << >> /\ pc[r] \in {"wait", "join", "returned"}
       /\ Given(r) = Size(r)

StreamOrder(r) ==
  /\ ~Started(r) => out[r] = << >> /\ pipe[<<r, "enc">>] = << >>
  /\ pc[r] \in {"send", "head"} => Given(r) = 0
  /\ pc[r] = "returned" => Given(r) = Size(r)
  /\ Started(r) =>
       /\ Len(out[r]) + Len(pipe[<<r, "enc">>]) = 1 + Given(r) + Last(r)
       /\ Carried(r, out[r], pipe[<<r, "enc">>], Stream(r))

\* All that holds of r.
Answering(r) == Known(r) /\ HeaderOrder(r) /\ EncodingOrder(r) /\ StreamOrder(r)

\* Nothing was sent, and nothing is.
LEMMA NotStarted ==
  ASSUME NEW r \in Ruly, Answering(r), ~Started(r),
         out'[r] = out[r], pipe'[<<r, "enc">>] = pipe[<<r, "enc">>],
         ~Started(r)', pc'[r] \in {"send", "head"} => Given(r)' = 0
  PROVE  StreamOrder(r)'
BY DEF StreamOrder, Answering, Started

\* What is sent in the body; what is given with it.
LEMMA StillStarted ==
  ASSUME NEW r \in Ruly, Answering(r), Started(r), Started(r)',
         job'[r] = job[r], head'[r] = head[r], whole'[r] = whole[r],
         (pc[r] = "returned" => Given(r) = Size(r))',
         (Len(out[r]) + Len(pipe[<<r, "enc">>]) = 1 + Given(r) + Last(r))',
         Carried(r, out'[r], pipe'[<<r, "enc">>], Stream(r))
  PROVE  StreamOrder(r)'
<1>1. Stream(r)' = Stream(r)
      BY Frame
<1>2. Carried(r, out[r], pipe[<<r, "enc">>], Stream(r))'
      BY <1>1 DEF Carried, Kept, Received, Holds
<1>3. pc'[r] \notin {"send", "head"}
      BY DEF Started
<1> QED BY <1>2, <1>3 DEF StreamOrder

LEMMA GivenStays ==
  ASSUME NEW r, job'[r] = job[r], head'[r] = head[r], Stays(r),
         pc'[r] = "returned" <=> pc[r] = "returned"
  PROVE  Given(r)' = Given(r) /\ Size(r)' = Size(r)
BY Frame DEF Given, Stays

LEMMA GivenAdvances ==
  ASSUME TypeOK, NEW r \in Ruly, Queue(r), HeaderOrder(r),
         job'[r] = job[r], head'[r] = head[r], job[r] # "page",
         NEW x, Advances(r, x)
  PROVE  /\ Given(r)' = Given(r) + 1 /\ Size(r)' = Size(r)
         /\ x = Stream(r)[Given(r) + 2] /\ Given(r) < Size(r)
<1>1. /\ Base(r) \in Nat /\ Taken(r) \in Nat
      BY Numbers
<1>2. /\ Base(r)' = Base(r) /\ Size(r)' = Size(r) /\ Taken(r)' = Taken(r) + 1
      BY Frame DEF Advances
<1>3. Given(r)' = Given(r) + 1
      BY <1>1, <1>2 DEF Given
<1> QED BY <1>2, <1>3, BodyItem DEF Advances

LEMMA Typing ==
  ASSUME TypeOK, NEW r \in Ruly
  PROVE  /\ out[r] \in Seq(Statuses \cup Items \cup {"last", "lost"}) /\ Len(out[r]) \in Nat
         /\ pipe[<<r, "enc">>] \in Seq(Items) /\ Len(pipe[<<r, "enc">>]) \in Nat
<1>1. Statuses \cup Lines \cup Bytes \cup {"page", "last", "lost"} = Statuses \cup Items \cup {"last", "lost"}
      BY DEF Items
<1>2. out[r] \in Seq(Statuses \cup Items \cup {"last", "lost"})
      BY <1>1, Ids DEF TypeOK
<1> QED BY <1>2, LenProperties, Locals, Ids

LEMMA ReceivedTyped ==
  ASSUME NEW r, NEW x \in Statuses \cup Items \cup {"last", "lost"}
  PROVE  Received(r, x) \subseteq Statuses \cup Items \cup {"last", "lost"}
BY DEF Received

LEMMA OutGrows ==
  ASSUME TypeOK, NEW r \in Ruly, NEW x \in Statuses \cup Items \cup {"last", "lost"},
         Carried(r, out[r], pipe[<<r, "enc">>], Stream(r)), pipe[<<r, "enc">>] = << >>,
         x = Stream(r)[Len(out[r]) + 1], NEW y \in Received(r, x)
  PROVE  /\ Carried(r, Append(out[r], y), pipe[<<r, "enc">>], Stream(r))
         /\ Len(Append(out[r], y)) = Len(out[r]) + 1
<1> DEFINE S == Statuses \cup Items \cup {"last", "lost"}
           o == out[r]
           w == Stream(r)
<1>1. /\ o \in Seq(S) /\ y \in S /\ y \in Received(r, x) /\ x = w[Len(o) + 1]
      /\ Carried(r, o, << >>, w)
      BY Typing, ReceivedTyped
<1> HIDE DEF S, o, w
<1>2. Carried(r, Append(o, y), << >>, w) /\ Len(Append(o, y)) = Len(o) + 1
      BY <1>1, CarriedOut
<1> QED BY <1>1, <1>2 DEF o, w

LEMMA PipeGrows ==
  ASSUME TypeOK, NEW r \in Ruly, NEW x \in Items,
         Carried(r, out[r], pipe[<<r, "enc">>], Stream(r)),
         x = Stream(r)[Len(out[r]) + Len(pipe[<<r, "enc">>]) + 1]
  PROVE  /\ Carried(r, out[r], Append(pipe[<<r, "enc">>], x), Stream(r))
         /\ Len(Append(pipe[<<r, "enc">>], x)) = Len(pipe[<<r, "enc">>]) + 1
<1> DEFINE S == Statuses \cup Items \cup {"last", "lost"}
           o == out[r]
           p == pipe[<<r, "enc">>]
           w == Stream(r)
<1>1. o \in Seq(S) /\ p \in Seq(Items) /\ x = w[Len(o) + Len(p) + 1] /\ Carried(r, o, p, w)
      BY Typing
<1> HIDE DEF S, o, p, w
<1>2. Carried(r, o, Append(p, x), w) /\ Len(Append(p, x)) = Len(p) + 1
      BY <1>1, CarriedIn
<1> QED BY <1>2 DEF o, p, w

LEMMA PipeDrains ==
  ASSUME TypeOK, NEW r \in Ruly, pipe[<<r, "enc">>] # << >>,
         Carried(r, out[r], pipe[<<r, "enc">>], Stream(r)),
         NEW y \in Received(r, Head(pipe[<<r, "enc">>]))
  PROVE  LET rest == Tail(pipe[<<r, "enc">>])
         IN /\ Carried(r, Append(out[r], y), rest, Stream(r))
            /\ Len(Append(out[r], y)) + Len(rest) = Len(out[r]) + Len(pipe[<<r, "enc">>])
<1> DEFINE S == Statuses \cup Items \cup {"last", "lost"}
           o == out[r]
           p == pipe[<<r, "enc">>]
           w == Stream(r)
<1>1. /\ o \in Seq(S) /\ p \in Seq(Items) /\ p # << >> /\ Carried(r, o, p, w)
      /\ Items \subseteq S /\ Len(o) \in Nat /\ Len(p) \in Nat
      BY Typing
<1>2. y \in S /\ y \in Received(r, Head(p))
  <2>1. Head(p) \in S
        BY <1>1, HeadTailProperties
  <2> QED BY <2>1, ReceivedTyped
<1> HIDE DEF S, o, p, w
<1>3. /\ Carried(r, Append(o, y), Tail(p), w)
      /\ Len(Append(o, y)) = Len(o) + 1 /\ Len(Tail(p)) = Len(p) - 1
      BY <1>1, <1>2, CarriedOn
<1>4. Len(Append(o, y)) + Len(Tail(p)) = Len(o) + Len(p)
      BY <1>1, <1>3
<1> QED BY <1>3, <1>4 DEF o, p, w

-----------------------------------------------------------------------------
(* The steps of the handler.                                               *)

Streams(r) == EncodingOrder(r) /\ StreamOrder(r)

\* Up to the call of sendHeader.
LEMMA StreamsChoice ==
  ASSUME TypeOK, NEW r \in Ruly, Answering(r), HandlerStep(r),
         pc[r] \in {"start", "fork", "close", "read", "reap"}
  PROVE  Streams(r)'
<1> USE Ids DEF TypeOK, Goto, Page, Kill, handler, request, content, copies, pipes
<1>1. /\ \/ ServePage(r) \/ ServeFile(r) \/ StartCgi(r) \/ Fork(r) \/ ForkFails(r)
         \/ CloseOwn(r) \/ ReadLine(r) \/ ReadBlank(r) \/ ReadMalformed(r) \/ ReadEof(r)
         \/ Reap(r)
      BY HandlerSteps DEF Silent, Answering, Known, SendUnchunked, SendChunked, WriteHead,
         WritePage, CloseFile, StartCopy, Waitpid, Join, WriteFile
<1>2. /\ out'[r] = out[r] /\ pipe'[<<r, "enc">>] = pipe[<<r, "enc">>]
      /\ thread'[<<r, "enc">>] = thread[<<r, "enc">>]
      /\ fd'[r] = fd[r] /\ copyFd'[r] = copyFd[r]
  <2>1. CASE ServePage(r) \/ ServeFile(r) \/ StartCgi(r) \/ Fork(r) \/ ForkFails(r)
        BY <2>1 DEF ServePage, ServeFile, StartCgi, Fork, ForkFails
  <2>2. CASE CloseOwn(r) \/ ReadLine(r) \/ ReadBlank(r)
        BY <2>2 DEF CloseOwn, ReadLine, ReadBlank, Reads
  <2>3. CASE ReadMalformed(r) \/ ReadEof(r) \/ Reap(r)
        BY <2>3 DEF ReadMalformed, Reads, ReadEof, Reap
  <2> QED BY <1>1, <2>1, <2>2, <2>3
<1>3. pc'[r] \in {"fork", "close", "read", "reap", "send"}
  <2>1. CASE ServePage(r) \/ ServeFile(r) \/ StartCgi(r) \/ Fork(r) \/ ForkFails(r)
        BY <2>1 DEF ServePage, ServeFile, StartCgi, Fork, ForkFails
  <2>2. CASE CloseOwn(r) \/ ReadLine(r) \/ ReadBlank(r)
        BY <2>2 DEF CloseOwn, ReadLine, ReadBlank, Reads
  <2>3. CASE ReadMalformed(r) \/ ReadEof(r) \/ Reap(r)
        BY <2>3 DEF ReadMalformed, ReadEof, Reap
  <2> QED BY <1>1, <2>1, <2>2, <2>3
<1>4. pc'[r] = "send" => Given(r)' = 0
  <2>1. CASE ServePage(r) \/ ForkFails(r) \/ Reap(r)
        BY <2>1 DEF ServePage, ForkFails, Reap, Given
  <2>2. CASE ServeFile(r)
    <3>1. given'[r] = 0 /\ pipe'[Cgi(r)] = << >> /\ job'[r] = "file"
          BY <2>2 DEF ServeFile, Answering, Known, Fresh, AnswerOrder, SourceOrder
    <3>2. Taken(r)' = 0 /\ Base(r)' = 0
          BY <3>1, ChosenQueue DEF Base
    <3> QED BY <3>1, <3>2 DEF Given
  <2>3. CASE ReadBlank(r)
    <3>1. HeaderOrder(r)' /\ Header(whole[r], Taken(r) + 1) /\ Advances(r, "blank")
          BY <2>3, HeaderEnds DEF Answering
    <3>2. job'[r] = "copy" /\ whole'[r] = whole[r] /\ Taken(r)' = Taken(r) + 1
          BY <2>3, <3>1 DEF ReadBlank, Advances
    <3>3. Taken(r) \in Nat /\ Taken(r) < Len(whole[r]) /\ Len(whole[r]) \in Nat
          BY <3>1, Numbers DEF Answering, Known, Advances
    <3>4. Taken(r) + 1 \in DOMAIN whole[r]
      <4>1. whole[r] \in Seq(Lines \cup Bytes)
            BY Locals
      <4> QED BY <3>3, <4>1, LenProperties
    <3>5. Base(r)' = CHOOSE n \in DOMAIN whole[r] : Header(whole[r], n)
          BY <3>2 DEF Base, Header
    <3>6. Base(r)' = Taken(r) + 1
          BY <3>1, <3>4, <3>5, HeaderOnce
    <3> QED BY <3>2, <3>3, <3>6 DEF Given
  <2>4. CASE StartCgi(r) \/ Fork(r) \/ CloseOwn(r) \/ ReadLine(r)
        BY <2>4 DEF StartCgi, Fork, CloseOwn, ReadLine, Reads
  <2>5. CASE ReadMalformed(r) \/ ReadEof(r)
        BY <2>5 DEF ReadMalformed, ReadEof
  <2> QED BY <1>1, <2>1, <2>2, <2>3, <2>4, <2>5
<1>5. ~Started(r) /\ ~Started(r)'
      BY <1>3 DEF Started
<1>6. StreamOrder(r)'
      BY <1>2, <1>3, <1>4, <1>5, NotStarted
<1>7. thread[<<r, "enc">>] = "none"
      BY DEF Answering, Known, Orderly, EncoderOrder
<1>8. EncodingOrder(r)'
      BY <1>2, <1>3, <1>5, <1>7 DEF EncodingOrder, Answering
<1> QED BY <1>6, <1>8 DEF Streams

\* sendHeader, before the head is written.
LEMMA StreamsSend ==
  ASSUME TypeOK, NEW r \in Ruly, Answering(r), SendUnchunked(r) \/ SendChunked(r)
  PROVE  Streams(r)'
<1> USE Ids DEF TypeOK, Goto, handler, request, content, copies, pipes
<1>1. /\ pc[r] = "send" /\ pc'[r] = "head" /\ out'[r] = out[r]
      /\ UNCHANGED <<job, head, persistent, got, copyFd, pipe, whole>>
      BY DEF SendUnchunked, SendChunked
<1>2. Stays(r)
      BY SilentSource DEF Silent, Answering, Known
<1>3. Given(r)' = Given(r)
      BY <1>1, <1>2, GivenStays
<1>4. StreamOrder(r)'
      BY <1>1, <1>3, NotStarted DEF Answering, StreamOrder, Started
<1>5. thread[<<r, "enc">>] = "none" /\ Encoder(r) = "enc"
      BY <1>1 DEF Answering, Known, Orderly, EncoderOrder, Encoder
<1>6. Sized(r)' = Sized(r)
      BY <1>1 DEF Sized
<1>7. \/ /\ thread'[<<r, "enc">>] = "none" /\ fd'[r] = "socket" /\ (persistent[r] => Sized(r))
      \/ /\ thread'[<<r, "enc">>] = "copy" /\ persistent[r] /\ ~Sized(r)
      BY <1>5 DEF SendUnchunked, SendChunked
<1>8. EncodingOrder(r)'
      BY <1>1, <1>5, <1>6, <1>7 DEF EncodingOrder, Answering
<1> QED BY <1>4, <1>8 DEF Streams

LEMMA StreamsHead ==
  ASSUME TypeOK, NEW r \in Ruly, Answering(r), WriteHead(r)
  PROVE  Streams(r)'
<1> USE Ids DEF TypeOK, Goto, handler, request, content, copies, pipes
<1>1. /\ pc[r] = "head" /\ pc'[r] = job[r]
      /\ UNCHANGED <<job, head, persistent, got, fd, copyFd, pipe, whole, thread>>
      BY DEF WriteHead
<1>0. PICK y \in Received(r, head[r]) : out'[r] = Append(out[r], y)
      BY DEF WriteHead, ToClient
<1>2. Stays(r)
      BY <1>1, SilentSource DEF Silent, Answering, Known
<1>3. job[r] \in {"page", "file", "copy"}
      OBVIOUS
<1>4. Given(r)' = 0
      BY <1>1, <1>2, <1>3, GivenStays DEF Answering, StreamOrder
<1>5. out[r] = << >> /\ pipe[<<r, "enc">>] = << >>
      BY <1>1 DEF Answering, StreamOrder, Started
<1>6. thread[<<r, "enc">>] # "ended"
      BY <1>1 DEF Answering, EncodingOrder
<1>7. Stream(r)[1] = head[r]
      BY Numbers, LastItem DEF Answering, Known
<1>8. Carried(r, Append(out[r], y), << >>, Stream(r)) /\ Len(Append(out[r], y)) = 1
  <2>1. Len(out[r]) = 0 /\ head[r] \in Statuses
        BY <1>5
  <2>2. Carried(r, out[r], pipe[<<r, "enc">>], Stream(r))
        BY <1>5 DEF Carried, Kept, Holds
  <2>3. head[r] = Stream(r)[Len(out[r]) + 1]
        BY <1>7, <2>1
  <2> HIDE DEF TypeOK
  <2>4. /\ Carried(r, Append(out[r], y), pipe[<<r, "enc">>], Stream(r))
        /\ Len(Append(out[r], y)) = Len(out[r]) + 1
        BY <1>5, <2>1, <2>2, <2>3, OutGrows
  <2> QED BY <1>5, <2>1, <2>4
<1>9. Stream(r)' = Stream(r)
      BY <1>1, Frame
<1>10. Len(out'[r]) + Len(pipe'[<<r, "enc">>]) = 1 + Given(r)' + Last(r)'
      BY <1>0, <1>1, <1>4, <1>5, <1>6, <1>8 DEF Last
<1>11. StreamOrder(r)'
      BY <1>0, <1>1, <1>3, <1>4, <1>5, <1>8, <1>9, <1>10 DEF StreamOrder, Started, Carried,
         Kept, Received, Holds
<1>12. Sized(r)' = Sized(r)
      BY <1>1 DEF Sized
<1>13. EncodingOrder(r)'
      BY <1>1, <1>3, <1>6, <1>12 DEF EncodingOrder, Answering
<1> QED BY <1>11, <1>13 DEF Streams

\* An item of the body on its way, to the socket or to the encoder.
LEMMA BodyGrows ==
  ASSUME TypeOK, NEW r \in Ruly, Answering(r), Started(r), NEW x \in Items,
         NEW f \in {fd[r], copyFd[r]} \ {"none"},
         x = Stream(r)[Given(r) + 2], Given(r) < Size(r), NEW y \in Received(r, x),
         out'[r] = IF f = "socket" THEN Append(out[r], y) ELSE out[r],
         pipe'[<<r, "enc">>] = IF f = "socket" THEN pipe[<<r, "enc">>]
                               ELSE Append(pipe[<<r, "enc">>], x)
  PROVE  /\ Carried(r, out'[r], pipe'[<<r, "enc">>], Stream(r))
         /\ Len(out'[r]) + Len(pipe'[<<r, "enc">>]) = 2 + Given(r)
         /\ thread[<<r, "enc">>] # "ended"
         /\ thread[<<r, "enc">>] = "none" => pipe'[<<r, "enc">>] = << >>
<1>1. /\ Given(r) \in Nat /\ Size(r) \in Nat
      /\ Len(out[r]) \in Nat /\ Len(pipe[<<r, "enc">>]) \in Nat
      BY Numbers, Typing DEF Answering, Known
<1>2. thread[<<r, "enc">>] # "ended"
      BY <1>1 DEF Answering, EncodingOrder
<1>3. /\ Carried(r, out[r], pipe[<<r, "enc">>], Stream(r))
      /\ Len(out[r]) + Len(pipe[<<r, "enc">>]) = 1 + Given(r)
  <2>1. Last(r) = 0
        BY <1>2 DEF Last
  <2>2. /\ Len(out[r]) + Len(pipe[<<r, "enc">>]) = 1 + Given(r) + Last(r)
        /\ Carried(r, out[r], pipe[<<r, "enc">>], Stream(r))
        BY DEF Answering, StreamOrder
  <2>3. \A g \in Nat : 1 + g + 0 = 1 + g
        OBVIOUS
  <2>4. 1 + Given(r) + Last(r) = 1 + Given(r)
        BY <1>1, <2>1, <2>3
  <2> QED BY <2>2, <2>4
<1>5. CASE f = "socket"
  <2>1. thread[<<r, "enc">>] = "none"
        BY <1>5 DEF Answering, Known, Orderly, EncoderOrder
  <2>2. pipe[<<r, "enc">>] = << >>
        BY <2>1 DEF Answering, EncodingOrder
  <2>3. Len(pipe[<<r, "enc">>]) = 0
        BY <2>2
  <2>4. Len(out[r]) + 1 = Given(r) + 2
        BY <1>1, <1>3, <2>3
  <2>5. x = Stream(r)[Len(out[r]) + 1]
        BY <2>4
  <2>6. /\ Carried(r, Append(out[r], y), pipe[<<r, "enc">>], Stream(r))
        /\ Len(Append(out[r], y)) = Len(out[r]) + 1
        BY <1>3, <2>2, <2>5, OutGrows
  <2>7. out'[r] = Append(out[r], y) /\ pipe'[<<r, "enc">>] = pipe[<<r, "enc">>]
        BY <1>5
  <2>8. Len(out'[r]) + Len(pipe'[<<r, "enc">>]) = 2 + Given(r)
    <3>1. Len(out'[r]) = Given(r) + 2 /\ Len(pipe'[<<r, "enc">>]) = 0
          BY <2>3, <2>4, <2>6, <2>7
    <3>2. (Given(r) + 2) + 0 = 2 + Given(r)
          BY <1>1
    <3> QED BY <3>1, <3>2
  <2> QED BY <1>2, <2>2, <2>6, <2>7, <2>8
<1>6. CASE f # "socket"
  <2>1. f = "enc"
        BY <1>6 DEF Answering, Known, Orderly, SinkOrder
  <2>2. thread[<<r, "enc">>] # "none"
        BY <2>1 DEF Answering, EncodingOrder
  <2>3. Len(out[r]) + Len(pipe[<<r, "enc">>]) + 1 = Given(r) + 2
    <3>1. \A g \in Nat : 1 + g + 1 = g + 2
          OBVIOUS
    <3>2. 1 + Given(r) + 1 = Given(r) + 2
          BY <1>1, <3>1
    <3> QED BY <1>3, <3>2
  <2>4. x = Stream(r)[Len(out[r]) + Len(pipe[<<r, "enc">>]) + 1]
        BY <2>3
  <2>5. /\ Carried(r, out[r], Append(pipe[<<r, "enc">>], x), Stream(r))
        /\ Len(Append(pipe[<<r, "enc">>], x)) = Len(pipe[<<r, "enc">>]) + 1
        BY <1>3, <2>4, PipeGrows
  <2>6. out'[r] = out[r] /\ pipe'[<<r, "enc">>] = Append(pipe[<<r, "enc">>], x)
        BY <1>6
  <2>7. Len(out'[r]) + Len(pipe'[<<r, "enc">>]) = 2 + Given(r)
    <3>1. Len(out'[r]) + Len(pipe'[<<r, "enc">>])
            = Len(out[r]) + (Len(pipe[<<r, "enc">>]) + 1)
          BY <2>5, <2>6
    <3>2. \A i, j \in Nat : i + (j + 1) = i + j + 1
          OBVIOUS
    <3>3. Given(r) + 2 = 2 + Given(r)
          BY <1>1
    <3> QED BY <1>1, <2>3, <3>1, <3>2, <3>3
  <2> QED BY <1>2, <2>2, <2>5, <2>6, <2>7
<1> QED BY <1>5, <1>6

LEMMA StreamsPage ==
  ASSUME TypeOK, NEW r \in Ruly, Answering(r), WritePage(r)
  PROVE  Streams(r)'
<1>1. /\ pc[r] = "page" /\ job[r] = "page" /\ thread[Cgi(r)] = "none"
      BY DEF WritePage, Answering, Known, Orderly, ChildOrder, SinkOrder
<1>2. Given(r) = 0 /\ Size(r) = 1 /\ Stream(r)[Given(r) + 2] = "page" /\ Started(r)
      BY <1>1, PageItem DEF Given, Size, Started
<1>3. /\ pc'[r] = "returned" /\ fd'[r] = "none"
      /\ UNCHANGED <<job, head, persistent, got, copyFd, whole, thread>>
      /\ Sends(r, fd[r], "page") /\ pipe' = Piped(pipe, r, fd[r], "page")
      BY <1>1, Ids DEF WritePage, AfterPage, Goto, TypeOK, request, content, copies
<1>4. fd[r] \in {"socket", "enc"}
      BY <1>1 DEF Answering, Known, Orderly, SinkOrder
<1>5. PICK y \in Received(r, "page") :
        out'[r] = IF fd[r] = "socket" THEN Append(out[r], y) ELSE out[r]
      BY <1>3, <1>4, Ids DEF Sends, ToClient, Received, TypeOK
<1>10. pipe'[<<r, "enc">>] = IF fd[r] = "socket" THEN pipe[<<r, "enc">>]
                             ELSE Append(pipe[<<r, "enc">>], "page")
      BY <1>3, <1>4, Ids DEF Piped, TypeOK
<1>6. /\ Carried(r, out'[r], pipe'[<<r, "enc">>], Stream(r))
      /\ Len(out'[r]) + Len(pipe'[<<r, "enc">>]) = 2 + Given(r)
      /\ thread[<<r, "enc">>] # "ended"
      /\ thread[<<r, "enc">>] = "none" => pipe'[<<r, "enc">>] = << >>
  <2>1. "page" \in Items /\ fd[r] \in {fd[r], copyFd[r]} \ {"none"} /\ Given(r) < Size(r)
        BY <1>2, <1>4 DEF Items
  <2> QED BY <1>2, <1>5, <1>10, <2>1, BodyGrows
<1>7. Given(r)' = 1 /\ Size(r)' = 1 /\ Last(r)' = 0 /\ Started(r)'
      BY <1>1, <1>3, <1>6 DEF Given, Size, Last, Started
<1>8. StreamOrder(r)'
  <2>1. /\ job'[r] = job[r] /\ head'[r] = head[r] /\ whole'[r] = whole[r]
        /\ (pc[r] = "returned" => Given(r) = Size(r))'
        BY <1>3, <1>7
  <2>2. (Len(out[r]) + Len(pipe[<<r, "enc">>]) = 1 + Given(r) + Last(r))'
    <3>1. Len(out'[r]) + Len(pipe'[<<r, "enc">>]) = 2 + 0
          BY <1>2, <1>6
    <3>2. 2 + 0 = 1 + Given(r)' + Last(r)'
          BY <1>7
    <3> QED BY <3>1, <3>2
  <2> QED BY <1>2, <1>6, <1>7, <2>1, <2>2, StillStarted
<1>9. EncodingOrder(r)'
  <2>1. Sized(r)' = Sized(r)
        BY <1>3 DEF Sized
  <2> QED BY <1>1, <1>2, <1>3, <1>6, <2>1 DEF EncodingOrder, Answering
<1> QED BY <1>8, <1>9 DEF Streams

LEMMA StreamsFile ==
  ASSUME TypeOK, NEW r \in Ruly, Answering(r), WriteFile(r)
  PROVE  Streams(r)'
<1>1. /\ pc[r] = "file" /\ job[r] = "file" /\ kind[r] = "file" /\ given[r] < Len(whole[r])
      BY DEF WriteFile, Answering, Known, Orderly, ChildOrder, AnswerOrder
<1>2. pipe[Cgi(r)] = << >>
      BY <1>1 DEF Answering, Known, SourceOrder
<1>3. fd[r] = "socket"
  <2>1. thread[<<r, "enc">>] = "none"
        BY <1>1 DEF Answering, EncodingOrder, Started, Sized
  <2> QED BY <1>1, <2>1 DEF Answering, EncodingOrder, Known, Orderly, SinkOrder
<1> DEFINE x == whole[r][given[r] + 1]
<1>4. Advances(r, x)
      BY <1>2, FileSource
<1>5. /\ Given(r)' = Given(r) + 1 /\ Size(r)' = Size(r)
      /\ x = Stream(r)[Given(r) + 2] /\ Given(r) < Size(r)
  <2>1. job'[r] = job[r] /\ head'[r] = head[r]
        BY DEF WriteFile, handler
  <2> QED BY <1>1, <1>4, <2>1, GivenAdvances DEF Answering, Known
<1>6. /\ UNCHANGED <<pc, job, head, fd, persistent, got, copyFd, whole, thread>>
      /\ pipe'[<<r, "enc">>] = pipe[<<r, "enc">>]
      BY Ids DEF WriteFile, TypeOK, handler, request, copies, pipes
<1>0. PICK y \in Received(r, x) : out'[r] = Append(out[r], y)
      BY <1>3, Ids DEF WriteFile, Sends, ToClient, TypeOK
<1>7. x \in Items
  <2>1. /\ whole[r] \in Seq(Lines \cup Bytes) /\ given[r] \in Nat /\ Len(whole[r]) \in Nat
        BY Locals, Ids
  <2> QED BY <1>1, <2>1, ElementOfSeq DEF Items
<1>8. Started(r)
      BY <1>1 DEF Started
<1> HIDE DEF x
<1>9. /\ Carried(r, out'[r], pipe'[<<r, "enc">>], Stream(r))
      /\ Len(out'[r]) + Len(pipe'[<<r, "enc">>]) = 2 + Given(r)
      /\ thread[<<r, "enc">>] # "ended"
      BY <1>0, <1>3, <1>5, <1>6, <1>7, <1>8, BodyGrows
<1>10. Given(r) \in Nat
      BY Numbers DEF Answering, Known
<1>11. /\ Last(r)' = 0 /\ Started(r)' /\ pc'[r] # "returned"
       /\ 2 + Given(r) = 1 + (Given(r) + 1) + 0
      BY <1>1, <1>6, <1>8, <1>9, <1>10 DEF Last, Started
<1>12. StreamOrder(r)'
      BY <1>5, <1>6, <1>8, <1>9, <1>11, StillStarted
<1>13. EncodingOrder(r)'
  <2>1. Sized(r)' = Sized(r)
        BY <1>6 DEF Sized
  <2> QED BY <1>1, <1>6, <1>9, <2>1 DEF EncodingOrder, Answering, Started
<1> QED BY <1>12, <1>13 DEF Streams

\* Between and after the writes.
LEMMA StreamsStep ==
  ASSUME TypeOK, NEW r \in Ruly, Answering(r),
         CloseFile(r) \/ StartCopy(r) \/ Waitpid(r) \/ Join(r)
  PROVE  Streams(r)'
<1> USE Ids DEF Goto, handler, request, content, copies, pipes
<1>1. /\ Started(r) /\ Started(r)' /\ job[r] # "page"
      /\ UNCHANGED <<persistent, got, whole, pipe, out>> /\ job'[r] = job[r] /\ head'[r] = head[r]
      /\ thread'[<<r, "enc">>] = thread[<<r, "enc">>]
      /\ {fd'[r], copyFd'[r]} \subseteq {fd[r], copyFd[r], "none"}
      /\ pc[r] \in {"wait", "join", "returned"} => pc'[r] \in {"wait", "join", "returned"}
  <2> USE DEF TypeOK, Started, Answering, Known, Orderly, ChildOrder
  <2>1. CASE CloseFile(r)
        BY <2>1 DEF CloseFile
  <2>2. CASE StartCopy(r)
        BY <2>2 DEF StartCopy
  <2>3. CASE Waitpid(r)
        BY <2>3 DEF Waitpid
  <2>4. CASE Join(r)
        BY <2>4 DEF Join
  <2> QED BY <2>1, <2>2, <2>3, <2>4
<1>2. Stays(r)
      BY SilentSource DEF Silent, Answering, Known
<1>3. Given(r)' = Given(r) /\ Size(r)' = Size(r)
      BY <1>1, <1>2, Frame DEF Given, Stays
<1>4. pc'[r] = "returned" => Given(r) = Size(r)
  <2>1. CASE CloseFile(r)
    <3>1. job[r] = "file" /\ kind[r] = "file" /\ given[r] = Len(whole[r])
          BY <2>1 DEF CloseFile, Answering, Known, Orderly, ChildOrder, AnswerOrder
    <3>2. Len(pipe[Cgi(r)]) = 0 /\ given[r] \in Nat
          BY <3>1, Locals DEF Answering, Known, SourceOrder
    <3>3. Taken(r) = Len(whole[r])
          BY <3>1, <3>2 DEF Taken
    <3> QED BY <3>1, <3>3 DEF Given, Size
  <2>2. CASE Join(r)
    <3>1. thread[Cgi(r)] = "ended"
          BY <2>2 DEF Join
    <3>2. Len(pipe[Cgi(r)]) = 0 /\ given[r] \in Nat /\ given[r] = Len(whole[r])
          BY <3>1, Locals DEF Answering, Known, SourceOrder
    <3>3. Taken(r) = Len(whole[r])
          BY <3>2 DEF Taken
    <3> QED BY <1>1, <3>3 DEF Given, Size
  <2>3. CASE StartCopy(r) \/ Waitpid(r)
    <3>1. pc'[r] # "returned"
          BY <2>3 DEF StartCopy, Waitpid, TypeOK, Page
    <3> QED BY <3>1
  <2> QED BY <2>1, <2>2, <2>3
<1>5. /\ Len(out[r]) + Len(pipe[<<r, "enc">>]) = 1 + Given(r) + Last(r)
      /\ Carried(r, out[r], pipe[<<r, "enc">>], Stream(r)) /\ Last(r)' = Last(r)
      BY <1>1 DEF Answering, StreamOrder, Last
<1>6. StreamOrder(r)'
      BY <1>1, <1>3, <1>4, <1>5, StillStarted
<1>7. EncodingOrder(r)'
  <2>1. Sized(r)' = Sized(r)
        BY <1>1 DEF Sized
  <2>2. "enc" \in {fd'[r], copyFd'[r]} => "enc" \in {fd[r], copyFd[r]}
        BY <1>1
  <2> QED BY <1>1, <1>3, <2>1, <2>2 DEF EncodingOrder, Answering
<1> QED BY <1>6, <1>7 DEF Streams

LEMMA StreamsHandler ==
  ASSUME TypeOK, NEW r \in Ruly, Answering(r), HandlerStep(r)
  PROVE  Streams(r)'
<1>1. \/ pc[r] \in {"start", "fork", "close", "read", "reap"}
      \/ SendUnchunked(r) \/ SendChunked(r) \/ WriteHead(r) \/ WritePage(r) \/ WriteFile(r)
      \/ CloseFile(r) \/ StartCopy(r) \/ Waitpid(r) \/ Join(r)
      BY HandlerSteps DEF Silent, Answering, Known, ServePage, ServeFile, StartCgi, Fork,
         ForkFails, CloseOwn, ReadLine, ReadBlank, ReadMalformed, Reads, ReadEof, Reap
<1> QED BY <1>1, StreamsChoice, StreamsSend, StreamsHead, StreamsPage, StreamsFile,
           StreamsStep

-----------------------------------------------------------------------------
(* The steps of the child, the copy thread and the encoder.                *)

LEMMA StreamsChild ==
  ASSUME TypeOK, NEW r \in Ruly, Answering(r), ChildStep(r)
  PROVE  Streams(r)'
<1>1. /\ UNCHANGED <<pc, job, head, persistent, got, fd, copyFd, thread, out>>
      /\ pipe'[<<r, "enc">>] = pipe[<<r, "enc">>]
      BY Ids DEF ChildStep, Exec, ExecFails, ChildWrites, ChildExits, Exit, handler, request,
         content, copies, pipes, TypeOK
<1>2. Sized(r)' = Sized(r) /\ Started(r)' = Started(r) /\ Last(r)' = Last(r)
      BY <1>1 DEF Sized, Started, Last
<1>3. CASE Exec(r)
  <2>1. pc[r] \in {"start", "fork", "close", "read", "reap"}
        BY <1>3, Ids DEF Exec, Answering, Known, Orderly, ChildOrder, SinkOrder, TypeOK, PCs,
           Running
  <2>2. ~Started(r) /\ pc[r] \notin {"send", "head"} /\ thread[<<r, "enc">>] # "ended"
        BY <2>1 DEF Started, Answering, Known, Orderly, EncoderOrder
  <2>3. StreamOrder(r)'
        BY <1>1, <1>2, <2>2, NotStarted
  <2>4. EncodingOrder(r)'
        BY <1>1, <1>2, <2>2 DEF EncodingOrder, Answering
  <2> QED BY <2>3, <2>4 DEF Streams
<1>4. CASE ~Exec(r)
  <2>1. Stays(r)
        BY <1>4, ChildSource DEF Answering, Known
  <2>2. Given(r)' = Given(r) /\ Size(r)' = Size(r)
        BY <1>1, <2>1, GivenStays
  <2>3. StreamOrder(r)'
    <3>1. CASE ~Started(r)
          BY <1>1, <1>2, <2>2, <3>1, NotStarted DEF Answering, StreamOrder
    <3>2. CASE Started(r)
      <4>1. /\ (pc[r] = "returned" => Given(r) = Size(r))'
            /\ (Len(out[r]) + Len(pipe[<<r, "enc">>]) = 1 + Given(r) + Last(r))'
            /\ Carried(r, out'[r], pipe'[<<r, "enc">>], Stream(r))
            BY <1>1, <1>2, <2>2, <3>2 DEF Answering, StreamOrder
      <4>2. job'[r] = job[r] /\ head'[r] = head[r] /\ whole'[r] = whole[r] /\ Started(r)'
            BY <1>1, <1>2, <2>1, <3>2 DEF Stays
      <4> QED BY <3>2, <4>1, <4>2, StillStarted
    <3> QED BY <3>1, <3>2
  <2>4. EncodingOrder(r)'
        BY <1>1, <1>2, <2>2 DEF EncodingOrder, Answering
  <2> QED BY <2>3, <2>4 DEF Streams
<1> QED BY <1>3, <1>4

LEMMA StreamsMoves ==
  ASSUME TypeOK, NEW r \in Ruly, Answering(r), Moves(Cgi(r))
  PROVE  Streams(r)'
<1> DEFINE f == copyFd[r]
           x == Head(pipe[Cgi(r)])
<1>1. /\ thread[Cgi(r)] = "copy" /\ f \in {"socket", "enc"} /\ pc[r] \in {"wait", "join"}
      /\ job[r] = "copy"
      BY DEF Moves, Answering, Known, Orderly, SinkOrder, ChildOrder
<1>2. /\ UNCHANGED <<pc, job, head, persistent, got, fd, copyFd, thread>>
      /\ Sends(r, f, x)
      /\ pipe' = Piped([pipe EXCEPT ![Cgi(r)] = Tail(@)], r, f, x)
      BY DEF Moves, Target, Cgi, handler, request, content, copies
<1>3. Advances(r, x) /\ pipe[Cgi(r)] # << >>
      BY MovesSource DEF Answering, Known
<1>4. x \in Items
  <2>1. pipe[Cgi(r)] \in Seq(Items)
        BY Locals, Ids
  <2> QED BY <1>3, <2>1, HeadTailProperties
<1>5. /\ Given(r)' = Given(r) + 1 /\ Size(r)' = Size(r)
      /\ x = Stream(r)[Given(r) + 2] /\ Given(r) < Size(r)
      BY <1>1, <1>2, <1>3, GivenAdvances DEF Answering, Known
<1>6. pipe'[<<r, "enc">>] = IF f = "socket" THEN pipe[<<r, "enc">>]
                            ELSE Append(pipe[<<r, "enc">>], x)
      BY <1>1, <1>2, Ids DEF Piped, TypeOK
<1>0. PICK y \in Received(r, x) :
        out'[r] = IF f = "socket" THEN Append(out[r], y) ELSE out[r]
      BY <1>1, <1>2, Ids DEF Sends, ToClient, Received, TypeOK
<1>7. Started(r) /\ f \in {fd[r], copyFd[r]} \ {"none"}
      BY <1>1 DEF Started
<1> HIDE DEF f, x
<1>8. /\ Carried(r, out'[r], pipe'[<<r, "enc">>], Stream(r))
      /\ Len(out'[r]) + Len(pipe'[<<r, "enc">>]) = 2 + Given(r)
      /\ thread[<<r, "enc">>] # "ended"
      /\ thread[<<r, "enc">>] = "none" => pipe'[<<r, "enc">>] = << >>
      BY <1>0, <1>4, <1>5, <1>6, <1>7, BodyGrows
<1>9. Given(r) \in Nat
      BY Numbers DEF Answering, Known
<1>10. /\ Last(r)' = 0 /\ Started(r)' /\ pc'[r] # "returned"
       /\ 2 + Given(r) = 1 + (Given(r) + 1) + 0
      BY <1>1, <1>2, <1>8, <1>9 DEF Last, Started
<1>11. StreamOrder(r)'
  <2>1. job'[r] = job[r] /\ head'[r] = head[r] /\ whole'[r] = whole[r]
        BY <1>2, <1>3 DEF Advances
  <2>2. (Len(out[r]) + Len(pipe[<<r, "enc">>]) = 1 + Given(r) + Last(r))'
        BY <1>5, <1>8, <1>10
  <2> QED BY <1>7, <1>8, <1>10, <2>1, <2>2, StillStarted
<1>12. EncodingOrder(r)'
  <2>1. Sized(r)' = Sized(r)
        BY <1>2 DEF Sized
  <2> QED BY <1>1, <1>2, <1>7, <1>8, <2>1 DEF EncodingOrder, Answering, Started
<1> QED BY <1>11, <1>12 DEF Streams

LEMMA StreamsCopied ==
  ASSUME TypeOK, NEW r \in Ruly, Answering(r), CopierEnds(r)
  PROVE  Streams(r)'
<1>1. /\ UNCHANGED <<pc, job, head, persistent, got, fd, pipe, out>> /\ copyFd'[r] = "none"
      /\ thread'[<<r, "enc">>] = thread[<<r, "enc">>] /\ thread[Cgi(r)] = "copy"
      BY Ids DEF CopierEnds, handler, request, content, TypeOK
<1>2. Sized(r)' = Sized(r) /\ Started(r)' = Started(r) /\ Last(r)' = Last(r)
      BY <1>1 DEF Sized, Started, Last
<1>3. Stays(r)
      BY OthersSource DEF Answering, Known, Encoders
<1>4. Given(r)' = Given(r) /\ Size(r)' = Size(r)
      BY <1>1, <1>3, GivenStays
<1>5. Started(r)
      BY <1>1 DEF Started, Answering, Known, Orderly, SinkOrder
<1>6. StreamOrder(r)'
  <2>1. /\ (pc[r] = "returned" => Given(r) = Size(r))'
        /\ (Len(out[r]) + Len(pipe[<<r, "enc">>]) = 1 + Given(r) + Last(r))'
        /\ Carried(r, out'[r], pipe'[<<r, "enc">>], Stream(r))
        BY <1>1, <1>2, <1>4, <1>5 DEF Answering, StreamOrder
  <2>2. job'[r] = job[r] /\ head'[r] = head[r] /\ whole'[r] = whole[r] /\ Started(r)'
        BY <1>1, <1>2, <1>3, <1>5 DEF Stays
  <2> QED BY <1>5, <2>1, <2>2, StillStarted
<1>7. EncodingOrder(r)'
      BY <1>1, <1>2, <1>4 DEF EncodingOrder, Answering
<1> QED BY <1>6, <1>7 DEF Streams

\* An item of the encoder's pipe becomes a chunk.
LEMMA StreamsChunk ==
  ASSUME TypeOK, NEW r \in Ruly, Answering(r), Moves(<<r, "enc">>)
  PROVE  Streams(r)'
<1> DEFINE p == pipe[<<r, "enc">>]
<1>1. /\ UNCHANGED <<pc, job, head, persistent, got, fd, copyFd, thread>>
      /\ thread[<<r, "enc">>] = "copy" /\ p # << >>
      /\ pipe'[<<r, "enc">>] = Tail(p)
      BY Ids DEF Moves, Target, Piped, TypeOK, handler, request, content, copies
<1>0. PICK y \in Received(r, Head(p)) : out'[r] = Append(out[r], y)
      BY Ids DEF Moves, Target, Sends, ToClient, TypeOK
<1>2. Sized(r)' = Sized(r) /\ Started(r)' = Started(r) /\ Last(r)' = Last(r)
      BY <1>1 DEF Sized, Started, Last
<1>3. Stays(r)
      BY OthersSource DEF Answering, Known, EncoderStep, Encoders
<1>4. Given(r)' = Given(r) /\ Size(r)' = Size(r)
      BY <1>1, <1>3, GivenStays
<1>5. Started(r)
      BY <1>1 DEF Answering, StreamOrder
<1>6. /\ Len(out[r]) + Len(p) = 1 + Given(r) + Last(r) /\ Carried(r, out[r], p, Stream(r))
      BY <1>5 DEF Answering, StreamOrder
<1>7. /\ Carried(r, Append(out[r], y), Tail(p), Stream(r))
      /\ Len(Append(out[r], y)) + Len(Tail(p)) = Len(out[r]) + Len(p)
      BY <1>1, <1>6, PipeDrains
<1>8. StreamOrder(r)'
  <2>1. /\ (pc[r] = "returned" => Given(r) = Size(r))'
        /\ (Len(out[r]) + Len(pipe[<<r, "enc">>]) = 1 + Given(r) + Last(r))'
        /\ Carried(r, out'[r], pipe'[<<r, "enc">>], Stream(r))
        BY <1>0, <1>1, <1>2, <1>4, <1>6, <1>7 DEF Answering, StreamOrder
  <2>2. job'[r] = job[r] /\ head'[r] = head[r] /\ whole'[r] = whole[r] /\ Started(r)'
        BY <1>1, <1>2, <1>3, <1>5 DEF Stays
  <2> QED BY <1>5, <2>1, <2>2, StillStarted
<1>9. EncodingOrder(r)'
      BY <1>1, <1>2, <1>4 DEF EncodingOrder, Answering
<1> QED BY <1>8, <1>9 DEF Streams

\* The last chunk: nobody writes to the encoder any more, so all was given.
LEMMA StreamsLast ==
  ASSUME TypeOK, NEW r \in Ruly, Answering(r), EncoderEnds(r, "enc")
  PROVE  Streams(r)'
<1>1. /\ UNCHANGED <<pc, job, head, persistent, got, fd, copyFd, pipe>>
      /\ thread[<<r, "enc">>] = "copy" /\ thread'[<<r, "enc">>] = "ended"
      /\ pipe[<<r, "enc">>] = << >> /\ writers[<<r, "enc">>] = {}
      BY Ids DEF EncoderEnds, AtEof, TypeOK, handler, request, content, pipes
<1>0. PICK y \in Received(r, "last") : out'[r] = Append(out[r], y)
      BY Ids DEF EncoderEnds, ToClient, TypeOK
<1>2. fd[r] = "none" /\ copyFd[r] = "none"
      BY <1>1 DEF Answering, Known, Orderly, SinkOrder, EncoderOrder
<1>3. pc[r] \in {"wait", "join", "returned"}
      BY <1>1, <1>2, Ids DEF Answering, Known, Orderly, SinkOrder, EncoderOrder, TypeOK, PCs,
         Running
<1>4. Given(r) = Size(r)
  <2>1. CASE pc[r] = "returned"
        BY <2>1 DEF Answering, StreamOrder
  <2>2. CASE pc[r] \in {"wait", "join"}
    <3>1. thread[Cgi(r)] = "ended" /\ job[r] = "copy"
          BY <1>2, <2>2 DEF Answering, Known, Orderly, SinkOrder, ChildOrder
    <3>2. Len(pipe[Cgi(r)]) = 0 /\ given[r] \in Nat /\ given[r] = Len(whole[r])
          BY <3>1, Locals, Ids DEF Answering, Known, SourceOrder
    <3>3. Taken(r) = Len(whole[r])
          BY <3>2 DEF Taken
    <3> QED BY <3>1, <3>3 DEF Given, Size
  <2> QED BY <1>3, <2>1, <2>2
<1>5. Started(r) /\ Started(r)' /\ Last(r) = 0 /\ Last(r)' = 1 /\ Sized(r)' = Sized(r)
      BY <1>1, <1>3 DEF Started, Last, Sized
<1>6. Stays(r)
      BY OthersSource DEF Answering, Known, EncoderStep, Encoders
<1>7. Given(r)' = Given(r) /\ Size(r)' = Size(r)
      BY <1>1, <1>6, GivenStays
<1>8. /\ Size(r) \in Nat /\ Given(r) \in Nat /\ Len(out[r]) \in Nat
      /\ Len(pipe[<<r, "enc">>]) = 0
      BY <1>1, Numbers, Typing DEF Answering, Known
<1>9. /\ Carried(r, out[r], pipe[<<r, "enc">>], Stream(r)) /\ Len(out[r]) = 1 + Given(r)
  <2>1. /\ Carried(r, out[r], pipe[<<r, "enc">>], Stream(r))
        /\ Len(out[r]) + Len(pipe[<<r, "enc">>]) = 1 + Given(r) + Last(r)
        BY <1>5 DEF Answering, StreamOrder
  <2>2. \A i, g \in Nat : i + 0 = 1 + g + 0 => i = 1 + g
        OBVIOUS
  <2> QED BY <1>5, <1>8, <2>1, <2>2
<1>10. "last" = Stream(r)[Len(out[r]) + 1]
  <2>1. Len(out[r]) + 1 = Size(r) + 2
        BY <1>4, <1>8, <1>9
  <2> QED BY <1>8, <2>1, LastItem
<1>11. /\ Carried(r, Append(out[r], y), pipe[<<r, "enc">>], Stream(r))
       /\ Len(Append(out[r], y)) = Len(out[r]) + 1
      BY <1>1, <1>9, <1>10, OutGrows
<1>12. StreamOrder(r)'
  <2>1. (Len(out[r]) + Len(pipe[<<r, "enc">>]) = 1 + Given(r) + Last(r))'
    <3>1. Len(out'[r]) = (1 + Given(r)) + 1 /\ Len(pipe'[<<r, "enc">>]) = 0
          BY <1>0, <1>1, <1>8, <1>9, <1>11
    <3>2. \A g \in Nat : ((1 + g) + 1) + 0 = 1 + g + 1
          OBVIOUS
    <3> QED BY <1>5, <1>7, <1>8, <3>1, <3>2
  <2>2. /\ job'[r] = job[r] /\ head'[r] = head[r] /\ whole'[r] = whole[r]
        /\ (pc[r] = "returned" => Given(r) = Size(r))'
        /\ Carried(r, out'[r], pipe'[<<r, "enc">>], Stream(r))
        BY <1>0, <1>1, <1>4, <1>6, <1>7, <1>11 DEF Stays
  <2> QED BY <1>5, <2>1, <2>2, StillStarted
<1>13. EncodingOrder(r)'
      BY <1>1, <1>2, <1>3, <1>4, <1>5, <1>7 DEF EncodingOrder, Answering
<1> QED BY <1>12, <1>13 DEF Streams

LEMMA StreamsOthers ==
  ASSUME TypeOK, NEW r \in Ruly, NEW e \in Encoders, Answering(r),
         ChildStep(r) \/ CopierStep(r) \/ EncoderStep(r, e)
  PROVE  Streams(r)'
<1>1. CASE EncoderStep(r, e)
  <2>1. thread[<<r, "again">>] = "none"
        BY DEF Answering, Known, Orderly, EncoderOrder
  <2>2. Moves(<<r, "enc">>) \/ EncoderEnds(r, "enc")
        BY <1>1, <2>1 DEF EncoderStep, Moves, EncoderEnds, Encoders
  <2> QED BY <2>2, StreamsChunk, StreamsLast
<1> QED BY <1>1, StreamsChild, StreamsMoves, StreamsCopied DEF CopierStep

-----------------------------------------------------------------------------
(* The invariant, over all requests.                                       *)

LEMMA QueueHandler ==
  ASSUME TypeOK, NEW r \in Ruly, Answering(r), HandlerStep(r)
  PROVE  Queue(r)'
<1> USE DEF Answering, Known
<1>1. CASE ServeFile(r)
  <2>1. given'[r] = 0 /\ pipe'[Cgi(r)] = << >>
        BY <1>1 DEF ServeFile, Fresh, AnswerOrder, SourceOrder, pipes
  <2> QED BY <2>1, ChosenQueue, Ids
<1>2. CASE WriteFile(r)
  <2>1. pipe[Cgi(r)] = << >>
        BY <1>2 DEF WriteFile, Orderly, ChildOrder, AnswerOrder, SourceOrder
  <2> QED BY <1>2, <2>1, FileSource
<1>3. CASE ReadLine(r) \/ ReadBlank(r) \/ ReadMalformed(r)
  <2>1. PICK line : Reads(r, line)
        BY <1>3 DEF ReadLine, ReadBlank, ReadMalformed
  <2>2. UNCHANGED <<whole, given>>
        BY <1>3 DEF ReadLine, ReadBlank, ReadMalformed, content
  <2> QED BY <2>1, <2>2, ReadsSource
<1> QED BY <1>1, <1>2, <1>3, SilentSource, HandlerSteps

LEMMA QueueOthers ==
  ASSUME TypeOK, NEW r \in Ruly, NEW e \in Encoders, Answering(r),
         ChildStep(r) \/ CopierStep(r) \/ EncoderStep(r, e)
  PROVE  Queue(r)'
<1> USE DEF Answering, Known
<1>1. CASE Exec(r)
  <2>1. child[r] = "forked" /\ given'[r] = given[r] /\ pipe'[Cgi(r)] = pipe[Cgi(r)]
        BY <1>1 DEF Exec, pipes
  <2>2. given[r] = 0 /\ pipe[Cgi(r)] = << >>
        BY <2>1 DEF SourceOrder, Orderly, ChildOrder
  <2> QED BY <2>1, <2>2, ChosenQueue, Ids
<1> QED BY <1>1, ChildSource, MovesSource, OthersSource DEF CopierStep

\* What is added to Fresh and Orderly.
Ordered(r) ==
  /\ Queue(r) /\ AnswerOrder(r) /\ SourceOrder(r) /\ HeaderOrder(r)
  /\ EncodingOrder(r) /\ StreamOrder(r)

LEMMA OrderedOwn ==
  ASSUME TypeOK, NEW r \in Ruly, NEW e \in Encoders, Answering(r),
         HandlerStep(r) \/ ChildStep(r) \/ CopierStep(r) \/ EncoderStep(r, e)
  PROVE  Ordered(r)'
<1>1. CASE HandlerStep(r)
      BY <1>1, QueueHandler, AnswerHandler, SourceHandler, HeaderHandler, StreamsHandler
      DEF Answering, Ordered, Streams
<1>2. CASE ChildStep(r) \/ CopierStep(r) \/ EncoderStep(r, e)
      BY <1>2, QueueOthers, AnswerOthers, SourceOthers, HeaderOthers, StreamsOthers
      DEF Answering, Ordered, Streams
<1> QED BY <1>1, <1>2

\* The steps for other requests.
LEMMA SameOrdered ==
  ASSUME NEW r \in Ruly, Ordered(r), Same(r)
  PROVE  Ordered(r)'
<1>1. /\ SameOwn(r) /\ SamePipe(r, "cgi") /\ SamePipe(r, "enc")
      BY DEF Same, Kinds
<1>2. /\ thread'[Cgi(r)] = thread[Cgi(r)] /\ pipe'[Cgi(r)] = pipe[Cgi(r)]
      /\ r \in writers'[Cgi(r)] <=> r \in writers[Cgi(r)]
      /\ Server \in writers'[Cgi(r)] <=> Server \in writers[Cgi(r)]
      BY <1>1 DEF SamePipe, Cgi
<1>3. Stays(r) /\ Queue(r)'
      BY <1>1, <1>2, KeptQueue, Ids DEF Ordered, SameOwn
<1>4. HasHeader(r)' = HasHeader(r)
      BY <1>1 DEF HasHeader, Header, SameOwn
<1>5. AnswerOrder(r)'
      BY <1>1, <1>4 DEF AnswerOrder, Ordered, SameOwn
<1>6. SourceOrder(r)'
      BY <1>1, <1>2 DEF SourceOrder, Ordered, SameOwn
<1>7. HeaderOrder(r)'
      BY <1>1, <1>3 DEF HeaderOrder, Header, Ordered, SameOwn, Stays
<1>8. Given(r)' = Given(r) /\ Size(r)' = Size(r) /\ Stream(r)' = Stream(r)
      BY <1>1, <1>3, Frame, GivenStays DEF SameOwn
<1>9. EncodingOrder(r)'
      BY <1>1, <1>8 DEF EncodingOrder, Started, Sized, Ordered, SameOwn, SamePipe
<1>10. StreamOrder(r)'
  <2>1. Carried(r, out[r], pipe[<<r, "enc">>], Stream(r)) =>
          Carried(r, out[r], pipe[<<r, "enc">>], Stream(r))'
        BY <1>1, <1>8 DEF Carried, Kept, Received, Holds, SameOwn, SamePipe
  <2> QED BY <1>1, <1>8, <2>1 DEF StreamOrder, Started, Last, Ordered, SameOwn, SamePipe
<1> QED BY <1>3, <1>5, <1>6, <1>7, <1>9, <1>10 DEF Ordered

LEMMA InitOrdered ==
  ASSUME Init, NEW r \in Ruly
  PROVE  Ordered(r)
<1>1. /\ pc[r] = "start" /\ job[r] = "page" /\ kind[r] = "page" /\ child[r] = "none"
      /\ whole[r] = << >> /\ given[r] = 0 /\ fd[r] = "none" /\ copyFd[r] = "none"
      /\ out[r] = << >>
      BY Ids DEF Init
<1>2. /\ pipe[Cgi(r)] = << >> /\ pipe[<<r, "enc">>] = << >>
      /\ thread[Cgi(r)] = "none" /\ thread[<<r, "enc">>] = "none"
      BY Ids DEF Init
<1>3. Taken(r) = 0 /\ Queue(r)
  <2>1. Len(pipe[Cgi(r)]) = 0
        BY <1>2
  <2> QED BY <1>1, <2>1 DEF Taken, Queue, Holds
<1>4. AnswerOrder(r) /\ SourceOrder(r) /\ HeaderOrder(r)
      BY <1>1, <1>2 DEF AnswerOrder, SourceOrder, HeaderOrder
<1>5. EncodingOrder(r) /\ StreamOrder(r)
      BY <1>1, <1>2 DEF EncodingOrder, StreamOrder, Started
<1> QED BY <1>3, <1>4, <1>5 DEF Ordered

AllOrdered == \A r \in Ruly : Ordered(r)

AnswersInv == Inv /\ AllOrdered

LEMMA AllAnswering == AnswersInv => TypeOK /\ \A r \in Ruly : Answering(r)
BY Ids DEF AnswersInv, Inv, Typed, AllFresh, AllOrderly, AllOrdered, Ordered, Answering, Known

LEMMA OrderedStep ==
  ASSUME AnswersInv, NEW q \in Requests, NEW e \in Encoders, NEW r \in Ruly,
         \/ HandlerStep(q) \/ ChildStep(q) \/ CopierStep(q) \/ EncoderStep(q, e)
         \/ Cancel(q)
  PROVE  Ordered(r)'
<1>1. /\ r \in Requests /\ TypeOK /\ Ordered(r) /\ Answering(r)
      BY AllAnswering, Ids DEF AnswersInv, AllOrdered
<1>2. CASE q # r
      BY <1>1, <1>2, StepSame, SameOrdered
<1>3. CASE q = r
  <2>1. ~Cancel(r)
        BY DEF Cancel, Ruly
  <2> QED BY <1>1, <1>3, <2>1, OrderedOwn
<1> QED BY <1>2, <1>3

LEMMA AnswersNext == AnswersInv /\ [Next]_vars => AnswersInv'
<1> SUFFICES ASSUME AnswersInv, [Next]_vars PROVE AnswersInv'
    OBVIOUS
<1>1. Inv'
      BY InvNext DEF AnswersInv
<1>2. CASE Next
      BY <1>1, <1>2, OrderedStep DEF Next, AnswersInv, AllOrdered, Encoders
<1>3. CASE UNCHANGED vars
  <2>1. UNCHANGED <<pc, job, head, fd, persistent, kind, whole, given, got, child,
                    copyFd, thread, pipe, writers, out>>
        BY <1>3 DEF vars, handler, request, content, copies, pipes
  <2>2. \A r \in Ruly : Same(r)
        BY <2>1 DEF Same, SameOwn, SamePipe
  <2>3. AllOrdered'
        BY <2>2, SameOrdered DEF AnswersInv, AllOrdered
  <2> QED BY <1>1, <2>3 DEF AnswersInv
<1> QED BY <1>2, <1>3

LEMMA AnswersAlways == Spec => []AnswersInv
<1>1. Init => AnswersInv
      BY InvInit, InitOrdered DEF AnswersInv, AllOrdered
<1> QED BY <1>1, AnswersNext, PTL DEF Spec

-----------------------------------------------------------------------------
(* The stream is the response.                                             *)

LEMMA Prefixed ==
  ASSUME NEW S, NEW h \in S, NEW w \in Seq(S)
  PROVE  /\ <<h>> \o w \in Seq(S) /\ Len(<<h>> \o w) = 1 + Len(w) /\ (<<h>> \o w)[1] = h
         /\ \A i \in 1 .. Len(w) : (<<h>> \o w)[1 + i] = w[i]
<1>1. <<h>> \in Seq(S) /\ Len(<<h>>) = 1 /\ <<h>>[1] = h /\ Len(w) \in Nat
      OBVIOUS
<1>2. /\ <<h>> \o w \in Seq(S) /\ Len(<<h>> \o w) = 1 + Len(w)
      /\ \A i \in 1 .. 1 + Len(w) :
           (<<h>> \o w)[i] = IF i <= 1 THEN <<h>>[i] ELSE w[i - 1]
      BY <1>1, ConcatProperties
<1>3. ASSUME NEW i \in 1 .. Len(w)
      PROVE  (<<h>> \o w)[1 + i] = w[i]
  <2>1. 1 + i \in 1 .. 1 + Len(w) /\ ~(1 + i <= 1) /\ (1 + i) - 1 = i
        BY <1>1
  <2> QED BY <1>2, <2>1
<1>4. 1 \in 1 .. 1 + Len(w) /\ 1 <= 1
      BY <1>1
<1>5. (<<h>> \o w)[1] = h
      BY <1>1, <1>2, <1>4
<1> QED BY <1>2, <1>3, <1>5

LEMMA Suffixed ==
  ASSUME NEW S, NEW s \in Seq(S), NEW x \in S
  PROVE  /\ s \o <<x>> \in Seq(S) /\ Len(s \o <<x>>) = Len(s) + 1
         /\ (s \o <<x>>)[Len(s) + 1] = x
         /\ \A i \in 1 .. Len(s) : (s \o <<x>>)[i] = s[i]
<1>1. s \o <<x>> = Append(s, x)
      BY AppendIsConcat
<1> QED BY <1>1, AppendProperties

LEMMA Rest ==
  ASSUME NEW S, NEW w \in Seq(S), NEW n \in Nat, n <= Len(w)
  PROVE  LET s == SubSeq(w, n + 1, Len(w))
         IN  /\ s \in Seq(S) /\ Len(s) = Len(w) - n
             /\ \A i \in 1 .. Len(w) - n : s[i] = w[n + i]
<1> DEFINE s == SubSeq(w, n + 1, Len(w))
<1>1. Len(w) \in Nat /\ n + 1 \in Int /\ \A i \in n + 1 .. Len(w) : w[i] \in S
  <2>1. Len(w) \in Nat
        BY LenProperties
  <2>2. ASSUME NEW i \in n + 1 .. Len(w) PROVE w[i] \in S
    <3>1. i \in 1 .. Len(w)
          BY <2>1
    <3> QED BY <3>1, ElementOfSeq
  <2> QED BY <2>1, <2>2
<1>2. /\ s \in Seq(S) /\ Len(s) = IF n + 1 <= Len(w) THEN Len(w) - (n + 1) + 1 ELSE 0
      /\ \A i \in 1 .. Len(w) - (n + 1) + 1 : s[i] = w[(n + 1) + i - 1]
      BY <1>1, SubSeqProperties
<1> HIDE DEF s
<1>3. Len(s) = Len(w) - n
      BY <1>1, <1>2
<1>4. ASSUME NEW i \in 1 .. Len(w) - n
      PROVE  s[i] = w[n + i]
  <2>1. i \in 1 .. Len(w) - (n + 1) + 1 /\ (n + 1) + i - 1 = n + i
        BY <1>1
  <2> QED BY <1>2, <2>1
<1>5. /\ s \in Seq(S) /\ Len(s) = Len(w) - n
      /\ \A i \in 1 .. Len(w) - n : s[i] = w[n + i]
      BY <1>2, <1>3, <1>4
<1> QED BY <1>5 DEF s

Values == Statuses \cup Items \cup {"last"}

LEMMA AnswerTyped ==
  ASSUME TypeOK, NEW r \in Ruly
  PROVE  /\ Answer(r) \in Seq(Values) /\ Response(r) \in Seq(Values)
         /\ whole[r] \in Seq(Values)
<1>1. /\ "500" \in Values /\ "200" \in Values /\ "page" \in Values /\ "last" \in Values
      /\ head[r] \in Values /\ Lines \cup Bytes \subseteq Values
      BY Ids DEF Values, Statuses, Items, TypeOK
<1>2. whole[r] \in Seq(Values) /\ Len(whole[r]) \in Nat
  <2>1. whole[r] \in Seq(Lines \cup Bytes)
        BY Locals, Ids
  <2> QED BY <1>1, <2>1
<1>3. Answer(r) \in Seq(Values)
  <2>1. CASE kind[r] = "page"
        BY <1>1, <2>1 DEF Answer
  <2>2. CASE kind[r] = "file"
        BY <1>1, <1>2, <2>2, Prefixed DEF Answer
  <2>3. CASE kind[r] = "cgi" /\ HasHeader(r)
    <3> DEFINE n == CHOOSE i \in DOMAIN whole[r] : Header(whole[r], i)
    <3>1. Header(whole[r], n)
          BY <2>3 DEF HasHeader
    <3> HIDE DEF n
    <3>2. n \in Nat /\ n <= Len(whole[r])
          BY <1>2, <3>1 DEF Header
    <3>3. SubSeq(whole[r], n + 1, Len(whole[r])) \in Seq(Values)
          BY <1>2, <3>2, Rest
    <3>4. Answer(r) = <<"200">> \o SubSeq(whole[r], n + 1, Len(whole[r]))
          BY <2>3 DEF Answer, HasHeader, n
    <3> QED BY <1>1, <3>3, <3>4, Prefixed
  <2>4. CASE kind[r] \notin {"page", "file"} /\ ~(kind[r] = "cgi" /\ HasHeader(r))
        BY <1>1, <2>4 DEF Answer, HasHeader
  <2> QED BY <2>1, <2>2, <2>3, <2>4
<1>4. Response(r) \in Seq(Values)
      BY <1>1, <1>3, Suffixed DEF Response
<1> QED BY <1>2, <1>3, <1>4

\* Of an answer that is a page, a file, or what a program wrote.
LEMMA AnswerIs ==
  ASSUME TypeOK, NEW r \in Ruly, Answering(r), Started(r)
  PROVE  /\ Len(Answer(r)) = 1 + Size(r)
         /\ \A i \in 1 .. 1 + Size(r) : Answer(r)[i] = Stream(r)[i]
<1>1. /\ Base(r) \in Nat /\ Size(r) \in Nat /\ Len(whole[r]) \in Nat
      /\ Taken(r) \in Nat /\ Taken(r) <= Len(whole[r])
      BY Numbers DEF Answering, Known
<1>2. /\ whole[r] \in Seq(Values) /\ "200" \in Values
      BY AnswerTyped DEF Values, Statuses
<1>3. Stream(r)[1] = head[r]
      BY <1>1, LastItem
<1>4. \A i \in 1 .. Size(r) :
        Stream(r)[1 + i] = IF job[r] = "page" THEN "page" ELSE whole[r][Base(r) + i]
  <2> SUFFICES ASSUME NEW i \in 1 .. Size(r)
               PROVE  Stream(r)[1 + i] = IF job[r] = "page" THEN "page"
                                         ELSE whole[r][Base(r) + i]
      OBVIOUS
  <2>1. /\ 1 + i \in Nat /\ 1 + i # 1 /\ 1 + i # Size(r) + 2
        /\ Base(r) + (1 + i) - 1 = Base(r) + i
        BY <1>1
  <2> QED BY <2>1 DEF Stream, Item
<1>5. CASE job[r] = "page"
  <2>1. Answer(r) = <<head[r], "page">>
    <3>1. kind[r] # "file" /\ pc[r] \notin {"fork", "close", "read", "reap"}
          BY <1>5 DEF Answering, Known, AnswerOrder, Started
    <3>2. CASE kind[r] = "page"
          BY <3>2 DEF Answer
    <3>3. CASE kind[r] # "page"
      <4>1. kind[r] = "cgi"
            BY <3>1, <3>3, Ids DEF TypeOK
      <4>2. ~HasHeader(r) /\ head[r] = "500"
            BY <1>5, <3>1, <4>1 DEF Answering, Known, AnswerOrder
      <4> QED BY <4>1, <4>2 DEF Answer, HasHeader
    <3> QED BY <3>2, <3>3
  <2>2. Size(r) = 1 /\ Stream(r)[2] = "page"
        BY <1>5, PageItem DEF Size
  <2>3. \A i \in 1 .. 1 + 1 : i = 1 \/ i = 2
        OBVIOUS
  <2>4. /\ Len(Answer(r)) = 2 /\ Answer(r)[1] = head[r] /\ Answer(r)[2] = "page"
        BY <2>1
  <2> QED BY <1>3, <2>2, <2>3, <2>4
<1>6. CASE job[r] # "page"
  <2> DEFINE w == IF job[r] = "file" THEN whole[r]
                  ELSE SubSeq(whole[r], Base(r) + 1, Len(whole[r]))
  <2>1. Answer(r) = <<head[r]>> \o w
    <3>1. head[r] = "200"
          BY <1>6 DEF Answering, Known, AnswerOrder
    <3>2. CASE job[r] = "file"
          BY <3>1, <3>2 DEF Answer, Answering, Known, AnswerOrder
    <3>3. CASE job[r] # "file"
      <4>1. job[r] = "copy" /\ kind[r] = "cgi"
            BY <1>6, <3>3, Ids DEF TypeOK, Answering, Known, AnswerOrder
      <4>2. Base(r) \in DOMAIN whole[r] /\ Header(whole[r], Base(r))
        <5>1. Base(r) \in 1 .. Taken(r) /\ Header(whole[r], Base(r))
              BY <4>1, BaseIs DEF Answering
        <5>2. Base(r) \in 1 .. Len(whole[r])
              BY <1>1, <5>1
        <5> QED BY <1>2, <5>1, <5>2, LenProperties
      <4>3. Base(r) = CHOOSE i \in DOMAIN whole[r] : Header(whole[r], i)
            BY <4>1 DEF Base
      <4> QED BY <3>1, <4>1, <4>2, <4>3 DEF Answer
    <3> QED BY <3>2, <3>3
  <2>2. /\ w \in Seq(Values) /\ Len(w) = Size(r)
        /\ \A i \in 1 .. Size(r) : w[i] = whole[r][Base(r) + i]
    <3>1. Base(r) <= Len(whole[r]) /\ Size(r) = Len(whole[r]) - Base(r)
      <4>1. Base(r) <= Taken(r)
        <5>1. CASE job[r] = "copy"
          <6>1. Base(r) \in 1 .. Taken(r)
                BY <5>1, BaseIs DEF Answering
          <6> QED BY <1>1, <6>1
        <5>2. CASE job[r] # "copy"
              BY <1>1, <5>2 DEF Base
        <5> QED BY <5>1, <5>2
      <4> QED BY <1>1, <1>6, <4>1 DEF Size
    <3>2. CASE job[r] = "file"
      <4>1. Base(r) = 0 /\ w = whole[r]
            BY <3>2 DEF Base
      <4>2. Size(r) = Len(whole[r])
            BY <1>1, <3>1, <4>1
      <4>3. \A i \in 1 .. Size(r) : Base(r) + i = i
            BY <1>1, <4>1
      <4> QED BY <1>2, <4>1, <4>2, <4>3
    <3>3. CASE job[r] # "file"
          BY <1>1, <1>2, <3>1, <3>3, Rest, SMTT(30)
    <3> QED BY <3>2, <3>3
  <2> HIDE DEF w
  <2>3. head[r] \in Values
        BY Ids DEF Values, TypeOK
  <2>4. /\ Len(Answer(r)) = 1 + Size(r) /\ Answer(r)[1] = head[r]
        /\ \A i \in 1 .. Size(r) : Answer(r)[1 + i] = w[i]
        BY <2>1, <2>2, <2>3, Prefixed
  <2>5. \A i \in 1 .. 1 + Size(r) : i = 1 \/ (i - 1 \in 1 .. Size(r) /\ 1 + (i - 1) = i)
        BY <1>1
  <2>6. \A i \in 1 .. Size(r) : Answer(r)[1 + i] = Stream(r)[1 + i]
        BY <1>4, <1>6, <2>2, <2>4
  <2>7. ASSUME NEW i \in 1 .. 1 + Size(r) PROVE Answer(r)[i] = Stream(r)[i]
    <3>1. CASE i = 1
          BY <1>3, <2>4, <3>1
    <3>2. CASE i # 1
      <4> DEFINE j == i - 1
      <4>1. j \in 1 .. Size(r) /\ 1 + j = i
            BY <2>5, <3>2
      <4> QED BY <2>6, <4>1
    <3> QED BY <3>1, <3>2
  <2> QED BY <2>4, <2>7
<1> QED BY <1>5, <1>6

\* What the client may count on is what the head says.
LEMMA MeasuredIs ==
  ASSUME TypeOK, NEW r \in Ruly, Answering(r), Started(r)
  PROVE  Measured(r) <=> Sized(r)
<1>1. \A n : Header(whole[r], n) => n \in DOMAIN whole[r]
  <2>1. DOMAIN whole[r] = 1 .. Len(whole[r]) /\ Len(whole[r]) \in Nat
        BY AnswerTyped, LenProperties
  <2> QED BY <2>1 DEF Header
<1>2. CASE job[r] = "file"
      BY <1>2 DEF Measured, Sized, Answering, Known, AnswerOrder
<1>3. CASE job[r] = "page"
  <2>1. kind[r] # "file" /\ ~HasHeader(r)
    <3>1. kind[r] # "file" /\ pc[r] \notin {"fork", "close", "read", "reap"}
          BY <1>3 DEF Answering, Known, AnswerOrder, Started
    <3>2. kind[r] = "page" => ~HasHeader(r)
          BY NoHeaderEmpty DEF Answering, Known, SourceOrder, HasHeader
    <3>3. kind[r] = "cgi" => ~HasHeader(r)
          BY <1>3, <3>1 DEF Answering, Known, AnswerOrder
    <3> QED BY <3>1, <3>2, <3>3, Ids DEF TypeOK
  <2> QED BY <1>3, <2>1 DEF Measured, Sized, HasHeader
<1>4. CASE job[r] = "copy"
  <2>1. /\ Header(whole[r], Base(r)) /\ Base(r) \in DOMAIN whole[r] /\ kind[r] # "file"
        /\ \A n \in DOMAIN whole[r] : Header(whole[r], n) => n = Base(r)
        /\ got[r] = "length" <=> \E i \in 1 .. Base(r) : whole[r][i] = "length"
        BY <1>1, <1>4, BaseIs DEF Answering, Known, AnswerOrder
  <2> QED BY <1>4, <2>1 DEF Measured, Sized
<1> QED BY <1>2, <1>3, <1>4, Ids DEF TypeOK

LEMMA ResponseIs ==
  ASSUME TypeOK, NEW r \in Ruly, Answering(r), Started(r)
  PROVE  LET n == 1 + Size(r) + (IF thread[<<r, "enc">>] = "none" THEN 0 ELSE 1)
         IN  Len(Response(r)) = n /\ \A i \in 1 .. n : Response(r)[i] = Stream(r)[i]
<1>1. /\ Answer(r) \in Seq(Values) /\ Size(r) \in Nat /\ "last" \in Values
      /\ Len(Answer(r)) = 1 + Size(r)
      /\ \A i \in 1 .. 1 + Size(r) : Answer(r)[i] = Stream(r)[i]
      BY AnswerTyped, AnswerIs, Numbers DEF Values, Answering, Known
<1>2. thread[<<r, "enc">>] # "none" <=> persistent[r] /\ ~Measured(r)
      BY MeasuredIs DEF Answering, EncodingOrder
<1>3. CASE thread[<<r, "enc">>] = "none"
  <2>1. Response(r) = Answer(r) /\ 1 + Size(r) + 0 = 1 + Size(r)
        BY <1>1, <1>2, <1>3 DEF Response
  <2> QED BY <1>1, <1>3, <2>1
<1>4. CASE thread[<<r, "enc">>] # "none"
  <2>1. Response(r) = Answer(r) \o <<"last">>
        BY <1>2, <1>4 DEF Response
  <2>2. /\ Len(Response(r)) = 1 + Size(r) + 1 /\ Response(r)[1 + Size(r) + 1] = "last"
        /\ \A i \in 1 .. 1 + Size(r) : Response(r)[i] = Answer(r)[i]
        BY <1>1, <2>1, Suffixed
  <2>3. Stream(r)[Size(r) + 2] = "last" /\ 1 + Size(r) + 1 = Size(r) + 2
        BY <1>1, LastItem
  <2>4. \A i \in 1 .. 1 + Size(r) + 1 : i \in 1 .. 1 + Size(r) \/ i = 1 + Size(r) + 1
        BY <1>1
  <2>5. \A i \in 1 .. 1 + Size(r) + 1 : Response(r)[i] = Stream(r)[i]
        BY <1>1, <2>2, <2>3, <2>4
  <2> QED BY <1>4, <2>2, <2>5
<1> QED BY <1>3, <1>4

-----------------------------------------------------------------------------
\* What reached the client is the beginning of the response, and all of it once
\* the handler has returned and the encoder has ended.
LEMMA SentIs ==
  ASSUME TypeOK, NEW r \in Ruly, Answering(r)
  PROVE  /\ Len(out[r]) <= Len(Response(r))
         /\ \A i \in 1 .. Len(out[r]) : out[r][i] \in Received(r, Response(r)[i])
         /\ Served(r) => Len(out[r]) = Len(Response(r))
<1>1. /\ Len(out[r]) \in Nat /\ Len(pipe[<<r, "enc">>]) \in Nat
      /\ Len(Response(r)) \in Nat
      BY Typing, AnswerTyped, LenProperties
<1>2. CASE ~Started(r)
  <2>1. out[r] = << >>
        BY <1>2 DEF Answering, StreamOrder
  <2>2. Len(out[r]) = 0
        BY <2>1
  <2>3. ~Served(r)
        BY <1>2 DEF Served, Started
  <2> QED BY <1>1, <2>2, <2>3
<1>3. CASE Started(r)
  <2> DEFINE more == IF thread[<<r, "enc">>] = "none" THEN 0 ELSE 1
             o == Len(out[r])
             p == Len(pipe[<<r, "enc">>])
             g == Given(r)
             z == Size(r)
             l == Last(r)
             n == Len(Response(r))
  <2>1. n = 1 + z + more /\ \A i \in 1 .. n : Response(r)[i] = Stream(r)[i]
        BY <1>3, ResponseIs
  <2>2. o + p = 1 + g + l /\ \A i \in 1 .. o : out[r][i] \in Received(r, Stream(r)[i])
        BY <1>3 DEF Answering, StreamOrder, Carried, Kept
  <2>3. /\ g \in Nat /\ z \in Nat /\ g <= z /\ o \in Nat /\ p \in Nat /\ n \in Nat
        BY <1>1, Numbers DEF Answering, Known
  <2>4. l \in {0, 1} /\ more \in {0, 1} /\ l <= more
        BY DEF Last
  <2>5. Served(r) => p = 0 /\ g = z /\ l = more
    <3>1. SUFFICES ASSUME Served(r) PROVE p = 0 /\ g = z /\ l = more
          OBVIOUS
    <3>2. pc[r] = "returned" /\ thread[<<r, "enc">>] # "copy"
          BY <3>1 DEF Served, Encoding, Encoders
    <3>3. thread[<<r, "enc">>] \in {"none", "ended"}
          BY <3>2 DEF Answering, Known, Orderly, EncoderOrder
    <3>4. pipe[<<r, "enc">>] = << >>
          BY <3>3 DEF Answering, EncodingOrder
    <3>5. p = 0
          BY <3>4
    <3>6. g = z
          BY <3>2 DEF Answering, StreamOrder
    <3>7. l = more
          BY <3>3 DEF Last
    <3> QED BY <3>5, <3>6, <3>7
  <2> HIDE DEF more, o, p, g, z, l, n
  <2>8. o <= n
        BY <2>1, <2>2, <2>3, <2>4
  <2>9. Served(r) => o = n
        BY <2>1, <2>2, <2>3, <2>4, <2>5
  <2>10. \A i \in 1 .. o : i \in 1 .. n
        BY <2>3, <2>8
  <2>11. \A i \in 1 .. o : out[r][i] \in Received(r, Response(r)[i])
        BY <2>1, <2>2, <2>10
  <2> QED BY <2>8, <2>9, <2>11 DEF o, n
<1> QED BY <1>2, <1>3

\* Every request without faults of its own is sent the answer to it, each item once
\* and in its place, and nothing is missing in the end but what the socket of a slow
\* client had no room for (fileHandler, cgiHandler, fileCopyThread, sendHeader and its
\* encoder), whatever the other requests meet, and however large a pipe is.
THEOREM AnswersAreInOrder == Spec => []AnswersInOrder
<1>1. ASSUME AnswersInv, NEW r \in Ruly
      PROVE  /\ Len(out[r]) <= Len(Response(r))
             /\ \A i \in 1 .. Len(out[r]) : out[r][i] \in Received(r, Response(r)[i])
             /\ Served(r) => Len(out[r]) = Len(Response(r))
  <2>1. TypeOK /\ Answering(r)
        BY <1>1, AllAnswering
  <2> QED BY <2>1, SentIs
<1>2. AnswersInv => AnswersInOrder
      BY <1>1 DEF AnswersInOrder
<1> QED BY <1>2, AnswersAlways, PTL
=============================================================================
