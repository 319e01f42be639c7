--------------------------- MODULE HandlersProofs ---------------------------
(***************************************************************************)
(* What holds of the handlers for any number of requests, any programs and *)
(* files, and any faults of the other requests.                            *)
(***************************************************************************)
EXTENDS Handlers, SequenceTheorems, TLAPS

\* The parts of TypeOK a step of control writes, and those with sequences.
ControlOK ==
  /\ pc \in [Requests -> PCs]
  /\ job \in [Requests -> {"page", "file", "copy"}]
  /\ head \in [Requests -> Statuses]
  /\ persistent \in [Requests -> BOOLEAN]
  /\ kind \in [Requests -> {"page", "file", "cgi"}]
  /\ got \in [Requests -> {"nothing", "header", "length", "wrong"}]
  /\ child \in [Requests -> Children]

SinksOK ==
  /\ fd \in [Requests -> Sinks] /\ copyFd \in [Requests -> Sinks]
  /\ thread \in [Pipes -> Threads]
  /\ writers \in [Pipes -> SUBSET (Requests \cup {Server})]

WholeOK ==
  /\ whole \in [Requests -> Seq(Lines \cup Bytes)]
  /\ given \in [Requests -> Nat] /\ \A r \in Requests : given[r] <= Len(whole[r])

PipeOK ==
  /\ pipe \in [Pipes -> Seq(Lines \cup Bytes \cup {"page"})]
  /\ \A p \in Pipes : Len(pipe[p]) <= Room

Sendable == Statuses \cup Lines \cup Bytes \cup {"page", "last", "lost"}
OutOK == out \in [Requests -> Seq(Sendable)]

LEMMA TypeParts == TypeOK <=> ControlOK /\ SinksOK /\ WholeOK /\ PipeOK /\ OutOK
BY DEF TypeOK, ControlOK, SinksOK, WholeOK, PipeOK, OutOK, Sendable

-----------------------------------------------------------------------------
(* Control.                                                                *)

LEMMA PagesTyped == Pages \subseteq Statuses
<1>1. \A t : normalizePath(t) \in Statuses \cup {"ok"}
      BY DEF normalizePath, Statuses
<1>2. \A t : Executable(t) \in Statuses \cup {"ok"}
      BY <1>1 DEF Executable, Statuses
<1>3. \A t : Readable(t) \subseteq Statuses \cup {"ok"}
      BY <1>1 DEF Readable, Statuses
<1> QED BY <1>2, <1>3 DEF Pages, Statuses

LEMMA PipeIds ==
  ASSUME NEW r \in Requests
  PROVE  /\ Cgi(r) \in Pipes /\ \A e \in Encoders : <<r, e>> \in Pipes
         /\ \A e \in Encoders : <<r, e>> # Cgi(r)
BY DEF Cgi, Pipes, Encoders

LEMMA ControlHandler ==
  ASSUME ControlOK, NEW r \in Requests, HandlerStep(r)
  PROVE  ControlOK'
<1> USE DEF ControlOK, Running, PCs, Children, Statuses, Goto, Page, request, content
<1>1. CASE ServePage(r)
      BY <1>1, PagesTyped DEF ServePage
<1>2. CASE ServeFile(r)
      BY <1>2 DEF ServeFile
<1>3. CASE StartCgi(r)
      BY <1>3 DEF StartCgi
<1>4. CASE SendUnchunked(r)
      BY <1>4 DEF SendUnchunked
<1>5. CASE SendChunked(r)
      BY <1>5 DEF SendChunked
<1>6. CASE WriteHead(r)
      BY <1>6 DEF WriteHead
<1>7. CASE WritePage(r)
      BY <1>7 DEF WritePage, AfterPage
<1>8. CASE PageFails(r)
      BY <1>8 DEF PageFails, AfterPage
<1>9. CASE WriteFile(r)
      BY <1>9 DEF WriteFile, handler
<1>10. CASE CloseFile(r)
      BY <1>10 DEF CloseFile
<1>11. CASE FileReadFails(r)
      BY <1>11 DEF FileReadFails
<1>12. CASE Fork(r)
      BY <1>12 DEF Fork
<1>13. CASE ForkFails(r)
      BY <1>13 DEF ForkFails
<1>14. CASE CloseOwn(r)
      BY <1>14 DEF CloseOwn
<1>15. CASE ReadLine(r)
      BY <1>15 DEF ReadLine, handler
<1>16. CASE ReadBlank(r)
      BY <1>16 DEF ReadBlank
<1>17. CASE ReadMalformed(r)
      BY <1>17 DEF ReadMalformed, Kill
<1>18. CASE ReadEof(r)
      BY <1>18 DEF ReadEof, Kill
<1>19. CASE Reap(r)
      BY <1>19 DEF Reap
<1>20. CASE StartCopy(r)
      BY <1>20 DEF StartCopy
<1>21. CASE StartCopyFails(r)
      BY <1>21 DEF StartCopyFails
<1>22. CASE Waitpid(r)
      BY <1>22 DEF Waitpid
<1>23. CASE WaitpidFails(r)
      BY <1>23 DEF WaitpidFails
<1>24. CASE Join(r)
      BY <1>24 DEF Join
<1>25. CASE CancelCopy(r)
      BY <1>25 DEF CancelCopy
<1>26. CASE UsesGarbage(r)
      BY <1>26 DEF UsesGarbage
<1> QED BY <1>1, <1>2, <1>3, <1>4, <1>5, <1>6, <1>7, <1>8, <1>9, <1>10, <1>11,
           <1>12, <1>13, <1>14, <1>15, <1>16, <1>17, <1>18, <1>19, <1>20, <1>21,
           <1>22, <1>23, <1>24, <1>25, <1>26 DEF HandlerStep

LEMMA ControlChild ==
  ASSUME ControlOK, NEW r \in Requests, ChildStep(r)
  PROVE  ControlOK'
<1> USE DEF ControlOK, Children, handler, request
<1>1. CASE Exec(r)
      BY <1>1 DEF Exec
<1>2. CASE ExecFails(r)
      BY <1>2 DEF ExecFails, Exit
<1>3. CASE ChildWrites(r)
      BY <1>3 DEF ChildWrites
<1>4. CASE ChildExits(r)
      BY <1>4 DEF ChildExits, Exit
<1> QED BY <1>1, <1>2, <1>3, <1>4 DEF ChildStep

LEMMA ControlThreads ==
  ASSUME ControlOK, NEW r \in Requests, NEW e \in Encoders,
         CopierStep(r) \/ EncoderStep(r, e) \/ Cancel(r)
  PROVE  ControlOK'
<1> USE DEF ControlOK, handler, request, content
<1>1. CASE CopierStep(r)
      BY <1>1 DEF CopierStep, Moves, CopierEnds
<1>2. CASE EncoderStep(r, e)
      BY <1>2 DEF EncoderStep, Moves, EncoderEnds
<1>3. CASE Cancel(r)
      BY <1>3 DEF Cancel, Goto, PCs
<1> QED BY <1>1, <1>2, <1>3

LEMMA SinksHandler ==
  ASSUME SinksOK, NEW r \in Requests, HandlerStep(r)
  PROVE  SinksOK'
<1>1. Cgi(r) \in Pipes /\ <<r, "enc">> \in Pipes /\ <<r, "again">> \in Pipes
      BY PipeIds DEF Encoders
<1>2. Encoder(r) \in Encoders
      BY DEF Encoder, Encoders
<1>3. \A f \in Sinks : Closed(r, f) \in [Pipes -> SUBSET (Requests \cup {Server})]
      BY DEF Closed, SinksOK
<1>4. /\ Released(r) \in [Pipes -> SUBSET (Requests \cup {Server})]
      /\ Inherited(r) \in [Pipes -> SUBSET (Requests \cup {Server})]
      BY DEF Released, Inherited, SinksOK
<1> USE <1>1 DEF SinksOK, Sinks, Threads, copies, pipes
<1>5. CASE ServePage(r) \/ ServeFile(r) \/ StartCgi(r)
      BY <1>5 DEF ServePage, ServeFile, StartCgi
<1>6. CASE SendUnchunked(r)
      BY <1>6 DEF SendUnchunked
<1>7. CASE SendChunked(r)
      <2>1. <<r, Encoder(r)>> \in Pipes
            BY <1>2, PipeIds
      <2> QED BY <1>7, <1>2, <2>1 DEF SendChunked
<1>8. CASE WriteHead(r) \/ PageFails(r) \/ WriteFile(r) \/ FileReadFails(r)
      BY <1>8 DEF WriteHead, PageFails, WriteFile, FileReadFails, handler
<1>9. CASE WritePage(r)
      BY <1>9, <1>3 DEF WritePage
<1>10. CASE CloseFile(r)
      BY <1>10 DEF CloseFile
<1>11. CASE Fork(r) \/ ForkFails(r)
      BY <1>11, <1>4 DEF Fork, ForkFails
<1>12. CASE CloseOwn(r)
      BY <1>12 DEF CloseOwn
<1>13. CASE ReadLine(r) \/ ReadBlank(r)
      BY <1>13 DEF ReadLine, ReadBlank, handler
<1>14. CASE ReadMalformed(r) \/ ReadEof(r)
      BY <1>14, <1>4 DEF ReadMalformed, ReadEof, Kill
<1>15. CASE Reap(r) \/ Waitpid(r) \/ WaitpidFails(r)
      BY <1>15 DEF Reap, Waitpid, WaitpidFails
<1>16. CASE StartCopy(r) \/ StartCopyFails(r)
      BY <1>16 DEF StartCopy, StartCopyFails
<1>17. CASE Join(r) \/ CancelCopy(r) \/ UsesGarbage(r)
      BY <1>17 DEF Join, CancelCopy, UsesGarbage
<1> QED BY <1>5, <1>6, <1>7, <1>8, <1>9, <1>10, <1>11, <1>12, <1>13, <1>14, <1>15,
           <1>16, <1>17 DEF HandlerStep

LEMMA SinksOthers ==
  ASSUME SinksOK, NEW r \in Requests, NEW e \in Encoders,
         ChildStep(r) \/ CopierStep(r) \/ EncoderStep(r, e) \/ Cancel(r)
  PROVE  SinksOK'
<1>1. Cgi(r) \in Pipes /\ <<r, e>> \in Pipes
      BY PipeIds
<1>2. \A f \in Sinks : Closed(r, f) \in [Pipes -> SUBSET (Requests \cup {Server})]
      BY DEF Closed, SinksOK
<1>3. Released(r) \in [Pipes -> SUBSET (Requests \cup {Server})]
      BY DEF Released, SinksOK
<1> USE <1>1 DEF SinksOK, Sinks, Threads, copies, pipes, handler
<1>4. CASE ChildStep(r)
      BY <1>3, <1>4 DEF ChildStep, Exec, ExecFails, ChildWrites, ChildExits, Exit
<1>5. CASE Moves(Cgi(r)) \/ EncoderStep(r, e)
      BY <1>5 DEF EncoderStep, Moves, EncoderEnds
<1>6. CASE CopierEnds(r)
      <2>1. writers' \in [Pipes -> SUBSET (Requests \cup {Server})]
            BY <1>2, <1>6 DEF CopierEnds
      <2> QED BY <1>6, <2>1 DEF CopierEnds
<1>7. CASE Cancel(r)
      BY <1>7 DEF Cancel
<1> QED BY <1>4, <1>5, <1>6, <1>7 DEF CopierStep

\* A request has been read nothing of before its file or its program is known.
Fresh(r) ==
  /\ pc[r] \in {"start", "fork"} =>
       given[r] = 0 /\ child[r] = "none" /\ kind[r] # "file" /\ job[r] = "page"
  /\ pc[r] \in {"close", "read", "reap"} => kind[r] # "file"
  /\ job[r] = "file" => kind[r] = "file"
  /\ pc[r] = "file" => job[r] = "file"
  /\ kind[r] = "file" => child[r] = "none"
  /\ child[r] = "forked" => given[r] = 0

AllFresh == \A r \in Requests : Fresh(r)

LEMMA FreshHandler ==
  ASSUME ControlOK, WholeOK, AllFresh, NEW r \in Requests, HandlerStep(r)
  PROVE  AllFresh'
<1> USE DEF AllFresh, Fresh, ControlOK, WholeOK, Goto, Page, request, content
<1>1. CASE ServePage(r) \/ ServeFile(r) \/ StartCgi(r)
      BY <1>1 DEF ServePage, ServeFile, StartCgi
<1>2. CASE SendUnchunked(r) \/ SendChunked(r)
      BY <1>2 DEF SendUnchunked, SendChunked
<1>3. CASE WriteHead(r)
      BY <1>3 DEF WriteHead
<1>4. CASE WritePage(r) \/ PageFails(r)
      BY <1>4 DEF WritePage, PageFails, AfterPage
<1>5. CASE WriteFile(r)
      BY <1>5 DEF WriteFile, handler
<1>6. CASE CloseFile(r) \/ FileReadFails(r)
      BY <1>6 DEF CloseFile, FileReadFails
<1>7. CASE Fork(r)
      BY <1>7 DEF Fork
<1>8. CASE ForkFails(r) \/ CloseOwn(r)
      BY <1>8 DEF ForkFails, CloseOwn
<1>9. CASE ReadLine(r)
      BY <1>9 DEF ReadLine, handler
<1>10. CASE ReadBlank(r)
      BY <1>10 DEF ReadBlank, Reads
<1>11. CASE ReadMalformed(r)
      BY <1>11 DEF ReadMalformed, Kill, Reads
<1>12. CASE ReadEof(r)
      BY <1>12 DEF ReadEof, Kill
<1>13. CASE Reap(r)
      BY <1>13 DEF Reap
<1>14. CASE StartCopy(r) \/ StartCopyFails(r)
      BY <1>14 DEF StartCopy, StartCopyFails
<1>15. CASE Waitpid(r) \/ WaitpidFails(r)
      BY <1>15 DEF Waitpid, WaitpidFails
<1>16. CASE Join(r) \/ CancelCopy(r) \/ UsesGarbage(r)
      BY <1>16 DEF Join, CancelCopy, UsesGarbage
<1> QED BY <1>1, <1>2, <1>3, <1>4, <1>5, <1>6, <1>7, <1>8, <1>9, <1>10, <1>11,
           <1>12, <1>13, <1>14, <1>15, <1>16 DEF HandlerStep

LEMMA FreshOthers ==
  ASSUME ControlOK, WholeOK, AllFresh, NEW r \in Requests, NEW e \in Encoders,
         ChildStep(r) \/ CopierStep(r) \/ EncoderStep(r, e) \/ Cancel(r)
  PROVE  AllFresh'
<1> USE DEF AllFresh, Fresh, ControlOK, WholeOK, handler, request, content
<1>1. CASE Exec(r) \/ ExecFails(r) \/ ChildWrites(r) \/ ChildExits(r)
      BY <1>1 DEF Exec, ExecFails, ChildWrites, ChildExits, Exit
<1>2. CASE CopierStep(r)
      BY <1>2 DEF CopierStep, Moves, CopierEnds
<1>3. CASE EncoderStep(r, e)
      BY <1>3 DEF EncoderStep, Moves, EncoderEnds
<1>4. CASE Cancel(r)
      BY <1>4 DEF Cancel, Goto
<1> QED BY <1>1, <1>2, <1>3, <1>4 DEF ChildStep

LEMMA WholeHandler ==
  ASSUME WholeOK, AllFresh, NEW r \in Requests, HandlerStep(r)
  PROVE  WholeOK'
<1> USE DEF WholeOK, content, handler
<1>1. CASE ServeFile(r)
      <2>1. PICK s \in Files[r] : whole' = [whole EXCEPT ![r] = s]
            BY <1>1 DEF ServeFile
      <2>2. s \in Seq(Lines \cup Bytes) /\ Len(s) >= 0
            BY HandlersAssumption DEF Lines, Bytes
      <2>3. given[r] = 0
            BY <1>1 DEF ServeFile, AllFresh, Fresh
      <2> QED BY <1>1, <2>1, <2>2, <2>3 DEF ServeFile
<1>2. CASE WriteFile(r)
      BY <1>2 DEF WriteFile
<1>3. CASE ServePage(r) \/ StartCgi(r) \/ SendUnchunked(r) \/ SendChunked(r) \/ WriteHead(r)
      BY <1>3 DEF ServePage, StartCgi, SendUnchunked, SendChunked, WriteHead
<1>4. CASE WritePage(r) \/ PageFails(r) \/ CloseFile(r) \/ FileReadFails(r)
      BY <1>4 DEF WritePage, PageFails, CloseFile, FileReadFails
<1>5. CASE Fork(r) \/ ForkFails(r) \/ CloseOwn(r) \/ ReadLine(r) \/ ReadBlank(r)
      BY <1>5 DEF Fork, ForkFails, CloseOwn, ReadLine, ReadBlank
<1>6. CASE ReadMalformed(r) \/ ReadEof(r) \/ Reap(r)
      BY <1>6 DEF ReadMalformed, ReadEof, Reap
<1>7. CASE StartCopy(r) \/ StartCopyFails(r) \/ Waitpid(r) \/ WaitpidFails(r)
      BY <1>7 DEF StartCopy, StartCopyFails, Waitpid, WaitpidFails
<1>8. CASE Join(r) \/ CancelCopy(r) \/ UsesGarbage(r)
      BY <1>8 DEF Join, CancelCopy, UsesGarbage
<1> QED BY <1>1, <1>2, <1>3, <1>4, <1>5, <1>6, <1>7, <1>8 DEF HandlerStep

LEMMA WholeOthers ==
  ASSUME WholeOK, AllFresh, NEW r \in Requests, NEW e \in Encoders,
         ChildStep(r) \/ CopierStep(r) \/ EncoderStep(r, e) \/ Cancel(r)
  PROVE  WholeOK'
<1> USE DEF WholeOK, content
<1>1. CASE Exec(r)
      <2>1. PICK s \in Scripts[r] : whole' = [whole EXCEPT ![r] = s]
            BY <1>1 DEF Exec
      <2>2. s \in Seq(Lines \cup Bytes) /\ Len(s) >= 0
            BY HandlersAssumption DEF Lines, Bytes
      <2>3. given[r] = 0
            BY <1>1 DEF Exec, AllFresh, Fresh
      <2> QED BY <1>1, <2>1, <2>2, <2>3 DEF Exec
<1>2. CASE ExecFails(r) \/ ChildWrites(r) \/ ChildExits(r)
      BY <1>2, SMTT(30) DEF ExecFails, ChildWrites, ChildExits, Exit
<1>3. CASE CopierStep(r) \/ EncoderStep(r, e) \/ Cancel(r)
      BY <1>3 DEF CopierStep, EncoderStep, Moves, CopierEnds, EncoderEnds, Cancel
<1> QED BY <1>1, <1>2, <1>3 DEF ChildStep


-----------------------------------------------------------------------------
(* What is in the pipes and what was sent.                                 *)

Items == Lines \cup Bytes \cup {"page"}

\* What goes into a pipe with room leaves it one that holds no more than Room.
LEMMA PipedTyped ==
  ASSUME NEW q \in [Pipes -> Seq(Items)], \A p \in Pipes : Len(q[p]) <= Room,
         NEW r, NEW f, NEW item \in Items, <<r, f>> \in Pipes => Len(q[<<r, f>>]) < Room
  PROVE  /\ Piped(q, r, f, item) \in [Pipes -> Seq(Items)]
         /\ \A p \in Pipes : Len(Piped(q, r, f, item)[p]) <= Room
<1>1. \A t \in Seq(Items) : Append(t, item) \in Seq(Items) /\ Len(Append(t, item)) = Len(t) + 1
      OBVIOUS
<1>2. Room \in Nat
      BY HandlersAssumption
<1>3. CASE f = "socket"
      BY <1>3 DEF Piped
<1>4. CASE f # "socket" /\ <<r, f>> \notin Pipes
      BY <1>4 DEF Piped
<1>5. CASE f # "socket" /\ <<r, f>> \in Pipes
      <2>1. Piped(q, r, f, item) = [q EXCEPT ![<<r, f>>] = Append(q[<<r, f>>], item)]
            BY <1>5 DEF Piped
      <2>2. Len(Append(q[<<r, f>>], item)) <= Room
            <3>1. q[<<r, f>>] \in Seq(Items) /\ Len(q[<<r, f>>]) \in Nat
                  BY <1>5
            <3> QED BY <1>1, <1>2, <1>5, <3>1
      <2> QED BY <1>1, <1>5, <2>1, <2>2
<1> QED BY <1>3, <1>4, <1>5

LEMMA MovesPipe ==
  ASSUME PipeOK, SinksOK, NEW p \in Pipes, Moves(p)
  PROVE  PipeOK' /\ Head(pipe[p]) \in Items
<1> DEFINE q == [pipe EXCEPT ![p] = Tail(@)]
<1>1. /\ pipe[p] \in Seq(Items) /\ pipe[p] # << >> /\ Len(pipe[p]) <= Room
      /\ Len(pipe[p]) \in Nat
      BY DEF PipeOK, Moves, Items
<1>2. Head(pipe[p]) \in Items /\ Tail(pipe[p]) \in Seq(Items)
        /\ Len(Tail(pipe[p])) = Len(pipe[p]) - 1
      BY <1>1, HeadTailProperties
<1>3. Room \in Nat
      BY HandlersAssumption
<1>4. q \in [Pipes -> Seq(Items)] /\ \A x \in Pipes : Len(q[x]) <= Room
      BY <1>1, <1>2, <1>3 DEF PipeOK, Items
<1>5. <<p[1], Target(p)>> # p
      BY DEF Target, Pipes, SinksOK, Sinks, Encoders
<1>6. <<p[1], Target(p)>> \in Pipes => Len(q[<<p[1], Target(p)>>]) < Room
      BY <1>5 DEF Moves, HasRoom, PipeOK, Pipes, Encoders
<1>7. pipe' = Piped(q, p[1], Target(p), Head(pipe[p]))
      BY DEF Moves
<1> HIDE DEF q
<1>8. /\ pipe' \in [Pipes -> Seq(Items)]
      /\ \A x \in Pipes : Len(pipe'[x]) <= Room
      BY <1>2, <1>4, <1>6, <1>7, PipedTyped
<1> QED BY <1>2, <1>8 DEF PipeOK, Items


LEMMA TailPipe ==
  ASSUME PipeOK, NEW p \in Pipes, pipe[p] # << >>, pipe' = [pipe EXCEPT ![p] = Tail(@)]
  PROVE  PipeOK'
<1>1. /\ pipe[p] \in Seq(Items) /\ Len(pipe[p]) <= Room /\ Len(pipe[p]) \in Nat
      BY DEF PipeOK, Items
<1>2. Tail(pipe[p]) \in Seq(Items) /\ Len(Tail(pipe[p])) = Len(pipe[p]) - 1
      BY <1>1, HeadTailProperties
<1>3. Room \in Nat
      BY HandlersAssumption
<1> QED BY <1>1, <1>2, <1>3 DEF PipeOK, Items

LEMMA PipeHandler ==
  ASSUME PipeOK, SinksOK, NEW r \in Requests, HandlerStep(r)
  PROVE  PipeOK'
<1>0. Cgi(r) \in Pipes
      BY PipeIds
<1>1. CASE WritePage(r)
      <2>1. pipe \in [Pipes -> Seq(Items)] /\ \A p \in Pipes : Len(pipe[p]) <= Room
            BY DEF PipeOK, Items
      <2>2. <<r, fd[r]>> \in Pipes => Len(pipe[<<r, fd[r]>>]) < Room
            BY <1>1 DEF WritePage, HasRoom, Pipes, Encoders
      <2>3. "page" \in Items /\ pipe' = Piped(pipe, r, fd[r], "page")
            BY <1>1 DEF WritePage, Items
      <2>4. pipe' \in [Pipes -> Seq(Items)] /\ \A p \in Pipes : Len(pipe'[p]) <= Room
            BY <2>1, <2>2, <2>3, PipedTyped
      <2> QED BY <2>4 DEF PipeOK, Items
<1>2. CASE ReadLine(r) \/ ReadBlank(r) \/ ReadMalformed(r)
      <2>1. pipe[Cgi(r)] # << >> /\ pipe' = [pipe EXCEPT ![Cgi(r)] = Tail(@)]
            BY <1>2 DEF ReadLine, ReadBlank, ReadMalformed, Reads
      <2> QED BY <1>0, <2>1, TailPipe
<1> USE DEF PipeOK, pipes
<1>3. CASE ServePage(r) \/ ServeFile(r) \/ StartCgi(r) \/ SendUnchunked(r)
             \/ SendChunked(r) \/ WriteHead(r) \/ PageFails(r)
      BY <1>3 DEF ServePage, ServeFile, StartCgi, SendUnchunked, SendChunked, WriteHead,
           PageFails
<1>4. CASE WriteFile(r) \/ CloseFile(r) \/ FileReadFails(r) \/ Fork(r) \/ ForkFails(r)
             \/ CloseOwn(r) \/ ReadEof(r) \/ Reap(r)
      BY <1>4 DEF WriteFile, CloseFile, FileReadFails, Fork, ForkFails, CloseOwn, ReadEof,
           Reap
<1>5. CASE StartCopy(r) \/ StartCopyFails(r) \/ Waitpid(r) \/ WaitpidFails(r)
             \/ Join(r) \/ CancelCopy(r) \/ UsesGarbage(r)
      BY <1>5 DEF StartCopy, StartCopyFails, Waitpid, WaitpidFails, Join, CancelCopy,
           UsesGarbage
<1> QED BY <1>1, <1>2, <1>3, <1>4, <1>5 DEF HandlerStep

LEMMA PipeOthers ==
  ASSUME PipeOK, SinksOK, WholeOK, NEW r \in Requests, NEW e \in Encoders,
         ChildStep(r) \/ CopierStep(r) \/ EncoderStep(r, e) \/ Cancel(r)
  PROVE  PipeOK'
<1>0. Cgi(r) \in Pipes /\ <<r, e>> \in Pipes /\ Room \in Nat
      BY PipeIds, HandlersAssumption
<1>1. CASE ChildWrites(r)
      <2> DEFINE item == whole[r][given[r] + 1]
      <2>1. item \in Items
            BY <1>1 DEF ChildWrites, WholeOK, Items
      <2>2. /\ pipe[Cgi(r)] \in Seq(Items) /\ Len(pipe[Cgi(r)]) \in Nat
            /\ Len(pipe[Cgi(r)]) < Room
            /\ pipe' = [pipe EXCEPT ![Cgi(r)] = Append(@, item)]
            BY <1>0, <1>1 DEF ChildWrites, PipeOK, Items
      <2> HIDE DEF item
      <2>3. Append(pipe[Cgi(r)], item) \in Seq(Items)
              /\ Len(Append(pipe[Cgi(r)], item)) = Len(pipe[Cgi(r)]) + 1
            BY <2>1, <2>2
      <2> QED BY <1>0, <2>2, <2>3 DEF PipeOK, Items
<1>2. CASE Exec(r) \/ ExecFails(r) \/ ChildExits(r) \/ CopierEnds(r) \/ EncoderEnds(r, e)
             \/ Cancel(r)
      BY <1>2 DEF Exec, ExecFails, ChildExits, Exit, CopierEnds, EncoderEnds, Cancel,
           PipeOK, pipes
<1>3. CASE Moves(Cgi(r)) \/ Moves(<<r, e>>)
      BY <1>0, <1>3, MovesPipe
<1> QED BY <1>1, <1>2, <1>3 DEF ChildStep, CopierStep, EncoderStep

\* What is written shows at the end of what one client is sent, or is lost there.
LEMMA Arrives ==
  ASSUME NEW r \in Requests, NEW f, NEW item, Sends(r, f, item) \/ ToClient(r, item)
  PROVE  out' = out \/ \E x \in {item, "lost"} : out' = [out EXCEPT ![r] = Append(@, x)]
BY DEF Sends, ToClient, Received

LEMMA OutArrives ==
  ASSUME OutOK, NEW r \in Requests, NEW f, NEW item \in Sendable,
         Sends(r, f, item) \/ ToClient(r, item)
  PROVE  OutOK'
<1>1. CASE out' = out
      BY <1>1 DEF OutOK
<1>2. ASSUME NEW x \in {item, "lost"}, out' = [out EXCEPT ![r] = Append(@, x)]
      PROVE  OutOK'
      <2>1. x \in Sendable /\ out[r] \in Seq(Sendable)
            BY DEF Sendable, OutOK
      <2> QED BY <1>2, <2>1 DEF OutOK
<1> QED BY <1>1, <1>2, Arrives

LEMMA OutHandler ==
  ASSUME OutOK, ControlOK, WholeOK, NEW r \in Requests, HandlerStep(r)
  PROVE  OutOK'
<1>1. CASE WriteHead(r)
      <2>1. head[r] \in Sendable /\ ToClient(r, head[r])
            BY <1>1 DEF ControlOK, WriteHead, Sendable
      <2> QED BY <2>1, OutArrives
<1>2. CASE WritePage(r)
      <2>1. "page" \in Sendable /\ Sends(r, fd[r], "page")
            BY <1>2 DEF WritePage, Sendable
      <2> QED BY <2>1, OutArrives
<1>3. CASE WriteFile(r)
      <2>1. /\ whole[r][given[r] + 1] \in Sendable
            /\ Sends(r, fd[r], whole[r][given[r] + 1])
            BY <1>3 DEF WriteFile, WholeOK, Sendable
      <2> QED BY <2>1, OutArrives
<1> USE DEF OutOK
<1>4. CASE ServePage(r) \/ ServeFile(r) \/ StartCgi(r) \/ SendUnchunked(r)
             \/ SendChunked(r) \/ PageFails(r) \/ CloseFile(r) \/ FileReadFails(r)
      BY <1>4 DEF ServePage, ServeFile, StartCgi, SendUnchunked, SendChunked, PageFails,
           CloseFile, FileReadFails
<1>5. CASE Fork(r) \/ ForkFails(r) \/ CloseOwn(r) \/ ReadLine(r) \/ ReadBlank(r)
             \/ ReadMalformed(r) \/ ReadEof(r) \/ Reap(r)
      BY <1>5 DEF Fork, ForkFails, CloseOwn, ReadLine, ReadBlank, ReadMalformed, ReadEof,
           Reap
<1>6. CASE StartCopy(r) \/ StartCopyFails(r) \/ Waitpid(r) \/ WaitpidFails(r)
             \/ Join(r) \/ CancelCopy(r) \/ UsesGarbage(r)
      BY <1>6 DEF StartCopy, StartCopyFails, Waitpid, WaitpidFails, Join, CancelCopy,
           UsesGarbage
<1> QED BY <1>1, <1>2, <1>3, <1>4, <1>5, <1>6 DEF HandlerStep

LEMMA OutOthers ==
  ASSUME OutOK, PipeOK, SinksOK, NEW r \in Requests, NEW e \in Encoders,
         ChildStep(r) \/ CopierStep(r) \/ EncoderStep(r, e) \/ Cancel(r)
  PROVE  OutOK'
<1>1. ASSUME NEW p \in Pipes, p[1] = r, Moves(p)
      PROVE  OutOK'
      <2>1. Head(pipe[p]) \in Sendable /\ Sends(r, Target(p), Head(pipe[p]))
            BY <1>1, MovesPipe DEF Items, Moves, Sendable
      <2> QED BY <2>1, OutArrives
<1>2. CASE Moves(Cgi(r)) \/ Moves(<<r, e>>)
      BY <1>1, <1>2, PipeIds DEF Cgi
<1>3. CASE EncoderEnds(r, e)
      <2>1. "last" \in Sendable /\ ToClient(r, "last")
            BY <1>3 DEF EncoderEnds, Sendable
      <2> QED BY <2>1, OutArrives
<1>4. CASE ChildStep(r) \/ CopierEnds(r) \/ Cancel(r)
      BY <1>4 DEF ChildStep, Exec, ExecFails, ChildWrites, ChildExits, Exit, CopierEnds,
           Cancel, OutOK
<1> QED BY <1>2, <1>3, <1>4 DEF CopierStep, EncoderStep


-----------------------------------------------------------------------------
Typed == TypeOK /\ AllFresh

LEMMA TypedInit == Init => Typed
<1> USE DEF Init
<1>1. Init => ControlOK
      BY DEF ControlOK, PCs, Running, Statuses, Children
<1>2. Init => SinksOK
      BY DEF SinksOK, Sinks, Threads
<1>3. Init => WholeOK
      BY DEF WholeOK
<1>4. Init => PipeOK
      BY HandlersAssumption DEF PipeOK
<1>5. Init => OutOK
      BY DEF OutOK
<1>6. Init => AllFresh
      <2> SUFFICES ASSUME Init, NEW r \in Requests PROVE Fresh(r)
            BY DEF AllFresh
      <2>1. /\ pc[r] = "start" /\ given[r] = 0 /\ child[r] = "none"
            /\ kind[r] = "page" /\ job[r] = "page"
            OBVIOUS
      <2> QED BY <2>1 DEF Fresh
<1> QED BY <1>1, <1>2, <1>3, <1>4, <1>5, <1>6, TypeParts DEF Typed

LEMMA TypedNext == Typed /\ [Next]_vars => Typed'
<1> SUFFICES ASSUME Typed, [Next]_vars PROVE Typed'
      OBVIOUS
<1>1. ControlOK /\ SinksOK /\ WholeOK /\ PipeOK /\ OutOK /\ AllFresh
      BY TypeParts DEF Typed
<1>2. ASSUME NEW r \in Requests, HandlerStep(r)
      PROVE  Typed'
      <2>1. ControlOK' /\ SinksOK' /\ WholeOK' /\ PipeOK' /\ OutOK' /\ AllFresh'
            BY <1>1, <1>2, ControlHandler, SinksHandler, WholeHandler, PipeHandler,
               OutHandler, FreshHandler
      <2> QED BY <2>1 DEF Typed, TypeOK, ControlOK, SinksOK, WholeOK, PipeOK, OutOK, Sendable
<1>3. ASSUME NEW r \in Requests, NEW e \in Encoders,
             ChildStep(r) \/ CopierStep(r) \/ EncoderStep(r, e) \/ Cancel(r)
      PROVE  Typed'
      <2>1. ControlOK'
            BY <1>1, <1>3, ControlChild, ControlThreads
      <2>2. SinksOK' /\ WholeOK' /\ PipeOK' /\ OutOK' /\ AllFresh'
            BY <1>1, <1>3, SinksOthers, WholeOthers, PipeOthers, OutOthers, FreshOthers
      <2> QED BY <2>1, <2>2 DEF Typed, TypeOK, ControlOK, SinksOK, WholeOK, PipeOK, OutOK,
              Sendable
<1>4. CASE Next
      BY <1>2, <1>3, <1>4 DEF Next, Encoders
<1>5. CASE UNCHANGED vars
      <2>1. UNCHANGED <<pc, job, head, fd, persistent, kind, whole, given, got, child,
                        copyFd, thread, pipe, writers, out>>
            BY <1>5 DEF vars, handler, request, content, copies, pipes
      <2> QED BY <2>1 DEF Typed, TypeOK, AllFresh, Fresh
<1> QED BY <1>4, <1>5

LEMMA TypedAlways == Spec => []Typed
BY TypedInit, TypedNext, PTL DEF Spec

\* Every variable of the handlers keeps its type, and no pipe ever holds more
\* than it can, whatever the programs write and whichever calls fail.
THEOREM TypeCorrect == Spec => []TypeOK
<1>1. Typed => TypeOK
      BY DEF Typed
<1> QED BY <1>1, TypedAlways, PTL


-----------------------------------------------------------------------------
(* A step for one request leaves the others as they are, but for the       *)
(* children that hold their pipes.                                         *)

Kinds == {"cgi", "enc", "again"}

SameOwn(r) ==
  /\ pc'[r] = pc[r] /\ job'[r] = job[r] /\ head'[r] = head[r] /\ kind'[r] = kind[r]
  /\ persistent'[r] = persistent[r] /\ whole'[r] = whole[r] /\ given'[r] = given[r]
  /\ got'[r] = got[r] /\ child'[r] = child[r] /\ fd'[r] = fd[r] /\ copyFd'[r] = copyFd[r]
  /\ out'[r] = out[r]

SamePipe(r, k) ==
  /\ thread'[<<r, k>>] = thread[<<r, k>>] /\ pipe'[<<r, k>>] = pipe[<<r, k>>]
  /\ \A x \in {r, Server} : x \in writers'[<<r, k>>] <=> x \in writers[<<r, k>>]

Same(r) == SameOwn(r) /\ \A k \in Kinds : SamePipe(r, k)

LEMMA ReleasedKeeps ==
  ASSUME SinksOK, NEW q \in Requests, NEW r \in Requests \ {q}, NEW k \in Kinds
  PROVE  \A x \in {r, Server} :
           /\ x \in Released(q)[<<r, k>>] <=> x \in writers[<<r, k>>]
           /\ x \in Inherited(q)[<<r, k>>] <=> x \in writers[<<r, k>>]
<1>1. <<r, k>> \in Pipes
      BY DEF Pipes, Encoders, Kinds
<1>2. q # Server /\ q # r
      BY HandlersAssumption
<1> QED BY <1>1, <1>2 DEF Released, Inherited

LEMMA ClosedKeeps ==
  ASSUME SinksOK, NEW q \in Requests, NEW r \in Requests \ {q}, NEW k \in Kinds, NEW f
  PROVE  Closed(q, f)[<<r, k>>] = writers[<<r, k>>]
<1>1. <<r, k>> \in Pipes /\ <<r, k>> # <<q, f>>
      BY DEF Pipes, Encoders, Kinds
<1> QED BY <1>1 DEF Closed, SinksOK

LEMMA OwnHandler ==
  ASSUME TypeOK, NEW q \in Requests, NEW r \in Requests \ {q}, HandlerStep(q)
  PROVE  SameOwn(r)
<1> USE DEF SameOwn, TypeOK, Goto, Page, Sends, ToClient, Kill, handler, request, content, copies
<1>1. CASE ServePage(q) \/ ServeFile(q) \/ StartCgi(q)
      BY <1>1 DEF ServePage, ServeFile, StartCgi
<1>2. CASE SendUnchunked(q) \/ SendChunked(q) \/ WriteHead(q)
      BY <1>2 DEF SendUnchunked, SendChunked, WriteHead
<1>3. CASE WritePage(q) \/ PageFails(q)
      BY <1>3 DEF WritePage, PageFails
<1>4. CASE WriteFile(q) \/ CloseFile(q) \/ FileReadFails(q)
      BY <1>4 DEF WriteFile, CloseFile, FileReadFails
<1>5. CASE Fork(q) \/ ForkFails(q) \/ CloseOwn(q)
      BY <1>5 DEF Fork, ForkFails, CloseOwn
<1>6. CASE ReadLine(q) \/ ReadBlank(q)
      BY <1>6 DEF ReadLine, ReadBlank
<1>7. CASE ReadMalformed(q) \/ ReadEof(q)
      BY <1>7 DEF ReadMalformed, ReadEof
<1>8. CASE Reap(q) \/ StartCopy(q) \/ StartCopyFails(q)
      BY <1>8 DEF Reap, StartCopy, StartCopyFails
<1>9. CASE Waitpid(q) \/ WaitpidFails(q)
      BY <1>9 DEF Waitpid, WaitpidFails
<1>10. CASE Join(q) \/ CancelCopy(q) \/ UsesGarbage(q)
      BY <1>10 DEF Join, CancelCopy, UsesGarbage
<1> QED BY <1>1, <1>2, <1>3, <1>4, <1>5, <1>6, <1>7, <1>8, <1>9, <1>10 DEF HandlerStep

LEMMA OwnOthers ==
  ASSUME TypeOK, NEW q \in Requests, NEW r \in Requests \ {q}, NEW e \in Encoders,
         ChildStep(q) \/ CopierStep(q) \/ EncoderStep(q, e) \/ Cancel(q)
  PROVE  SameOwn(r)
<1> USE DEF SameOwn, TypeOK, Goto, Sends, ToClient, handler, request, content
<1>1. CASE ChildStep(q)
      BY <1>1 DEF ChildStep, Exec, ExecFails, ChildWrites, ChildExits, Exit, copies
<1>2. ASSUME NEW p \in Pipes, p[1] = q, Moves(p)
      PROVE  SameOwn(r)
      BY <1>2 DEF Moves, copies
<1>3. CASE Moves(Cgi(q)) \/ Moves(<<q, e>>)
      BY <1>2, <1>3, PipeIds DEF Cgi
<1>4. CASE CopierEnds(q) \/ EncoderEnds(q, e) \/ Cancel(q)
      BY <1>4 DEF CopierEnds, EncoderEnds, Cancel
<1> QED BY <1>1, <1>3, <1>4 DEF CopierStep, EncoderStep

LEMMA PipesHandler ==
  ASSUME TypeOK, NEW q \in Requests, NEW r \in Requests \ {q}, NEW k \in Kinds,
         HandlerStep(q)
  PROVE  SamePipe(r, k)
<1>1. <<r, k>> \in Pipes /\ <<r, k>> # Cgi(q) /\ \A f : <<r, k>> # <<q, f>>
      BY DEF Pipes, Encoders, Kinds, Cgi
<1>2. SinksOK
      BY TypeParts
<1> USE <1>1 DEF SamePipe, TypeOK, copies, pipes, handler
<1>3. CASE ServePage(q) \/ ServeFile(q) \/ StartCgi(q)
      BY <1>3 DEF ServePage, ServeFile, StartCgi
<1>4. CASE SendUnchunked(q) \/ SendChunked(q) \/ WriteHead(q)
      BY <1>4 DEF SendUnchunked, SendChunked, WriteHead
<1>5. CASE WritePage(q)
      BY <1>2, <1>5, ClosedKeeps DEF WritePage, Piped
<1>6. CASE PageFails(q) \/ WriteFile(q) \/ CloseFile(q) \/ FileReadFails(q)
      BY <1>6 DEF PageFails, WriteFile, CloseFile, FileReadFails
<1>7. CASE Fork(q)
      BY <1>2, <1>7, ReleasedKeeps DEF Fork
<1>8. CASE ForkFails(q) \/ CloseOwn(q)
      BY <1>8 DEF ForkFails, CloseOwn
<1>9. CASE ReadLine(q) \/ ReadBlank(q)
      BY <1>9 DEF ReadLine, ReadBlank, Reads
<1>10. CASE ReadMalformed(q) \/ ReadEof(q)
      BY <1>2, <1>10, ReleasedKeeps DEF ReadMalformed, ReadEof, Reads, Kill
<1>11. CASE Reap(q) \/ StartCopy(q) \/ StartCopyFails(q)
      BY <1>11 DEF Reap, StartCopy, StartCopyFails
<1>12. CASE Waitpid(q) \/ WaitpidFails(q)
      BY <1>12 DEF Waitpid, WaitpidFails
<1>13. CASE Join(q) \/ CancelCopy(q) \/ UsesGarbage(q)
      BY <1>13 DEF Join, CancelCopy, UsesGarbage
<1> QED BY <1>3, <1>4, <1>5, <1>6, <1>7, <1>8, <1>9, <1>10, <1>11, <1>12, <1>13
           DEF HandlerStep

LEMMA PipesOthers ==
  ASSUME TypeOK, NEW q \in Requests, NEW r \in Requests \ {q}, NEW k \in Kinds,
         NEW e \in Encoders,
         ChildStep(q) \/ CopierStep(q) \/ EncoderStep(q, e) \/ Cancel(q)
  PROVE  SamePipe(r, k)
<1>1. <<r, k>> \in Pipes /\ <<r, k>> # Cgi(q) /\ \A f : <<r, k>> # <<q, f>>
      BY DEF Pipes, Encoders, Kinds, Cgi
<1>2. SinksOK
      BY TypeParts
<1> USE <1>1 DEF SamePipe, TypeOK, copies, pipes, handler
<1>3. CASE ChildStep(q)
      BY <1>2, <1>3, ReleasedKeeps DEF ChildStep, Exec, ExecFails, ChildWrites, ChildExits,
           Exit
<1>4. ASSUME NEW p \in Pipes, p[1] = q, p # <<r, k>>, Moves(p)
      PROVE  SamePipe(r, k)
      BY <1>4 DEF Moves, Piped
<1>5. CASE Moves(Cgi(q)) \/ Moves(<<q, e>>)
      BY <1>4, <1>5, PipeIds DEF Cgi
<1>6. CASE CopierEnds(q)
      BY <1>2, <1>6, ClosedKeeps DEF CopierEnds
<1>7. CASE EncoderEnds(q, e)
      BY <1>7 DEF EncoderEnds
<1>8. CASE Cancel(q)
      BY <1>8 DEF Cancel
<1> QED BY <1>3, <1>5, <1>6, <1>7, <1>8 DEF CopierStep, EncoderStep

LEMMA StepSame ==
  ASSUME TypeOK, NEW q \in Requests, NEW r \in Requests \ {q}, NEW e \in Encoders,
         \/ HandlerStep(q) \/ ChildStep(q) \/ CopierStep(q) \/ EncoderStep(q, e)
         \/ Cancel(q)
  PROVE  Same(r)
BY OwnHandler, OwnOthers, PipesHandler, PipesOthers DEF Same


-----------------------------------------------------------------------------
(* Where the handler, the child, the copy thread and the encoder of a      *)
(* request without faults can be together.                                 *)

\* What the handler and the copy thread write to.
SinkOrder(r) ==
  /\ fd[r] # "none" <=> pc[r] \in {"head", "page", "file", "copy"}
  /\ {fd[r], copyFd[r]} \subseteq {"none", "socket", "enc"}
  /\ thread[Cgi(r)] \in {"none", "copy", "ended"}
  /\ thread[Cgi(r)] = "copy" <=> copyFd[r] # "none"
  /\ pc[r] \in {"wait", "join"} => thread[Cgi(r)] # "none"
  /\ thread[Cgi(r)] # "none" => pc[r] \in {"wait", "join", "returned"}
  /\ pc[r] = "returned" => copyFd[r] = "none"
  /\ pc[r] \notin {"spin", "cancel", "cancelled", "undefined"}

\* The encoder, whose pipe the server holds as long as it writes to it.
EncoderOrder(r) ==
  /\ thread[<<r, "again">>] = "none"
  /\ thread[<<r, "enc">>] \in {"none", "copy", "ended"}
  /\ pc[r] \in {"start", "fork", "close", "read", "reap", "send"} =>
       thread[<<r, "enc">>] = "none"
  /\ "enc" \in {fd[r], copyFd[r]} => Server \in writers[<<r, "enc">>]
  /\ "socket" \in {fd[r], copyFd[r]} => thread[<<r, "enc">>] = "none"

\* The child, which has said something when its header is accepted, and is
\* waited for before the handler goes on.
ChildOrder(r) ==
  /\ pc[r] \in {"start", "fork", "close", "read", "reap"} => job[r] = "page"
  /\ pc[r] \in {"page", "file", "copy"} => pc[r] = job[r]
  /\ pc[r] \in {"wait", "join"} => job[r] = "copy"
  /\ job[r] = "copy" => got[r] \in {"header", "length"}
  /\ child[r] \in {"none", "forked", "failed"} => got[r] = "nothing" /\ pipe[Cgi(r)] = << >>
  /\ job[r] # "copy" /\ pc[r] \in {"send", "head", "page", "file"} =>
       child[r] \in {"none", "reaped"}
  /\ pc[r] = "join" => child[r] = "reaped"
  /\ pc[r] = "returned" => child[r] \in {"none", "reaped"}

Orderly(r) == SinkOrder(r) /\ EncoderOrder(r) /\ ChildOrder(r)

LEMMA SameOrderly ==
  ASSUME NEW r \in Requests, Orderly(r), Same(r)
  PROVE  Orderly(r)'
<1>1. SinkOrder(r)'
      BY DEF Orderly, SinkOrder, Same, SameOwn, SamePipe, Kinds, Cgi
<1>2. EncoderOrder(r)'
      BY DEF Orderly, EncoderOrder, Same, SameOwn, SamePipe, Kinds
<1>3. ChildOrder(r)'
      BY DEF Orderly, ChildOrder, Same, SameOwn, SamePipe, Kinds, Cgi
<1> QED BY <1>1, <1>2, <1>3 DEF Orderly

LEMMA SinkOwn ==
  ASSUME TypeOK, NEW r \in Ruly, Orderly(r), HandlerStep(r)
  PROVE  SinkOrder(r)'
<1>0. r \in Requests /\ r \notin Unruly /\ Cgi(r) \in Pipes /\ Cgi(r) # <<r, "enc">>
      BY PipeIds DEF Ruly, Encoders
<1>1. Encoder(r) = "enc" \/ pc[r] # "send"
      BY DEF Encoder, Orderly, EncoderOrder
<1> USE <1>0 DEF TypeOK, Orderly, SinkOrder, ChildOrder, Goto, Page, handler, request, copies
<1>2. CASE ServePage(r) \/ ServeFile(r) \/ StartCgi(r)
      BY <1>2 DEF ServePage, ServeFile, StartCgi
<1>3. CASE SendUnchunked(r)
      BY <1>3 DEF SendUnchunked
<1>4. CASE SendChunked(r)
      BY <1>1, <1>4 DEF SendChunked
<1>5. CASE WriteHead(r)
      BY <1>5 DEF WriteHead
<1>6. CASE WritePage(r)
      BY <1>6 DEF WritePage, AfterPage
<1>7. CASE WriteFile(r) \/ CloseFile(r)
      BY <1>7 DEF WriteFile, CloseFile
<1>8. CASE Fork(r) \/ ForkFails(r) \/ CloseOwn(r)
      BY <1>8 DEF Fork, ForkFails, CloseOwn
<1>9. CASE ReadLine(r) \/ ReadBlank(r)
      BY <1>9 DEF ReadLine, ReadBlank, Reads
<1>10. CASE ReadMalformed(r) \/ ReadEof(r)
      BY <1>10 DEF ReadMalformed, ReadEof, Reads, Kill
<1>11. CASE Reap(r)
      BY <1>11 DEF Reap
<1>12. CASE StartCopy(r)
      BY <1>12 DEF StartCopy
<1>13. CASE Waitpid(r)
      BY <1>13 DEF Waitpid
<1>14. CASE Join(r)
      BY <1>14 DEF Join
<1>15. CASE CancelCopy(r) \/ UsesGarbage(r)
      BY <1>15 DEF CancelCopy, UsesGarbage
<1>16. ~(PageFails(r) \/ FileReadFails(r) \/ StartCopyFails(r) \/ WaitpidFails(r))
      BY DEF PageFails, FileReadFails, StartCopyFails, WaitpidFails
<1> QED BY <1>2, <1>3, <1>4, <1>5, <1>6, <1>7, <1>8, <1>9, <1>10, <1>11, <1>12, <1>13,
           <1>14, <1>15, <1>16 DEF HandlerStep

LEMMA EncoderOwn ==
  ASSUME TypeOK, NEW r \in Ruly, Orderly(r), HandlerStep(r)
  PROVE  EncoderOrder(r)'
<1>0. /\ r \in Requests /\ r \notin Unruly /\ r # Server
      /\ Cgi(r) \in Pipes /\ <<r, "enc">> \in Pipes /\ <<r, "again">> \in Pipes
      /\ Cgi(r) # <<r, "enc">> /\ Cgi(r) # <<r, "again">>
      BY PipeIds, HandlersAssumption DEF Ruly, Encoders
<1>1. Encoder(r) = "enc" \/ pc[r] # "send"
      BY DEF Encoder, Orderly, EncoderOrder
<1> USE <1>0 DEF TypeOK, Orderly, EncoderOrder, SinkOrder, Goto, Page, handler, request,
         copies, pipes
<1>2. CASE ServePage(r) \/ ServeFile(r) \/ StartCgi(r)
      BY <1>2 DEF ServePage, ServeFile, StartCgi
<1>3. CASE SendUnchunked(r)
      BY <1>3 DEF SendUnchunked
<1>4. CASE SendChunked(r)
      BY <1>1, <1>4 DEF SendChunked
<1>5. CASE WriteHead(r)
      BY <1>5 DEF WriteHead, ChildOrder
<1>6. CASE WritePage(r)
      BY <1>6 DEF WritePage, AfterPage, Closed
<1>7. CASE WriteFile(r) \/ CloseFile(r)
      BY <1>7 DEF WriteFile, CloseFile
<1>8. CASE Fork(r) \/ ForkFails(r) \/ CloseOwn(r)
      BY <1>8 DEF Fork, ForkFails, CloseOwn
<1>9. CASE ReadLine(r) \/ ReadBlank(r)
      BY <1>9 DEF ReadLine, ReadBlank, Reads
<1>10. CASE ReadMalformed(r) \/ ReadEof(r)
      BY <1>10 DEF ReadMalformed, ReadEof, Reads, Kill
<1>11. CASE Reap(r)
      BY <1>11 DEF Reap
<1>12. CASE StartCopy(r)
      BY <1>12 DEF StartCopy
<1>13. CASE Waitpid(r)
      <2>1. child[r] # "failed"
            BY <1>13 DEF Waitpid, ChildOrder
      <2> QED BY <1>13, <2>1 DEF Waitpid
<1>14. CASE Join(r)
      BY <1>14 DEF Join
<1>15. CASE CancelCopy(r) \/ UsesGarbage(r)
      BY <1>15 DEF CancelCopy, UsesGarbage
<1>16. ~(PageFails(r) \/ FileReadFails(r) \/ StartCopyFails(r) \/ WaitpidFails(r))
      BY DEF PageFails, FileReadFails, StartCopyFails, WaitpidFails
<1> QED BY <1>2, <1>3, <1>4, <1>5, <1>6, <1>7, <1>8, <1>9, <1>10, <1>11, <1>12, <1>13,
           <1>14, <1>15, <1>16 DEF HandlerStep

LEMMA ChildOwn ==
  ASSUME TypeOK, AllFresh, NEW r \in Ruly, Orderly(r), HandlerStep(r)
  PROVE  ChildOrder(r)'
<1>0. /\ r \in Requests /\ r \notin Unruly /\ Cgi(r) \in Pipes
      /\ \A f : <<r, f>> \in Pipes /\ f # "cgi" => <<r, f>> # Cgi(r)
      BY PipeIds DEF Ruly, Cgi
<1>1. Fresh(r)
      BY <1>0 DEF AllFresh
<1> USE <1>0 DEF TypeOK, Orderly, ChildOrder, SinkOrder, Goto, Page, handler, request,
         content, pipes
<1>2. CASE ServePage(r) \/ ServeFile(r) \/ StartCgi(r)
      BY <1>1, <1>2 DEF ServePage, ServeFile, StartCgi, Fresh
<1>3. CASE SendUnchunked(r) \/ SendChunked(r)
      BY <1>3 DEF SendUnchunked, SendChunked
<1>4. CASE WriteHead(r)
      BY <1>4 DEF WriteHead
<1>5. CASE WritePage(r)
      BY <1>5 DEF WritePage, AfterPage, Piped, Cgi
<1>6. CASE WriteFile(r) \/ CloseFile(r)
      BY <1>6 DEF WriteFile, CloseFile
<1>7. CASE Fork(r)
      BY <1>1, <1>7 DEF Fork, Fresh
<1>8. CASE ForkFails(r) \/ CloseOwn(r)
      BY <1>1, <1>8 DEF ForkFails, CloseOwn, Fresh
<1>9. CASE ReadLine(r)
      BY <1>9 DEF ReadLine, Reads
<1>10. CASE ReadBlank(r)
      BY <1>10 DEF ReadBlank, Reads
<1>11. CASE ReadMalformed(r)
      BY <1>11 DEF ReadMalformed, Reads, Kill
<1>12. CASE ReadEof(r)
      BY <1>12 DEF ReadEof, Kill
<1>13. CASE Reap(r)
      BY <1>13 DEF Reap
<1>14. CASE StartCopy(r)
      BY <1>14 DEF StartCopy
<1>15. CASE Waitpid(r)
      BY <1>15 DEF Waitpid
<1>16. CASE Join(r)
      BY <1>16 DEF Join
<1>17. CASE CancelCopy(r) \/ UsesGarbage(r)
      BY <1>17 DEF CancelCopy, UsesGarbage
<1>18. ~(PageFails(r) \/ FileReadFails(r) \/ StartCopyFails(r) \/ WaitpidFails(r))
      BY DEF PageFails, FileReadFails, StartCopyFails, WaitpidFails
<1> QED BY <1>2, <1>3, <1>4, <1>5, <1>6, <1>7, <1>8, <1>9, <1>10, <1>11, <1>12, <1>13,
           <1>14, <1>15, <1>16, <1>17, <1>18 DEF HandlerStep

LEMMA OrderlyOthers ==
  ASSUME TypeOK, AllFresh, NEW r \in Ruly, NEW e \in Encoders, Orderly(r),
         ChildStep(r) \/ CopierStep(r) \/ EncoderStep(r, e)
  PROVE  Orderly(r)'
<1>0. /\ r \in Requests /\ r \notin Unruly /\ r # Server
      /\ Cgi(r) \in Pipes /\ <<r, "enc">> \in Pipes /\ <<r, "again">> \in Pipes
      /\ Cgi(r) # <<r, "enc">> /\ Cgi(r) # <<r, "again">> /\ <<r, "enc">> # <<r, "again">>
      BY PipeIds, HandlersAssumption DEF Ruly, Encoders
<1> USE <1>0 DEF TypeOK, Orderly, SinkOrder, EncoderOrder, ChildOrder
<1>1. CASE Exec(r)
      BY <1>1 DEF Exec, handler, request, copies, pipes
<1>2. CASE ExecFails(r) \/ ChildExits(r)
      <2>1. Server \in Released(r)[<<r, "enc">>] <=> Server \in writers[<<r, "enc">>]
            BY DEF Released
      <2> QED BY <1>2, <2>1 DEF ExecFails, ChildExits, Exit, handler, request, copies
<1>3. CASE ChildWrites(r)
      BY <1>3 DEF ChildWrites, handler, request, copies
<1>4. CASE Moves(Cgi(r))
      <2>1. pipe'[Cgi(r)] = Tail(pipe[Cgi(r)])
            BY <1>4 DEF Moves, Piped, Target, Cgi
      <2>2. child[r] \notin {"none", "forked", "failed"}
            BY <1>4 DEF Moves
      <2> QED BY <1>4, <2>2 DEF Moves, handler, request, content, copies
<1>5. CASE CopierEnds(r)
      BY <1>5 DEF CopierEnds, Closed, AtEof, handler, request, content
<1>6. CASE Moves(<<r, e>>)
      <2>1. pipe'[Cgi(r)] = pipe[Cgi(r)]
            BY <1>6 DEF Moves, Piped, Target, Cgi, Encoders
      <2> QED BY <1>6, <2>1 DEF Moves, handler, request, content, copies
<1>7. CASE EncoderEnds(r, e)
      BY <1>7 DEF EncoderEnds, handler, request, content, pipes, Encoders
<1> QED BY <1>1, <1>2, <1>3, <1>4, <1>5, <1>6, <1>7 DEF ChildStep, CopierStep, EncoderStep

AllOrderly == \A r \in Ruly : Orderly(r)

Inv == Typed /\ AllOrderly

LEMMA InvInit == Init => Inv
<1>1. Init => Typed
      BY TypedInit
<1>2. Init => AllOrderly
      <2> SUFFICES ASSUME Init, NEW r \in Ruly PROVE Orderly(r)
            BY DEF AllOrderly
      <2>1. /\ r \in Requests /\ Cgi(r) \in Pipes /\ <<r, "enc">> \in Pipes
            /\ <<r, "again">> \in Pipes
            BY PipeIds DEF Ruly, Encoders
      <2>2. /\ pc[r] = "start" /\ job[r] = "page" /\ child[r] = "none"
            /\ fd[r] = "none" /\ copyFd[r] = "none" /\ got[r] = "nothing"
            BY <2>1 DEF Init
      <2>3. /\ thread[Cgi(r)] = "none" /\ thread[<<r, "enc">>] = "none"
            /\ thread[<<r, "again">>] = "none" /\ pipe[Cgi(r)] = << >>
            BY <2>1 DEF Init
      <2> QED BY <2>2, <2>3 DEF Orderly, SinkOrder, EncoderOrder, ChildOrder
<1> QED BY <1>1, <1>2 DEF Inv

LEMMA OrderlyStep ==
  ASSUME Inv, NEW q \in Requests, NEW e \in Encoders, NEW r \in Ruly,
         \/ HandlerStep(q) \/ ChildStep(q) \/ CopierStep(q) \/ EncoderStep(q, e)
         \/ Cancel(q)
  PROVE  Orderly(r)'
<1>1. r \in Requests /\ Orderly(r) /\ TypeOK /\ AllFresh
      BY DEF Inv, AllOrderly, Typed, Ruly
<1>2. CASE q # r
      BY <1>1, <1>2, StepSame, SameOrderly
<1>3. CASE q = r
      <2>1. ~Cancel(r)
            BY DEF Cancel, Ruly
      <2>2. CASE HandlerStep(r)
            BY <1>1, <2>2, SinkOwn, EncoderOwn, ChildOwn DEF Orderly
      <2> QED BY <1>1, <1>3, <2>1, <2>2, OrderlyOthers
<1> QED BY <1>2, <1>3

LEMMA InvNext == Inv /\ [Next]_vars => Inv'
<1> SUFFICES ASSUME Inv, [Next]_vars PROVE Inv'
      OBVIOUS
<1>1. Typed'
      BY TypedNext DEF Inv
<1>2. CASE Next
      BY <1>1, <1>2, OrderlyStep DEF Next, Inv, AllOrderly, Encoders
<1>3. CASE UNCHANGED vars
      <2>1. UNCHANGED <<pc, job, head, fd, persistent, kind, whole, given, got, child,
                        copyFd, thread, pipe, writers, out>>
            BY <1>3 DEF vars, handler, request, content, copies, pipes
      <2> QED BY <1>1, <2>1 DEF Inv, AllOrderly, Orderly, SinkOrder, EncoderOrder, ChildOrder
<1> QED BY <1>2, <1>3

LEMMA InvAlways == Spec => []Inv
BY InvInit, InvNext, PTL DEF Spec

\* When cgiHandler returns the child was waited for: no request without faults
\* of its own leaves a process behind, whatever the others do.
THEOREM ChildIsReaped == Spec => []ChildReaped
<1>1. Inv => ChildReaped
      BY DEF Inv, AllOrderly, Orderly, ChildOrder, ChildReaped
<1> QED BY <1>1, InvAlways, PTL


-----------------------------------------------------------------------------
(* The refinement of HandlerPromise: what each of its steps looks like at  *)
(* the request it is for, when the others stay as they are.                *)

Open(r) == fd[r] # "none" \/ copyFd[r] # "none"
En(r) == thread[<<r, "enc">>]
Only(r) == \A s \in Ruly \ {r} : Same(s)

LEMMA SameView ==
  ASSUME NEW s, Same(s)
  PROVE  Phase(s)' = Phase(s) /\ En(s)' = En(s) /\ (Open(s)' <=> Open(s))
BY DEF Same, SameOwn, SamePipe, Kinds, Phase, En, Open

LEMMA ViewStays ==
  ASSUME NEW r, Only(r),
         r \in Ruly => Phase(r)' = Phase(r) /\ En(r)' = En(r) /\ (Open(r)' <=> Open(r))
  PROVE  UNCHANGED Promise!vars
<1>1. \A s \in Ruly : Phase(s)' = Phase(s) /\ En(s)' = En(s) /\ (Open(s)' <=> Open(s))
      BY SameView DEF Only
<1>2. [s \in Ruly |-> Phase(s)]' = [s \in Ruly |-> Phase(s)]
      BY <1>1
<1>3. [s \in Ruly |-> thread[<<s, "enc">>]]' = [s \in Ruly |-> thread[<<s, "enc">>]]
      BY <1>1 DEF En
<1>4. {s \in Ruly : fd[s] # "none" \/ copyFd[s] # "none"}'
        = {s \in Ruly : fd[s] # "none" \/ copyFd[s] # "none"}
      BY <1>1 DEF Open
<1> QED BY <1>2, <1>3, <1>4 DEF Promise!vars

\* The three variables of the promise after a step for r.
LEMMA ViewMoves ==
  ASSUME NEW r \in Ruly, Only(r)
  PROVE  /\ [s \in Ruly |-> Phase(s)]'
               = [[s \in Ruly |-> Phase(s)] EXCEPT ![r] = Phase(r)']
         /\ [s \in Ruly |-> thread[<<s, "enc">>]]'
               = [[s \in Ruly |-> thread[<<s, "enc">>]] EXCEPT ![r] = En(r)']
         /\ {s \in Ruly : fd[s] # "none" \/ copyFd[s] # "none"}'
               = IF Open(r)' THEN {s \in Ruly : fd[s] # "none" \/ copyFd[s] # "none"} \cup {r}
                 ELSE {s \in Ruly : fd[s] # "none" \/ copyFd[s] # "none"} \ {r}
<1>1. \A s \in Ruly \ {r} : Phase(s)' = Phase(s) /\ En(s)' = En(s) /\ (Open(s)' <=> Open(s))
      BY SameView DEF Only
<1>2. [s \in Ruly |-> Phase(s)]' = [[s \in Ruly |-> Phase(s)] EXCEPT ![r] = Phase(r)']
      BY <1>1
<1>3. [s \in Ruly |-> thread[<<s, "enc">>]]'
        = [[s \in Ruly |-> thread[<<s, "enc">>]] EXCEPT ![r] = En(r)']
      BY <1>1 DEF En
<1>4. CASE Open(r)'
      BY <1>1, <1>2, <1>3, <1>4 DEF Open
<1>5. CASE ~Open(r)'
      BY <1>1, <1>2, <1>3, <1>5 DEF Open
<1> QED BY <1>4, <1>5

LEMMA PromiseSends ==
  ASSUME NEW r \in Ruly, Only(r), Phase(r) = "handler", Phase(r)' = "handler", ~Open(r),
         Open(r)', En(r)' \in {"none", "copy"}
  PROVE  Promise!SendHeader(r)
<1>1. Phase(r)' = [s \in Ruly |-> Phase(s)][r]
      OBVIOUS
<1> QED BY <1>1, ViewMoves DEF Promise!SendHeader, Open, En

LEMMA PromiseWrites ==
  ASSUME NEW r \in Ruly, Only(r), Phase(r) = "handler", Phase(r)' = "body", Open(r),
         Open(r)', En(r)' = En(r)
  PROVE  Promise!WriteHead(r)
BY ViewMoves DEF Promise!WriteHead, Open, En

LEMMA PromiseCloses ==
  ASSUME NEW r \in Ruly, Only(r), Phase(r) = "body", Phase(r)' = "body", Open(r),
         ~Open(r)', En(r)' = En(r)
  PROVE  Promise!Close(r)
BY ViewMoves DEF Promise!Close, Open, En

LEMMA PromiseReturns ==
  ASSUME NEW r \in Ruly, Only(r), Phase(r) = "body", Phase(r)' = "end", ~Open(r)',
         En(r)' = En(r)
  PROVE  Promise!Return(r)
BY ViewMoves DEF Promise!Return, Open, En

LEMMA PromiseCopied ==
  ASSUME NEW r \in Ruly, Only(r), Phase(r)' = Phase(r), ~Open(r), ~Open(r)',
         En(r) = "copy", En(r)' = "ended"
  PROVE  Promise!Copied(r)
BY ViewMoves DEF Promise!Copied, Open, En

PromiseStep == Promise!Next \/ UNCHANGED Promise!vars

LEMMA PromiseHandler ==
  ASSUME TypeOK, NEW r \in Ruly, Orderly(r), Orderly(r)', Only(r), HandlerStep(r)
  PROVE  PromiseStep
<1>0. r \in Requests /\ r \notin Unruly /\ <<r, "enc">> \in Pipes /\ <<r, "enc">> # Cgi(r)
      BY PipeIds DEF Ruly, Encoders
<1>1. Encoder(r) = "enc" \/ pc[r] # "send"
      BY DEF Encoder, Orderly, EncoderOrder
<1>2. (Open(r) <=> fd[r] # "none" \/ copyFd[r] # "none") /\ SinkOrder(r) /\ ChildOrder(r)
      BY DEF Open, Orderly
<1>3. (Open(r)' <=> fd'[r] # "none" \/ copyFd'[r] # "none") /\ SinkOrder(r)'
      BY DEF Open, Orderly
<1> USE <1>0 DEF TypeOK, Goto, Page, handler, copies
<1>4. CASE ServePage(r) \/ ServeFile(r) \/ StartCgi(r)
      <2>1. Phase(r)' = Phase(r) /\ En(r)' = En(r) /\ (Open(r)' <=> Open(r))
            BY <1>4 DEF ServePage, ServeFile, StartCgi, Phase, En, Open
      <2> QED BY <2>1, ViewStays DEF PromiseStep
<1>5. CASE SendUnchunked(r)
      <2>1. Phase(r) = "handler" /\ Phase(r)' = "handler" /\ ~Open(r) /\ Open(r)'
            BY <1>2, <1>5 DEF SendUnchunked, Phase, SinkOrder, Open
      <2>2. En(r)' \in {"none", "copy"}
            BY <1>5 DEF SendUnchunked, En, Orderly, EncoderOrder
      <2> QED BY <2>1, <2>2, PromiseSends DEF PromiseStep, Promise!Next
<1>6. CASE SendChunked(r)
      <2>1. Phase(r) = "handler" /\ Phase(r)' = "handler" /\ ~Open(r) /\ Open(r)'
            BY <1>1, <1>2, <1>6 DEF SendChunked, Phase, SinkOrder, Open
      <2>2. En(r)' \in {"none", "copy"}
            BY <1>1, <1>6 DEF SendChunked, En
      <2> QED BY <2>1, <2>2, PromiseSends DEF PromiseStep, Promise!Next
<1>7. CASE WriteHead(r)
      <2>1. Phase(r) = "handler" /\ Phase(r)' = "body" /\ Open(r) /\ Open(r)'
              /\ En(r)' = En(r)
            BY <1>2, <1>7 DEF WriteHead, Phase, SinkOrder, Open, En
      <2> QED BY <2>1, PromiseWrites DEF PromiseStep, Promise!Next
<1>8. CASE WritePage(r) \/ CloseFile(r)
      <2>1. Phase(r) = "body" /\ Phase(r)' = "end"
            BY <1>2, <1>8 DEF WritePage, CloseFile, AfterPage, Phase, SinkOrder
      <2>2. ~Open(r)' /\ En(r)' = En(r)
            BY <1>2, <1>8 DEF WritePage, CloseFile, SinkOrder, Open, En
      <2> QED BY <2>1, <2>2, PromiseReturns DEF PromiseStep, Promise!Next
<1>9. CASE WriteFile(r) \/ Fork(r) \/ ForkFails(r) \/ CloseOwn(r)
      <2>1. Phase(r)' = Phase(r) /\ En(r)' = En(r) /\ (Open(r)' <=> Open(r))
            BY <1>9 DEF WriteFile, Fork, ForkFails, CloseOwn, Phase, En, Open
      <2> QED BY <2>1, ViewStays DEF PromiseStep
<1>10. CASE ReadLine(r) \/ ReadBlank(r) \/ ReadMalformed(r) \/ ReadEof(r) \/ Reap(r)
      <2>1. Phase(r)' = Phase(r) /\ En(r)' = En(r) /\ (Open(r)' <=> Open(r))
            BY <1>10 DEF ReadLine, ReadBlank, ReadMalformed, ReadEof, Reads, Kill, Reap,
                Phase, En, Open
      <2> QED BY <2>1, ViewStays DEF PromiseStep
<1>11. CASE StartCopy(r)
      <2>1. Phase(r)' = Phase(r) /\ En(r)' = En(r) /\ (Open(r)' <=> Open(r))
            BY <1>2, <1>11 DEF StartCopy, SinkOrder, Phase, En, Open
      <2> QED BY <2>1, ViewStays DEF PromiseStep
<1>12. CASE Waitpid(r)
      <2>1. child[r] # "failed"
            BY <1>2, <1>12 DEF Waitpid, ChildOrder
      <2>2. Phase(r)' = Phase(r) /\ En(r)' = En(r) /\ (Open(r)' <=> Open(r))
            BY <1>12, <2>1 DEF Waitpid, Phase, En, Open
      <2> QED BY <2>2, ViewStays DEF PromiseStep
<1>13. CASE Join(r)
      <2>1. Phase(r) = "body" /\ Phase(r)' = "end" /\ ~Open(r)' /\ En(r)' = En(r)
            BY <1>2, <1>13 DEF Join, Phase, SinkOrder, Open, En
      <2> QED BY <2>1, PromiseReturns DEF PromiseStep, Promise!Next
<1>14. ~(CancelCopy(r) \/ UsesGarbage(r))
      BY <1>2 DEF CancelCopy, UsesGarbage, SinkOrder
<1>15. ~(PageFails(r) \/ FileReadFails(r) \/ StartCopyFails(r) \/ WaitpidFails(r))
      BY DEF PageFails, FileReadFails, StartCopyFails, WaitpidFails
<1> QED BY <1>4, <1>5, <1>6, <1>7, <1>8, <1>9, <1>10, <1>11, <1>12, <1>13, <1>14, <1>15
           DEF HandlerStep

LEMMA PromiseOthers ==
  ASSUME TypeOK, NEW r \in Ruly, NEW e \in Encoders, Orderly(r), Only(r),
         ChildStep(r) \/ CopierStep(r) \/ EncoderStep(r, e)
  PROVE  PromiseStep
<1>0. /\ r \in Requests /\ <<r, "enc">> \in Pipes /\ <<r, "enc">> # Cgi(r)
      /\ Cgi(r) \in Pipes
      BY PipeIds DEF Ruly, Encoders
<1>1. SinkOrder(r) /\ EncoderOrder(r)
      BY DEF Orderly
<1> USE <1>0 DEF TypeOK, handler, copies
<1>2. CASE ChildStep(r) \/ Moves(Cgi(r)) \/ Moves(<<r, e>>)
      <2>1. Phase(r)' = Phase(r) /\ En(r)' = En(r) /\ (Open(r)' <=> Open(r))
            BY <1>2 DEF ChildStep, Exec, ExecFails, ChildWrites, ChildExits, Exit, Moves,
               Phase, En, Open
      <2> QED BY <2>1, ViewStays DEF PromiseStep
<1>3. CASE CopierEnds(r)
      <2>1. Phase(r) = "body" /\ Phase(r)' = "body"
            BY <1>1, <1>3 DEF CopierEnds, SinkOrder, Phase
      <2>2. Open(r) /\ ~Open(r)' /\ En(r)' = En(r)
            BY <1>1, <1>3 DEF CopierEnds, SinkOrder, Open, En
      <2> QED BY <2>1, <2>2, PromiseCloses DEF PromiseStep, Promise!Next
<1>4. CASE EncoderEnds(r, e)
      <2>1. e = "enc"
            BY <1>1, <1>4 DEF EncoderEnds, EncoderOrder, Encoders
      <2>2. Phase(r)' = Phase(r) /\ ~Open(r)'
              /\ ~Open(r) /\ En(r) = "copy" /\ En(r)' = "ended"
            BY <1>1, <1>4, <2>1 DEF EncoderEnds, AtEof, SinkOrder, EncoderOrder, Phase, Open, En
      <2> QED BY <2>2, PromiseCopied DEF PromiseStep, Promise!Next
<1> QED BY <1>2, <1>3, <1>4 DEF CopierStep, EncoderStep

LEMMA PromiseNext == Inv /\ Inv' /\ [Next]_vars => [Promise!Next]_Promise!vars
<1> SUFFICES ASSUME Inv, Inv', [Next]_vars PROVE PromiseStep
      BY DEF PromiseStep
<1>1. ASSUME NEW q \in Requests, NEW e \in Encoders,
             \/ HandlerStep(q) \/ ChildStep(q) \/ CopierStep(q) \/ EncoderStep(q, e)
             \/ Cancel(q)
      PROVE  PromiseStep
      <2>1. TypeOK
            BY DEF Inv, Typed
      <2>2. Only(q)
            BY <1>1, <2>1, StepSame DEF Only, Ruly
      <2>3. CASE q \notin Ruly
            BY <2>2, <2>3, ViewStays DEF PromiseStep
      <2>4. CASE q \in Ruly
            <3>1. Orderly(q) /\ Orderly(q)' /\ ~Cancel(q)
                  BY <2>4 DEF Inv, AllOrderly, Cancel, Ruly
            <3> QED BY <1>1, <2>1, <2>2, <2>4, <3>1, PromiseHandler, PromiseOthers
      <2> QED BY <2>3, <2>4
<1>2. CASE Next
      BY <1>1, <1>2 DEF Next, Encoders
<1>3. CASE UNCHANGED vars
      <2>1. UNCHANGED <<pc, fd, copyFd, thread>>
            BY <1>3 DEF vars, handler, copies
      <2>2. UNCHANGED Promise!vars
            BY <2>1 DEF Promise!vars, Phase
      <2> QED BY <2>2 DEF PromiseStep
<1> QED BY <1>2, <1>3

LEMMA PromiseInit == Init => Promise!Init
<1> SUFFICES ASSUME Init PROVE Promise!Init
      OBVIOUS
<1>1. \A r \in Ruly : /\ Phase(r) = "handler" /\ fd[r] = "none" /\ copyFd[r] = "none"
                       /\ thread[<<r, "enc">>] = "none"
      BY PipeIds DEF Init, Phase, Ruly, Encoders
<1> QED BY <1>1 DEF Promise!Init

\* The handlers implement HandlerPromise: one head per request, all that was
\* written to is closed on return, and no encoder is at its end before that.
THEOREM PromiseIsKept == Spec => KeepsPromise
BY PromiseInit, PromiseNext, InvAlways, PTL DEF Spec, KeepsPromise, Promise!Spec


=============================================================================
