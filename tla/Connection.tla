----------------------------- MODULE Connection -----------------------------
(***************************************************************************)
(* The life of the connections of src/networking.c: the listen thread adds *)
(* them, the one data thread reads requests and starts handlers, a request *)
(* thread watches over a response thread that runs the handler, an encoder *)
(* thread chunks its output, and the one cleanup thread aborts and frees.  *)
(*                                                                         *)
(* A critical section on connection->lock whose holder waits for nothing   *)
(* is one action; the lock is only held across actions where the code      *)
(* joins a thread under it.  The two lists are sets that change atomically *)
(* and that a pass visits completely, which LinkedList shows of            *)
(* src/linked.c; requests are counted, not spelled out.                    *)
(*                                                                         *)
(* The first step of undefined behaviour (the lock of a freed connection,  *)
(* pthread_cancel or pthread_join of no thread, strdup of NULL) sets       *)
(* fault; nothing is promised after it and no further step is modelled.    *)
(***************************************************************************)
EXTENDS Integers, FiniteSets

CONSTANTS
  Conns,              \* the connections ever accepted
  MaxRequests,        \* bound: requests a client sends on one connection
  HandlerMayTimeOut,  \* may a handler run longer than sleep(30)?
  MayFail,            \* may pthread_create, dup, pipe, fdopen or malloc fail?
  NULL                \* no connection; no holder of a mutex

ASSUME ConnectionAssumption ==
  /\ MaxRequests \in Nat
  /\ HandlerMayTimeOut \in BOOLEAN /\ MayFail \in BOOLEAN
  /\ NULL \notin Conns \cup {"rq", "rs", "en", "cl"}

VARIABLES
  mem,     \* each connection: not there yet, live, or freed
  conn,    \* the fields of struct connection
  pc,      \* where its request, response and encoder threads are
  cancel,  \* which of them run with a cancellation pending
  client,  \* what its client has sent, and how long ago
  list,    \* connectionList
  toFree,  \* connectionsToFree
  sigio,   \* is a SIGIO pending?
  d,       \* the data thread: pc, link it stands at, links still to visit
  cl,      \* the cleanup thread: the same, and the diffms it computed
  fault,   \* the first undefined behaviour: none, freed, thread or null
  serving, \* history: does a started request hold a use of the connection?
  reason   \* history: why the connection was first aborted

vars == <<mem, conn, pc, cancel, client, list, toFree, sigio, d, cl, fault,
          serving, reason>>

Kinds == {"rq", "rs", "en"}
Slots == {"null", "set", "garbage"}
Running == [rq |-> {"create", "sleep", "stop"},
            rs |-> {"handler", "body", "end", "reset", "stop"},
            en |-> {"copy", "wait", "reset"}]
Finished == {"none", "exit", "dead"}
Locations == Running.rq \cup Running.rs \cup Running.en \cup Finished
Faults == {"none", "freed", "thread", "null"}
DataPCs == {"wait", "next", "lock", "read", "put"}
CleanupPCs == {"wait", "next1", "check", "next2", "stop"}

\* What the listen thread writes into a new struct connection.
NewConn ==
  [state |-> "OPENED", inUse |-> 0, lock |-> NULL, resetOkay |-> NULL,
   fds |-> "open", isPersistent |-> FALSE, isChunked |-> FALSE,
   threads |-> [k \in Kinds |-> "null"]]

Init ==
  /\ mem = [c \in Conns |-> "none"]
  /\ conn = [c \in Conns |-> NewConn]
  /\ pc = [c \in Conns |-> [k \in Kinds |-> "none"]]
  /\ cancel = [c \in Conns |-> [k \in Kinds |-> FALSE]]
  /\ client = [c \in Conns |-> [pending |-> 0, sent |-> 0, eof |-> FALSE, old |-> FALSE]]
  /\ list = {} /\ toFree = {} /\ sigio = FALSE
  /\ d = [pc |-> "wait", at |-> NULL, todo |-> {}]
  /\ cl = [pc |-> "wait", at |-> NULL, todo |-> {}, old |-> FALSE]
  /\ fault = "none"
  /\ serving = [c \in Conns |-> FALSE]
  /\ reason = [c \in Conns |-> "none"]

-----------------------------------------------------------------------------
\* The guards of the steps: a thread is at location l of a sane process.
At(c, k, l) == pc[c][k] = l /\ fault = "none"
DataAt(l) == d.pc = l /\ fault = "none"
CleanupAt(l) == cl.pc = l /\ fault = "none"

Over(c, k) == pc[c][k] \in Finished
Unlocked(c) == conn[c].lock = NULL
Goto(c, k, l) == pc' = [pc EXCEPT ![c][k] = l]

\* Thread k of c ends.
Leave(c, k, l) ==
  /\ Goto(c, k, l)
  /\ cancel' = [cancel EXCEPT ![c][k] = FALSE]

\* A use of the connection is given up.
PutNot(f) == f
Put(f) == [f EXCEPT !.inUse = @ - 1]

lists == <<list, toFree>>
daemons == <<d, cl>>
others == <<mem, client, list, toFree, d, cl>>
history == <<serving, reason>>

\* The data thread, and the first pass of cleanup, turn to the next connection.
DataGoesOn == d' = [d EXCEPT !.pc = "next", !.at = NULL]
PassGoesOn == cl' = [cl EXCEPT !.pc = "next1", !.at = NULL, !.old = FALSE]

\* The id of thread k of c, and what it may be after pthread_create has failed:
\* as it was, or that of a thread that was given up again.
Id(c, k) == conn[c].threads[k]
FailedIds(c, k) == {Id(c, k), "garbage"}

\* stopThread of k, first half, by a thread of c that goes to location l.
Cancel(c, by, l, k) ==
  IF Id(c, k) = "set"
    THEN /\ cancel' = [cancel EXCEPT ![c][k] = ~Over(c, k)]
         /\ Goto(c, by, l)
         /\ fault' = fault
    ELSE /\ fault' = "thread"
         /\ UNCHANGED <<cancel, pc>>

-----------------------------------------------------------------------------
(* Clients, time, and the listen thread                                    *)

ClientSend(c) ==
  /\ fault = "none" /\ mem[c] = "live"
  /\ ~client[c].eof /\ client[c].sent < MaxRequests
  /\ client' = [client EXCEPT ![c].pending = @ + 1, ![c].sent = @ + 1]
  /\ sigio' = TRUE
  /\ UNCHANGED <<mem, conn, pc, cancel, lists, daemons, fault, history>>

ClientClose(c) ==
  /\ fault = "none" /\ mem[c] = "live" /\ ~client[c].eof
  /\ client' = [client EXCEPT ![c].eof = TRUE]
  /\ sigio' = TRUE
  /\ UNCHANGED <<mem, conn, pc, cancel, lists, daemons, fault, history>>

\* The connection's last update becomes older than connectionTimeout.
TimePasses(c) ==
  /\ fault = "none" /\ mem[c] = "live" /\ ~client[c].old
  /\ client' = [client EXCEPT ![c].old = TRUE]
  /\ UNCHANGED <<mem, conn, pc, cancel, lists, sigio, daemons, fault, history>>

\* A pass under way meets the new last link too.
Accept(c) ==
  /\ fault = "none" /\ mem[c] = "none"
  /\ mem' = [mem EXCEPT ![c] = "live"]
  /\ conn' = [conn EXCEPT ![c] = NewConn]
  /\ list' = list \cup {c}
  /\ sigio' = TRUE
  /\ d' = IF d.pc = "wait" THEN d ELSE [d EXCEPT !.todo = @ \cup {c}]
  /\ cl' = IF cl.pc \in {"next1", "check"}
             THEN [cl EXCEPT !.todo = @ \cup {c}] ELSE cl
  /\ UNCHANGED <<pc, cancel, client, toFree, fault, history>>

-----------------------------------------------------------------------------
(* dataThread, dataHandler and startRequestHandler                         *)

DataWake ==
  /\ DataAt("wait") /\ sigio
  /\ sigio' = FALSE
  /\ d' = [pc |-> "next", at |-> NULL, todo |-> list]
  /\ UNCHANGED <<mem, conn, pc, cancel, client, lists, cl, fault, history>>

DataNext ==
  /\ DataAt("next")
  /\ \/ /\ d.todo = {}
        /\ d' = [d EXCEPT !.pc = "wait"]
     \/ \E c \in d.todo :
          d' = [pc |-> "lock", at |-> c, todo |-> d.todo \ {c}]
  /\ UNCHANGED <<mem, conn, pc, cancel, client, lists, sigio, cl, fault, history>>

\* The link keeps the link alive, not the connection it leads to.
DataTouchesFreed ==
  /\ DataAt("lock") /\ mem[d.at] = "freed"
  /\ fault' = "freed"
  /\ UNCHANGED <<mem, conn, pc, cancel, client, lists, sigio, daemons, history>>

\* Of several requests on a connection, one is taken up at a time.
MayReadAlways(c) == TRUE
MayRead(c) == conn[c].state = "OPENED"

DataLock ==
  LET c == d.at
  IN /\ DataAt("lock") /\ mem[c] = "live" /\ Unlocked(c)
     /\ \/ /\ ~MayRead(c)
           /\ DataGoesOn
           /\ conn' = conn
        \/ /\ MayRead(c)
           /\ d' = [d EXCEPT !.pc = "read"]
           /\ conn' = [conn EXCEPT ![c].inUse = @ + 1]
     /\ UNCHANGED <<mem, pc, cancel, client, lists, sigio, cl, fault, history>>

\* The response and encoder threads of the request before have been joined.
PriorJoined(c) ==
  \A k \in {"rs", "en"} : Id(c, k) # "null" => Over(c, k)

\* The header lines of a request have been read, up to the empty one.
HasRequestNot(c) == TRUE
HasRequest(c) == client[c].pending > 0

TakeUp(c) ==
  client' = [client EXCEPT ![c].pending = @ - 1, ![c].old = FALSE]

\* The slots after that, with the new request thread's id in place.
JoinedLosesId(rq) == [rq |-> "null", rs |-> "null", en |-> "null"]
Joined(rq) == [rq |-> rq, rs |-> "null", en |-> "null"]

\* The headers of a request are complete: the state is set, whatever it was,
\* and the use of the data thread becomes the use of the request thread.
DataRequest ==
  LET c == d.at
  IN /\ DataAt("read") /\ PriorJoined(c) /\ HasRequest(c) /\ Unlocked(c)
     /\ TakeUp(c)
     /\ \E p \in BOOLEAN :
          conn' = [conn EXCEPT ![c] =
                    [@ EXCEPT !.isPersistent = p, !.threads = Joined("set"),
                              !.state = IF p THEN "KEEP_ALIVE" ELSE "PROCESSING"]]
     /\ Goto(c, "rq", "create")
     /\ serving' = [serving EXCEPT ![c] = TRUE]
     /\ DataGoesOn
     /\ UNCHANGED <<mem, cancel, lists, sigio, cl, fault, reason>>

\* startRequestHandler notices that pthread_create fails.
DataRequestFails ==
  LET c == d.at
  IN /\ DataAt("read") /\ PriorJoined(c) /\ HasRequest(c) /\ Unlocked(c)
     /\ MayFail
     /\ TakeUp(c)
     /\ \E p \in BOOLEAN, id \in FailedIds(c, "rq") :
          conn' = [conn EXCEPT ![c] = Put([@ EXCEPT !.isPersistent = p,
                                 !.state = "ABORTED", !.threads = Joined(id)])]
     /\ reason' = [reason EXCEPT ![c] = IF @ = "none" THEN "drop" ELSE @]
     /\ DataGoesOn
     /\ UNCHANGED <<mem, pc, cancel, lists, sigio, cl, fault, serving>>

\* EAGAIN; a client may have sent some complete header lines.
DataNothing ==
  LET c == d.at
  IN /\ DataAt("read") /\ PriorJoined(c) /\ Unlocked(c)
     /\ client[c].pending = 0 /\ ~client[c].eof
     /\ \E o \in {client[c].old, FALSE} : client' = [client EXCEPT ![c].old = o]
     /\ conn' = [conn EXCEPT ![c] = Put([@ EXCEPT !.threads = Joined(Id(c, "rq"))])]
     /\ DataGoesOn
     /\ UNCHANGED <<mem, pc, cancel, lists, sigio, cl, fault, history>>

\* End of file, or what is read makes no request.
DataDrop ==
  LET c == d.at
  IN /\ DataAt("read") /\ PriorJoined(c) /\ Unlocked(c)
     /\ client[c].pending > 0 \/ client[c].eof
     /\ conn' = [conn EXCEPT ![c] =
                  [@ EXCEPT !.state = "ABORTED", !.threads = Joined(Id(c, "rq"))]]
     /\ reason' = [reason EXCEPT ![c] = IF @ = "none" THEN "drop" ELSE @]
     /\ d' = [d EXCEPT !.pc = "put"]
     /\ UNCHANGED <<mem, pc, cancel, client, lists, sigio, cl, fault, serving>>

DataPut ==
  LET c == d.at
  IN /\ DataAt("put") /\ Unlocked(c)
     /\ conn' = [conn EXCEPT ![c] = Put(@)]
     /\ DataGoesOn
     /\ UNCHANGED <<mem, pc, cancel, client, lists, sigio, cl, fault, history>>

-----------------------------------------------------------------------------
(* requestThread, and the timeout half of safeEndConnection                *)

RequestStart(c) ==
  /\ At(c, "rq", "create")
  /\ conn' = [conn EXCEPT ![c].threads["rs"] = "set"]
  /\ pc' = [pc EXCEPT ![c]["rs"] = "handler", ![c]["rq"] = "sleep"]
  /\ UNCHANGED <<others, cancel, sigio, fault, history>>

\* The error code is positive, the test is for a negative one.
RequestStartFails(c) ==
  /\ At(c, "rq", "create") /\ MayFail
  /\ \E id \in FailedIds(c, "rs") : conn' = [conn EXCEPT ![c].threads["rs"] = id]
  /\ pc' = [pc EXCEPT ![c]["rs"] = "none", ![c]["rq"] = "sleep"]
  /\ UNCHANGED <<others, cancel, sigio, fault, history>>

\* sleep(30) is over: the handler took longer, or nobody is left who would end
\* the request before (no response thread, or an encoder that gave up or is none).
RequestTimeout(c) ==
  /\ At(c, "rq", "sleep")
  /\ HandlerMayTimeOut \/ (Over(c, "rs") /\ Over(c, "en"))
  /\ Cancel(c, "rq", "stop", "rs")
  /\ UNCHANGED <<others, conn, sigio, history>>

\* The rest of safeEndConnection by thread `self`, which has cancelled `other`:
\* it joins it, closes both descriptors and gives up the use.
SafeEnd(c, self, other) ==
  /\ At(c, self, "stop") /\ Over(c, other) /\ Unlocked(c)
  /\ conn' = [conn EXCEPT ![c] = Put([@ EXCEPT !.threads[other] = "null",
                                              !.fds = "closed"])]
  /\ serving' = [serving EXCEPT ![c] = FALSE]
  /\ Leave(c, self, "exit")
  /\ UNCHANGED <<others, sigio, fault, reason>>

-----------------------------------------------------------------------------
(* responseThread, sendHeader and resetPersistentConnection                *)

\* responseThread up to the handler's call of sendHeader.  A Content-Length, or
\* no persistence, makes the response unchunked.
SendHeader(c) ==
  /\ At(c, "rs", "handler")
  /\ conn' = [conn EXCEPT ![c] =
               [@ EXCEPT !.isChunked = FALSE,
                         !.resetOkay = IF conn[c].isPersistent THEN "rs"
                                      ELSE conn[c].resetOkay]]
  /\ Goto(c, "rs", "body")
  /\ UNCHANGED <<others, cancel, sigio, fault, history>>

SendHeaderChunked(c) ==
  /\ At(c, "rs", "handler") /\ conn[c].isPersistent
  /\ conn' = [conn EXCEPT ![c] =
               [@ EXCEPT !.isChunked = TRUE, !.resetOkay = "rs",
                         !.threads["en"] = "set"]]
  /\ pc' = [pc EXCEPT ![c]["en"] = "copy", ![c]["rs"] = "body"]
  /\ UNCHANGED <<others, cancel, sigio, fault, history>>

\* The failure of pthread_create goes unnoticed here too.
SendHeaderFails(c) ==
  /\ At(c, "rs", "handler") /\ conn[c].isPersistent /\ MayFail
  /\ \E id \in FailedIds(c, "en") :
       conn' = [conn EXCEPT ![c] =
                 [@ EXCEPT !.isChunked = TRUE, !.resetOkay = "rs",
                           !.threads["en"] = id]]
  /\ pc' = [pc EXCEPT ![c]["en"] = "none", ![c]["rs"] = "body"]
  /\ UNCHANGED <<others, cancel, sigio, fault, history>>

\* dup, pipe, malloc or fdopen fails: minimalErrorResponse sets Content-Length
\* to 0, which headers_mod takes for a string and passes to strdup.
SendHeaderRefused(c) ==
  /\ At(c, "rs", "handler") /\ MayFail
  /\ fault' = "null"
  /\ UNCHANGED <<others, conn, pc, cancel, sigio, history>>

\* The handler has closed what it wrote to.
HandlerReturns(c) ==
  /\ At(c, "rs", "body")
  /\ Goto(c, "rs", "end")
  /\ UNCHANGED <<others, conn, cancel, sigio, fault, history>>

\* resetPersistentConnection starts by stopping the request thread.
ResponseReset(c) ==
  /\ At(c, "rs", "end") /\ Unlocked(c)
  /\ conn[c].isPersistent /\ ~conn[c].isChunked
  /\ conn' = [conn EXCEPT ![c] = [@ EXCEPT !.resetOkay = NULL, !.lock = "rs"]]
  /\ Cancel(c, "rs", "reset", "rq")
  /\ UNCHANGED <<others, sigio, history>>

\* The encoder thread will do the reset.
ResponseLeaveKeepsOkay(c) ==
  /\ At(c, "rs", "end") /\ Unlocked(c)
  /\ conn[c].isPersistent /\ conn[c].isChunked
  /\ Leave(c, "rs", "exit")
  /\ UNCHANGED <<others, conn, sigio, fault, history>>

ResponseLeave(c) ==
  /\ At(c, "rs", "end") /\ Unlocked(c)
  /\ conn[c].isPersistent /\ conn[c].isChunked
  /\ conn' = [conn EXCEPT ![c].resetOkay = NULL]
  /\ Leave(c, "rs", "exit")
  /\ UNCHANGED <<others, sigio, fault, history>>

ResponseEnd(c) ==
  /\ At(c, "rs", "end") /\ Unlocked(c) /\ ~conn[c].isPersistent
  /\ Cancel(c, "rs", "stop", "rq")
  /\ UNCHANGED <<others, conn, sigio, history>>

\* The fields after the reset by k, which joined the other two, and the unlock:
\* the connection can take the next request.
Emptied(f, k) == [s \in Kinds |-> IF s = k THEN f.threads[s] ELSE "null"]

ResetFieldsState(f, k) ==
  Put([f EXCEPT !.threads = Emptied(f, k), !.lock = NULL])
ResetFieldsLock(f, k) ==
  Put([f EXCEPT !.threads = Emptied(f, k), !.state = "OPENED"])
ResetFields(f, k) ==
  Put([f EXCEPT !.threads = Emptied(f, k), !.state = "OPENED", !.lock = NULL])

\* The rest of resetPersistentConnection by k.  The data thread is woken, for
\* the client may have sent the next request already.
ResetSilent(c, k) ==
  /\ conn' = [conn EXCEPT ![c] = ResetFields(@, k)]
  /\ client' = [client EXCEPT ![c].old = FALSE]
  /\ serving' = [serving EXCEPT ![c] = FALSE]
  /\ Leave(c, k, "exit")
  /\ UNCHANGED <<mem, list, toFree, d, cl, sigio, fault, reason>>

Reset(c, k) ==
  /\ conn' = [conn EXCEPT ![c] = ResetFields(@, k)]
  /\ client' = [client EXCEPT ![c].old = FALSE]
  /\ serving' = [serving EXCEPT ![c] = FALSE]
  /\ sigio' = TRUE
  /\ Leave(c, k, "exit")
  /\ UNCHANGED <<mem, list, toFree, d, cl, fault, reason>>

ResponseResets(c) ==
  /\ At(c, "rs", "reset") /\ Over(c, "rq")
  /\ Id(c, "en") # "null" => Over(c, "en")
  /\ Reset(c, "rs")

-----------------------------------------------------------------------------
(* chunkedTransferEncodingThread                                           *)

\* The pipe ends when the handler has closed it, which it does before it returns;
\* of one that was cancelled, the thread that copies for it may still do so.
EncoderCopies(c) ==
  /\ At(c, "en", "copy") /\ pc[c]["rs"] \in {"body", "end", "exit", "dead"}
  /\ Goto(c, "en", "wait")
  /\ UNCHANGED <<others, conn, cancel, sigio, fault, history>>

\* dup or fdopen fails: the thread leaves without the reset.
EncoderGivesUp(c) ==
  /\ At(c, "en", "copy") /\ MayFail
  /\ Leave(c, "en", "exit")
  /\ UNCHANGED <<others, conn, sigio, fault, history>>

EncoderLocks(c) ==
  /\ At(c, "en", "wait") /\ conn[c].resetOkay = NULL /\ Unlocked(c)
  /\ conn' = [conn EXCEPT ![c].lock = "en"]
  /\ Cancel(c, "en", "reset", "rq")
  /\ UNCHANGED <<others, sigio, history>>

\* The response thread is joined, not cancelled, and whatever its slot holds.
EncoderResets(c) ==
  /\ At(c, "en", "reset") /\ Over(c, "rq") /\ Over(c, "rs")
  /\ Id(c, "rs") = "set"
  /\ Reset(c, "en")

EncoderJoinsNobody(c) ==
  /\ At(c, "en", "reset") /\ Over(c, "rq") /\ Id(c, "rs") # "set"
  /\ fault' = "thread"
  /\ UNCHANGED <<others, conn, pc, cancel, sigio, history>>

\* A cancelled thread ends where it waits, or where the handler does I/O; the
\* locks it holds stay locked.
CancellationPoints ==
  [rq |-> {"sleep", "stop"}, rs |-> {"handler", "body", "reset", "stop"},
   en |-> {"copy", "reset"}]

Die(c, k) ==
  /\ fault = "none" /\ cancel[c][k] /\ pc[c][k] \in CancellationPoints[k]
  /\ Leave(c, k, "dead")
  /\ UNCHANGED <<others, conn, sigio, fault, history>>

-----------------------------------------------------------------------------
(* cleanupThread and cleanup                                               *)

CleanupWake ==
  /\ CleanupAt("wait")
  /\ cl' = [cl EXCEPT !.pc = "next1", !.todo = list]
  /\ UNCHANGED <<mem, conn, pc, cancel, client, lists, sigio, d, fault, history>>

\* diffms is computed before the connection is locked.
CleanupNext ==
  /\ CleanupAt("next1")
  /\ \/ /\ cl.todo = {}
        /\ cl' = [pc |-> "next2", at |-> NULL, todo |-> toFree, old |-> FALSE]
     \/ \E c \in cl.todo :
          cl' = [pc |-> "check", at |-> c, todo |-> cl.todo \ {c}, old |-> client[c].old]
  /\ UNCHANGED <<mem, conn, pc, cancel, client, lists, sigio, d, fault, history>>

\* An active handler, or a client that may still send: the connection stays.
CleanupKeep ==
  LET c == cl.at
  IN /\ CleanupAt("check") /\ Unlocked(c)
     /\ conn[c].state = "KEEP_ALIVE" \/ (conn[c].state = "OPENED" /\ ~cl.old)
     /\ PassGoesOn
     /\ UNCHANGED <<mem, conn, pc, cancel, client, lists, sigio, d, fault, history>>

\* The client of an idle connection is out of time.
ExpiredServed(c) == conn[c].state \in {"OPENED", "KEEP_ALIVE"} /\ cl.old
Expired(c) == conn[c].state = "OPENED" /\ cl.old

CleanupAbort ==
  LET c == cl.at
  IN /\ CleanupAt("check") /\ Unlocked(c)
     /\ Expired(c)
     /\ conn' = [conn EXCEPT ![c].state = "ABORTED"]
     /\ reason' = [reason EXCEPT ![c] = IF @ = "none" THEN "timeout" ELSE @]
     /\ PassGoesOn
     /\ UNCHANGED <<mem, pc, cancel, client, lists, sigio, d, fault, serving>>

\* Nobody will use the connection for another request.
DoneWithServed(c) == conn[c].state # "OPENED"
DoneWith(c) == conn[c].state \notin {"OPENED", "KEEP_ALIVE"}

\* The connection goes from connectionList to connectionsToFree.
CleanupMove ==
  LET c == cl.at
  IN /\ CleanupAt("check") /\ Unlocked(c)
     /\ DoneWith(c)
     /\ list' = list \ {c} /\ toFree' = toFree \cup {c}
     /\ d' = [d EXCEPT !.todo = @ \ {c}]
     /\ PassGoesOn
     /\ UNCHANGED <<mem, conn, pc, cancel, client, sigio, fault, history>>

\* Nobody works on the connection, or will.
UnusedNot(c) == TRUE
Unused(c) == conn[c].inUse = 0

\* The second pass, over connectionsToFree; nobody else looks at that list.
CleanupExamine ==
  /\ CleanupAt("next2")
  /\ \E c \in cl.todo :
       /\ Unlocked(c)
       /\ \/ /\ ~Unused(c)
             /\ cl' = [cl EXCEPT !.todo = @ \ {c}]
             /\ UNCHANGED <<conn, toFree>>
          \/ /\ Unused(c)
             /\ cl' = [cl EXCEPT !.todo = @ \ {c}, !.at = c, !.pc = "stop"]
             /\ conn' = [conn EXCEPT ![c].lock = "cl"]
             /\ toFree' = toFree \ {c}
  /\ UNCHANGED <<mem, pc, cancel, client, list, sigio, d, fault, history>>

CleanupDone ==
  /\ CleanupAt("next2") /\ cl.todo = {}
  /\ cl' = [cl EXCEPT !.pc = "wait"]
  /\ UNCHANGED <<mem, conn, pc, cancel, client, lists, sigio, d, fault, history>>

\* The threads whose slots cleanup has dealt with when it comes to slot k.
Before(k) == CASE k = "rq" -> {} [] k = "rs" -> {"rq"} [] k = "en" -> {"rq", "rs"}

\* cleanup is past slot k: it was empty, or its thread was joined.
Stopped(c, k) ==
  Id(c, k) = "null" \/ (Id(c, k) = "set" /\ Over(c, k))

\* pthread_cancel of the next thread that still runs, under the lock.
CleanupCancel(k) ==
  LET c == cl.at
  IN /\ CleanupAt("stop") /\ \A j \in Before(k) : Stopped(c, j)
     /\ Id(c, k) = "set" /\ ~Over(c, k) /\ ~cancel[c][k]
     /\ cancel' = [cancel EXCEPT ![c][k] = TRUE]
     /\ UNCHANGED <<mem, conn, pc, client, lists, sigio, daemons, fault, history>>

CleanupStopsNobody(k) ==
  LET c == cl.at
  IN /\ CleanupAt("stop") /\ \A j \in Before(k) : Stopped(c, j)
     /\ Id(c, k) = "garbage"
     /\ fault' = "thread"
     /\ UNCHANGED <<mem, conn, pc, cancel, client, lists, sigio, daemons, history>>

\* All were joined.  An ABORTED connection that is open is answered 408 first.
CleanupFree ==
  LET c == cl.at
  IN /\ CleanupAt("stop") /\ \A k \in Kinds : Stopped(c, k)
     /\ conn' = [conn EXCEPT ![c] = [@ EXCEPT !.fds = "closed", !.lock = NULL]]
     /\ mem' = [mem EXCEPT ![c] = "freed"]
     /\ cl' = [cl EXCEPT !.pc = "next2", !.at = NULL]
     /\ UNCHANGED <<pc, cancel, client, lists, sigio, d, fault, history>>

-----------------------------------------------------------------------------
DataStep ==
  \/ DataWake \/ DataNext \/ DataTouchesFreed \/ DataLock \/ DataRequest
  \/ DataRequestFails \/ DataNothing \/ DataDrop \/ DataPut

RequestStep(c) ==
  \/ RequestStart(c) \/ RequestStartFails(c)
  \/ SafeEnd(c, "rq", "rs") \/ Die(c, "rq")

ResponseStep(c) ==
  \/ SendHeader(c) \/ SendHeaderChunked(c) \/ SendHeaderFails(c)
  \/ SendHeaderRefused(c)
  \/ ResponseReset(c) \/ ResponseLeave(c) \/ ResponseEnd(c) \/ ResponseResets(c)
  \/ SafeEnd(c, "rs", "rq") \/ Die(c, "rs")

EncoderStep(c) ==
  \/ EncoderCopies(c) \/ EncoderGivesUp(c) \/ EncoderLocks(c)
  \/ EncoderResets(c) \/ EncoderJoinsNobody(c) \/ Die(c, "en")

CleanupStep ==
  \/ CleanupWake \/ CleanupNext \/ CleanupKeep \/ CleanupAbort \/ CleanupMove
  \/ CleanupExamine \/ CleanupDone \/ CleanupFree
  \/ \E k \in Kinds : CleanupCancel(k) \/ CleanupStopsNobody(k)

Environment(c) ==
  ClientSend(c) \/ ClientClose(c) \/ TimePasses(c) \/ Accept(c)

Next ==
  \/ DataStep \/ CleanupStep
  \/ \E c \in Conns : \/ RequestStep(c) \/ ResponseStep(c) \/ EncoderStep(c)
                      \/ HandlerReturns(c) \/ RequestTimeout(c)
                      \/ Environment(c)

Spec == Init /\ [][Next]_vars

\* The scheduler runs every thread that can run, SIGALRM comes every second,
\* and every handler returns in time.
FairSpec ==
  /\ Spec
  /\ WF_vars(DataStep) /\ WF_vars(CleanupStep)
  /\ \A c \in Conns : /\ WF_vars(RequestStep(c)) /\ WF_vars(ResponseStep(c))
                      /\ WF_vars(EncoderStep(c)) /\ WF_vars(HandlerReturns(c))

-----------------------------------------------------------------------------
ConnFields ==
  [state : {"OPENED", "PROCESSING", "KEEP_ALIVE", "ABORTED"}, inUse : Int,
   lock : {NULL, "rs", "en", "cl"}, resetOkay : {NULL, "rs"},
   fds : {"open", "closed"}, isPersistent : BOOLEAN, isChunked : BOOLEAN,
   threads : [Kinds -> Slots]]

ClientFields ==
  [pending : 0..MaxRequests, sent : 0..MaxRequests, eof : BOOLEAN, old : BOOLEAN]

LocationsOK ==
  /\ pc \in [Conns -> [Kinds -> Locations]]
  /\ \A c \in Conns : \A k \in Kinds : pc[c][k] \in Running[k] \cup Finished

TypeOK ==
  /\ mem \in [Conns -> {"none", "live", "freed"}]
  /\ conn \in [Conns -> ConnFields]
  /\ LocationsOK
  /\ cancel \in [Conns -> [Kinds -> BOOLEAN]]
  /\ client \in [Conns -> ClientFields]
  /\ list \subseteq Conns /\ toFree \subseteq Conns /\ sigio \in BOOLEAN
  /\ d \in [pc : DataPCs, at : Conns \cup {NULL}, todo : SUBSET Conns]
  /\ cl \in [pc : CleanupPCs, at : Conns \cup {NULL}, todo : SUBSET Conns,
             old : BOOLEAN]
  /\ fault \in Faults
  /\ serving \in [Conns -> BOOLEAN]
  /\ reason \in [Conns -> {"none", "timeout", "drop"}]

\* Does the data thread hold a use of c?
DataUses(c) == d.at = c /\ d.pc \in {"read", "put"}

\* inUse is what stands between a connection and its freeing: it counts the
\* data thread and the request under way, each of them once, however the
\* request ends (networking.c:302, 350, 652, 680, 705, 881).
InUseExact ==
  \A c \in Conns :
    conn[c].inUse = (IF DataUses(c) THEN 1 ELSE 0) + (IF serving[c] THEN 1 ELSE 0)

\* Nobody works on a freed connection: no thread of it runs, the data thread
\* is done with it, and its descriptors are closed (networking.c:98-183).
FreedIsQuiet ==
  \A c \in Conns : mem[c] = "freed" =>
    /\ \A k \in Kinds : Over(c, k)
    /\ ~DataUses(c) /\ ~serving[c] /\ conn[c].fds = "closed"

\* "current request has to be finished for the next to start"
\* (networking.c:700): when a request starts, the three threads of the one before
\* have ended, and the id that is overwritten is of no thread still to be joined.
StartsClean ==
  [][\A c \in Conns : ~serving[c] /\ serving'[c] =>
       Id(c, "rq") = "null" /\ \A k \in Kinds : Over(c, k)]_vars

\* Whoever holds connection->lock across a join will go on to unlock it: "unlock
\* after reset" (networking.c:613), and cleanup before it frees (185).
LockHolderAlive ==
  \A c \in Conns :
    /\ conn[c].lock \in {"rs", "en"} => ~Over(c, conn[c].lock)
    /\ conn[c].lock = "cl" => cl.at = c

\* "KEEP_ALIVE means that the connection is persistent but there is an active
\* handler" (networking.c:73): the cleanup thread leaves such a connection alone
\* because its handler runs, or the request thread is about to start it or to take
\* it down, or the encoder still sends what it wrote.
KeepAliveIsServed ==
  \A c \in Conns :
    mem[c] = "live" /\ conn[c].state = "KEEP_ALIVE" =>
      pc[c]["rq"] \in {"create", "stop"} \/ ~Over(c, "rs") \/ ~Over(c, "en")

\* The cleanup thread frees a connection for a reason only: its one request is
\* over, or it was aborted; a connection kept alive is not lost
\* (networking.c:72-82).
FreedForAReason ==
  \A c \in Conns : mem[c] = "freed" => reason[c] # "none" \/ ~conn[c].isPersistent

\* A connection whose request is being served is never aborted by a timeout
\* of its client ("don't unlink; don't abort connection", networking.c:74).
ServedNotAborted ==
  [][\A c \in Conns : serving[c] /\ conn'[c].state = "ABORTED"
                        => conn[c].state = "ABORTED"]_vars

\* A SIGIO "causes the data handler to check every active connection for new
\* data" (README.md:13, networking.c:696-699): active ones, none that was freed.
LocksLiveConnections == fault # "freed"

\* Only threads that exist are cancelled and joined (networking.c:268-282): no
\* slot is read after it was cleared, or filled by a pthread_create that failed.
StopsRealThreads == fault # "thread"

-----------------------------------------------------------------------------
\* What a connection is, threads and locks aside.
Life == [c \in Conns |->
  CASE mem[c] = "none" -> "none"
    [] mem[c] = "freed" -> "freed"
    [] OTHER -> IF serving[c] THEN "busy"
                ELSE IF conn[c].state = "OPENED" THEN "idle" ELSE "closing"]

Promise == INSTANCE ConnectionLifecycle WITH life <- Life

\* The threads, locks and lists together take a connection through its life
\* the way ConnectionLifecycle says: never from busy to freed.
KeepsLifecycle == Promise!Spec

\* Has c been given up, or the process gone wrong?
GivenUp(c) == fault # "none" \/ mem[c] = "freed" \/ conn[c].state = "ABORTED"

\* A request sent on an open connection is taken up in the end, pipelined or
\* not: no SIGIO is lost between the data thread's passes and the resets
\* (networking.c:352-354, 885-893).
RequestsTakenUp ==
  \A c \in Conns :
    client[c].pending > 0 ~> client[c].pending = 0 \/ GivenUp(c)

\* A connection its client has closed is freed in the end (networking.c:849-854,
\* 56-197), whatever threads it has and whichever of the two lists it is in.
ClosedIsFreed ==
  \A c \in Conns : client[c].eof ~> fault # "none" \/ mem[c] = "freed"

\* A request that was taken up ends, and gives up its use of the connection: the
\* response thread, the encoder and the request thread do not wait for each
\* other in a circle (networking.c:313-325, 414-421, 618).
RequestsEnd ==
  \A c \in Conns : serving[c] ~> fault # "none" \/ ~serving[c]
=============================================================================
