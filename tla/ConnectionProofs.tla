-------------------------- MODULE ConnectionProofs --------------------------
(***************************************************************************)
(* What holds of the connections of src/networking.c for any number of     *)
(* them, of requests, of timeouts and of failures: a connection's uses are *)
(* counted exactly, it is freed only when nobody works on it and for a     *)
(* reason, and its requests do not overlap; and, as long as handlers return *)
(* in time, the holder of its lock gives it back, and its handler is there. *)
(***************************************************************************)
EXTENDS Connection, TLAPS

\* While the data thread or the cleanup thread stands at a connection, it does.
Standing ==
  /\ d.pc \in {"lock", "read", "put"} => d.at \in Conns
  /\ cl.pc \in {"check", "stop"} => cl.at \in Conns

\* A client waits for no more requests than it has sent.
ClientsOK ==
  /\ client \in [Conns -> ClientFields]
  /\ \A c \in Conns : client[c].pending <= client[c].sent

Typed == TypeOK /\ Standing /\ ClientsOK

-----------------------------------------------------------------------------
(* The fields that a step writes are of their types.                       *)

LEMMA PutTyped == \A f \in ConnFields : Put(f) \in ConnFields
BY DEF ConnFields, Put

LEMMA JoinedTyped ==
  ASSUME NEW id \in Slots PROVE Joined(id) \in [Kinds -> Slots]
BY DEF Joined, Kinds, Slots

LEMMA IdTyped ==
  ASSUME conn \in [Conns -> ConnFields], NEW c \in Conns, NEW k \in Kinds
  PROVE  Id(c, k) \in Slots
BY DEF Id, ConnFields

LEMMA DataLockConn ==
  ASSUME conn \in [Conns -> ConnFields], d.at \in Conns, DataLock
  PROVE  conn' \in [Conns -> ConnFields]
<1>1. \A f \in ConnFields : [f EXCEPT !.inUse = @ + 1] \in ConnFields
      BY DEF ConnFields
<1> QED BY <1>1 DEF DataLock

LEMMA DataRequestConn ==
  ASSUME conn \in [Conns -> ConnFields], d.at \in Conns, DataRequest
  PROVE  conn' \in [Conns -> ConnFields]
<1> DEFINE c == d.at
<1>1. PICK p \in BOOLEAN : conn' = [conn EXCEPT ![c] =
        [@ EXCEPT !.isPersistent = p, !.threads = Joined("set"),
                  !.state = IF p THEN "KEEP_ALIVE" ELSE "PROCESSING"]]
      BY DEF DataRequest
<1>2. conn[c] \in ConnFields /\ Joined("set") \in [Kinds -> Slots]
      BY JoinedTyped DEF Slots
<1>3. [conn[c] EXCEPT !.isPersistent = p, !.threads = Joined("set"),
                      !.state = IF p THEN "KEEP_ALIVE" ELSE "PROCESSING"]
        \in ConnFields
      BY <1>2 DEF ConnFields
<1> QED BY <1>1, <1>3

LEMMA DataRequestFailsConn ==
  ASSUME conn \in [Conns -> ConnFields], d.at \in Conns, DataRequestFails
  PROVE  conn' \in [Conns -> ConnFields]
<1> DEFINE c == d.at
<1>1. PICK p \in BOOLEAN, id \in FailedIds(c, "rq") : conn' = [conn EXCEPT ![c] =
        Put([@ EXCEPT !.isPersistent = p, !.state = "ABORTED",
                      !.threads = Joined(id)])]
      BY DEF DataRequestFails
<1>2. conn[c] \in ConnFields /\ id \in Slots
      BY DEF FailedIds, Id, ConnFields, Kinds, Slots
<1>3. Joined(id) \in [Kinds -> Slots]
      BY <1>2, JoinedTyped
<1>4. [conn[c] EXCEPT !.isPersistent = p, !.state = "ABORTED",
                      !.threads = Joined(id)] \in ConnFields
      BY <1>2, <1>3 DEF ConnFields
<1> QED BY <1>1, <1>4, PutTyped

LEMMA DataNothingConn ==
  ASSUME conn \in [Conns -> ConnFields], d.at \in Conns, DataNothing
  PROVE  conn' \in [Conns -> ConnFields]
<1> DEFINE c == d.at
<1>1. conn' = [conn EXCEPT ![c] = Put([@ EXCEPT !.threads = Joined(Id(c, "rq"))])]
      BY DEF DataNothing
<1>2. conn[c] \in ConnFields /\ Joined(Id(c, "rq")) \in [Kinds -> Slots]
      BY JoinedTyped, IdTyped DEF Kinds
<1>3. [conn[c] EXCEPT !.threads = Joined(Id(c, "rq"))] \in ConnFields
      BY <1>2 DEF ConnFields
<1> QED BY <1>1, <1>3, PutTyped

LEMMA DataDropConn ==
  ASSUME conn \in [Conns -> ConnFields], d.at \in Conns, DataDrop
  PROVE  conn' \in [Conns -> ConnFields]
<1> DEFINE c == d.at
<1>1. conn' = [conn EXCEPT ![c] =
                 [@ EXCEPT !.state = "ABORTED", !.threads = Joined(Id(c, "rq"))]]
      BY DEF DataDrop
<1>2. conn[c] \in ConnFields /\ Joined(Id(c, "rq")) \in [Kinds -> Slots]
      BY JoinedTyped, IdTyped DEF Kinds
<1>3. [conn[c] EXCEPT !.state = "ABORTED", !.threads = Joined(Id(c, "rq"))] \in ConnFields
      BY <1>2 DEF ConnFields
<1> QED BY <1>1, <1>3

LEMMA DataPutConn ==
  ASSUME conn \in [Conns -> ConnFields], d.at \in Conns, DataPut
  PROVE  conn' \in [Conns -> ConnFields]
BY PutTyped DEF DataPut

LEMMA RequestStartConn ==
  ASSUME conn \in [Conns -> ConnFields], NEW c \in Conns, RequestStart(c)
  PROVE  conn' \in [Conns -> ConnFields]
<1>1. \A f \in ConnFields : [f EXCEPT !.threads["rs"] = "set"] \in ConnFields
      BY DEF ConnFields, Kinds, Slots
<1> QED BY <1>1 DEF RequestStart

LEMMA RequestStartFailsConn ==
  ASSUME conn \in [Conns -> ConnFields], NEW c \in Conns, RequestStartFails(c)
  PROVE  conn' \in [Conns -> ConnFields]
<1>1. FailedIds(c, "rs") \subseteq Slots
      BY DEF FailedIds, Id, ConnFields, Kinds, Slots
<1>2. \A f \in ConnFields, id \in Slots : [f EXCEPT !.threads["rs"] = id] \in ConnFields
      BY DEF ConnFields, Kinds
<1> QED BY <1>1, <1>2 DEF RequestStartFails

LEMMA SafeEndConn ==
  ASSUME conn \in [Conns -> ConnFields], NEW c \in Conns, NEW k \in Kinds,
           NEW j \in Kinds, SafeEnd(c, k, j)
  PROVE  conn' \in [Conns -> ConnFields]
<1>1. \A f \in ConnFields : [f EXCEPT !.threads[j] = "null", !.fds = "closed"] \in ConnFields
      BY DEF ConnFields, Slots
<1> QED BY <1>1, PutTyped DEF SafeEnd

LEMMA SendHeaderConn ==
  ASSUME conn \in [Conns -> ConnFields], NEW c \in Conns, SendHeader(c)
  PROVE  conn' \in [Conns -> ConnFields]
<1>1. conn' = [conn EXCEPT ![c] =
                 [@ EXCEPT !.isChunked = FALSE,
                           !.resetOkay = IF conn[c].isPersistent THEN "rs" ELSE conn[c].resetOkay]]
      BY DEF SendHeader
<1>2. conn[c] \in ConnFields
      OBVIOUS
<1>3. [conn[c] EXCEPT !.isChunked = FALSE,
                      !.resetOkay = IF conn[c].isPersistent THEN "rs" ELSE conn[c].resetOkay]
        \in ConnFields
      BY <1>2 DEF ConnFields
<1> QED BY <1>1, <1>3

LEMMA SendHeaderChunkedConn ==
  ASSUME conn \in [Conns -> ConnFields], NEW c \in Conns, SendHeaderChunked(c)
  PROVE  conn' \in [Conns -> ConnFields]
<1>1. \A f \in ConnFields : 
        [f EXCEPT !.isChunked = TRUE, !.resetOkay = "rs",
                  !.threads["en"] = "set"] \in ConnFields
      BY DEF ConnFields, Kinds, Slots
<1> QED BY <1>1 DEF SendHeaderChunked

LEMMA SendHeaderFailsConn ==
  ASSUME conn \in [Conns -> ConnFields], NEW c \in Conns, SendHeaderFails(c)
  PROVE  conn' \in [Conns -> ConnFields]
<1>1. PICK id \in FailedIds(c, "en") : conn' = [conn EXCEPT ![c] =
        [@ EXCEPT !.isChunked = TRUE, !.resetOkay = "rs", !.threads["en"] = id]]
      BY DEF SendHeaderFails
<1>2. conn[c] \in ConnFields /\ id \in Slots
      BY DEF FailedIds, Id, ConnFields, Kinds, Slots
<1>3. [conn[c] EXCEPT !.isChunked = TRUE, !.resetOkay = "rs", !.threads["en"] = id]
        \in ConnFields
      BY <1>2 DEF ConnFields, Kinds
<1> QED BY <1>1, <1>3

LEMMA ResponseResetConn ==
  ASSUME conn \in [Conns -> ConnFields], NEW c \in Conns, ResponseReset(c)
  PROVE  conn' \in [Conns -> ConnFields]
<1>1. \A f \in ConnFields : [f EXCEPT !.resetOkay = NULL, !.lock = "rs"] \in ConnFields
      BY DEF ConnFields
<1> QED BY <1>1 DEF ResponseReset

LEMMA ResponseLeaveConn ==
  ASSUME conn \in [Conns -> ConnFields], NEW c \in Conns, ResponseLeave(c)
  PROVE  conn' \in [Conns -> ConnFields]
<1>1. \A f \in ConnFields : [f EXCEPT !.resetOkay = NULL] \in ConnFields
      BY DEF ConnFields
<1> QED BY <1>1 DEF ResponseLeave

LEMMA ResetConn ==
  ASSUME conn \in [Conns -> ConnFields], NEW c \in Conns, NEW k \in Kinds, Reset(c, k)
  PROVE  conn' \in [Conns -> ConnFields]
<1>1. ASSUME NEW f \in ConnFields PROVE ResetFields(f, k) \in ConnFields
  <2>1. Emptied(f, k) \in [Kinds -> Slots] BY DEF Emptied, ConnFields, Slots
  <2>2. [f EXCEPT !.threads = Emptied(f, k), !.state = "OPENED", !.lock = NULL] \in ConnFields
        BY <2>1 DEF ConnFields
  <2> QED BY <2>2, PutTyped DEF ResetFields
<1> QED BY <1>1 DEF Reset

LEMMA EncoderLocksConn ==
  ASSUME conn \in [Conns -> ConnFields], NEW c \in Conns, EncoderLocks(c)
  PROVE  conn' \in [Conns -> ConnFields]
<1>1. \A f \in ConnFields : [f EXCEPT !.lock = "en"] \in ConnFields
      BY DEF ConnFields
<1> QED BY <1>1 DEF EncoderLocks

LEMMA CleanupAbortConn ==
  ASSUME conn \in [Conns -> ConnFields], cl.at \in Conns, CleanupAbort
  PROVE  conn' \in [Conns -> ConnFields]
<1>1. \A f \in ConnFields : [f EXCEPT !.state = "ABORTED"] \in ConnFields
      BY DEF ConnFields
<1> QED BY <1>1 DEF CleanupAbort

LEMMA CleanupExamineConn ==
  ASSUME conn \in [Conns -> ConnFields], CleanupExamine
  PROVE  conn' \in [Conns -> ConnFields]
<1>1. \A f \in ConnFields : [f EXCEPT !.lock = "cl"] \in ConnFields
      BY DEF ConnFields
<1> QED BY <1>1 DEF CleanupExamine

LEMMA CleanupFreeConn ==
  ASSUME conn \in [Conns -> ConnFields], cl.at \in Conns, CleanupFree
  PROVE  conn' \in [Conns -> ConnFields]
<1> DEFINE c == cl.at
<1>1. \A f \in ConnFields : [f EXCEPT !.fds = "closed", !.lock = NULL] \in ConnFields
      BY DEF ConnFields
<1> QED BY <1>1 DEF CleanupFree

LEMMA AcceptConn ==
  ASSUME conn \in [Conns -> ConnFields], NEW c \in Conns, Accept(c)
  PROVE  conn' \in [Conns -> ConnFields]
<1>1. NewConn \in ConnFields
      BY DEF NewConn, ConnFields, Slots
<1> QED BY <1>1 DEF Accept

-----------------------------------------------------------------------------
(* The other variables.                                                    *)

LEMMA ClientTyped ==
  ASSUME ClientsOK, NEW c \in Conns,
         \/ client' = [client EXCEPT ![c].eof = TRUE]
         \/ \E o \in BOOLEAN : client' = [client EXCEPT ![c].old = o]
  PROVE  ClientsOK'
<1>1. CASE client' = [client EXCEPT ![c].eof = TRUE]
  <2>1. client' \in [Conns -> ClientFields]
        BY <1>1 DEF ClientsOK, ClientFields
  <2>2. \A x \in Conns : client'[x].pending <= client'[x].sent
        BY <1>1 DEF ClientsOK
  <2> QED BY <2>1, <2>2 DEF ClientsOK
<1>2. CASE \E o \in BOOLEAN : client' = [client EXCEPT ![c].old = o]
  <2>1. PICK o \in BOOLEAN : client' = [client EXCEPT ![c].old = o]
        BY <1>2
  <2>2. client' \in [Conns -> ClientFields]
        BY <2>1 DEF ClientsOK, ClientFields
  <2>3. \A x \in Conns : client'[x].pending <= client'[x].sent
        BY <2>1 DEF ClientsOK
  <2> QED BY <2>2, <2>3 DEF ClientsOK
<1> QED BY <1>1, <1>2

LEMMA TakeUpTyped ==
  ASSUME ClientsOK, NEW c \in Conns, HasRequest(c), TakeUp(c)
  PROVE  ClientsOK'
<1> USE DEF ClientsOK
<1>1. client[c] \in ClientFields /\ client[c].pending - 1 \in 0..MaxRequests
      BY ConnectionAssumption DEF ClientFields, HasRequest
<1> DEFINE paid == [client EXCEPT ![c].pending = @ - 1]
<1>2. paid \in [Conns -> ClientFields]
      BY <1>1 DEF ClientFields
<1>3. [paid EXCEPT ![c].old = FALSE] \in [Conns -> ClientFields]
      BY <1>2 DEF ClientFields
<1>4. \A x \in Conns : client'[x].pending <= client'[x].sent
      BY <1>1 DEF TakeUp, ClientFields
<1> QED BY <1>3, <1>4 DEF TakeUp

LEMMA SendTyped ==
  ASSUME ClientsOK, NEW c \in Conns, ClientSend(c)
  PROVE  ClientsOK'
<1> USE DEF ClientsOK
<1>1. client[c] \in ClientFields
      OBVIOUS
<1>2. /\ client[c].pending \in Nat /\ client[c].sent \in Nat
      /\ client[c].pending + 1 \in 0..MaxRequests /\ client[c].sent + 1 \in 0..MaxRequests
      BY <1>1, ConnectionAssumption DEF ClientFields, ClientSend
<1> DEFINE more == [client EXCEPT ![c].pending = @ + 1]
<1>3. more \in [Conns -> ClientFields] /\ more[c].sent + 1 \in 0..MaxRequests
      BY <1>1, <1>2 DEF ClientFields
<1>4. [more EXCEPT ![c].sent = @ + 1] \in [Conns -> ClientFields]
      BY <1>3 DEF ClientFields
<1>5. \A x \in Conns : client'[x].pending <= client'[x].sent
      BY <1>2 DEF ClientSend, ClientFields
<1> QED BY <1>4, <1>5 DEF ClientSend

LEMMA GotoTyped ==
  ASSUME LocationsOK, NEW c \in Conns, NEW k \in Kinds, NEW l \in Running[k] \cup Finished,
         Goto(c, k, l)
  PROVE  LocationsOK'
BY DEF LocationsOK, Goto, Kinds, Running, Finished, Locations

LEMMA LeaveTyped ==
  ASSUME LocationsOK, cancel \in [Conns -> [Kinds -> BOOLEAN]],
         NEW c \in Conns, NEW k \in Kinds, NEW l \in Finished, Leave(c, k, l)
  PROVE  LocationsOK' /\ cancel' \in [Conns -> [Kinds -> BOOLEAN]]
BY GotoTyped DEF Leave

LEMMA CancelTyped ==
  ASSUME TypeOK, NEW c \in Conns, NEW by \in Kinds, NEW l \in Running[by],
         NEW k \in Kinds, Cancel(c, by, l, k)
  PROVE  /\ LocationsOK' /\ cancel' \in [Conns -> [Kinds -> BOOLEAN]]
         /\ fault' \in Faults
<1>1. CASE Id(c, k) = "set"
  <2>1. LocationsOK' BY <1>1, GotoTyped DEF Cancel, TypeOK
  <2>2. PICK b \in BOOLEAN : cancel' = [cancel EXCEPT ![c][k] = b]
    <3>1. CASE Over(c, k)
      <4>1. cancel' = [cancel EXCEPT ![c][k] = FALSE] BY <1>1, <3>1, Zenon DEF Cancel
      <4> QED BY <4>1
    <3>2. CASE ~Over(c, k)
      <4>1. cancel' = [cancel EXCEPT ![c][k] = TRUE] BY <1>1, <3>2, Zenon DEF Cancel
      <4> QED BY <4>1
    <3> QED BY <3>1, <3>2
  <2> QED BY <1>1, <2>1, <2>2 DEF Cancel, TypeOK
<1>2. CASE Id(c, k) # "set"
  <2>1. UNCHANGED <<cancel, pc>> /\ fault' = "thread" BY <1>2 DEF Cancel
  <2> QED BY <2>1 DEF TypeOK, LocationsOK, Faults
<1> QED BY <1>1, <1>2

LEMMA ResetTyped ==
  ASSUME Typed, NEW c \in Conns, NEW k \in Kinds, Reset(c, k)
  PROVE  Typed'
<1> USE DEF Typed
<1>1. conn' \in [Conns -> ConnFields] BY ResetConn DEF TypeOK
<1>2. ClientsOK' BY ClientTyped DEF Reset
<1>3. LocationsOK' /\ cancel' \in [Conns -> [Kinds -> BOOLEAN]]
      BY LeaveTyped DEF Reset, TypeOK, Finished
<1> QED BY <1>1, <1>2, <1>3 DEF Reset, TypeOK, Standing, ClientsOK

-----------------------------------------------------------------------------
(* Every step keeps the types.                                             *)

LEMMA DataTyped ==
  ASSUME Typed, DataStep PROVE Typed'
<1> USE DEF Typed, TypeOK, Standing, DataAt, DataPCs, DataGoesOn, lists, daemons, history
<1>1. CASE DataWake BY <1>1 DEF DataWake, LocationsOK, ClientsOK
<1>2. CASE DataNext BY <1>2 DEF DataNext, LocationsOK, ClientsOK
<1>3. CASE DataTouchesFreed BY <1>3 DEF DataTouchesFreed, LocationsOK, ClientsOK, Faults
<1>4. CASE DataLock
  <2>1. conn' \in [Conns -> ConnFields]
        BY <1>4, DataLockConn DEF DataLock, DataAt
  <2> QED BY <1>4, <2>1 DEF DataLock, LocationsOK, ClientsOK
<1>5. CASE DataRequest
  <2>1. conn' \in [Conns -> ConnFields]
        BY <1>5, DataRequestConn DEF DataRequest, DataAt
  <2>2. ClientsOK'
        BY <1>5, TakeUpTyped DEF DataRequest, DataAt
  <2>3. LocationsOK'
        BY <1>5, GotoTyped DEF DataRequest, DataAt, Kinds, Running
  <2> QED BY <1>5, <2>1, <2>2, <2>3 DEF DataRequest, ClientsOK
<1>6. CASE DataRequestFails
  <2>1. conn' \in [Conns -> ConnFields]
        BY <1>6, DataRequestFailsConn DEF DataRequestFails, DataAt
  <2>2. ClientsOK'
        BY <1>6, TakeUpTyped DEF DataRequestFails, DataAt
  <2> QED BY <1>6, <2>1, <2>2 DEF DataRequestFails, LocationsOK, ClientsOK
<1>7. CASE DataNothing
  <2>1. conn' \in [Conns -> ConnFields]
        BY <1>7, DataNothingConn DEF DataNothing, DataAt
  <2>2. ClientsOK'
        BY <1>7, ClientTyped DEF DataNothing, DataAt, ClientsOK, ClientFields
  <2> QED BY <1>7, <2>1, <2>2 DEF DataNothing, LocationsOK, ClientsOK
<1>8. CASE DataDrop
  <2>1. conn' \in [Conns -> ConnFields]
        BY <1>8, DataDropConn DEF DataDrop, DataAt
  <2> QED BY <1>8, <2>1 DEF DataDrop, LocationsOK, ClientsOK
<1>9. CASE DataPut
  <2>1. conn' \in [Conns -> ConnFields]
        BY <1>9, DataPutConn DEF DataPut, DataAt
  <2> QED BY <1>9, <2>1 DEF DataPut, LocationsOK, ClientsOK
<1> QED BY <1>1, <1>2, <1>3, <1>4, <1>5, <1>6, <1>7, <1>8, <1>9 DEF DataStep

LEMMA RequestTyped ==
  ASSUME Typed, NEW c \in Conns, RequestStep(c) \/ RequestTimeout(c) PROVE Typed'
<1> USE DEF Typed, TypeOK, Standing, others, history
<1>1. CASE RequestStart(c)
  <2>1. conn' \in [Conns -> ConnFields]
        BY <1>1, RequestStartConn
  <2>2. LocationsOK'
        BY <1>1 DEF RequestStart, LocationsOK, Kinds, Running, Locations, Finished
  <2> QED BY <1>1, <2>1, <2>2 DEF RequestStart, ClientsOK
<1>2. CASE RequestStartFails(c)
  <2>1. conn' \in [Conns -> ConnFields]
        BY <1>2, RequestStartFailsConn
  <2>2. LocationsOK'
        BY <1>2 DEF RequestStartFails, LocationsOK, Kinds, Running, Locations, Finished
  <2> QED BY <1>2, <2>1, <2>2 DEF RequestStartFails, ClientsOK
<1>3. CASE SafeEnd(c, "rq", "rs")
  <2>1. conn' \in [Conns -> ConnFields]
        BY <1>3, SafeEndConn DEF Kinds
  <2>2. LocationsOK' /\ cancel' \in [Conns -> [Kinds -> BOOLEAN]]
        BY <1>3, LeaveTyped DEF SafeEnd, Kinds, Finished
  <2> QED BY <1>3, <2>1, <2>2 DEF SafeEnd, ClientsOK
<1>4. CASE Die(c, "rq")
  <2>1. LocationsOK' /\ cancel' \in [Conns -> [Kinds -> BOOLEAN]]
        BY <1>4, LeaveTyped DEF Die, Kinds, Finished
  <2> QED BY <1>4, <2>1 DEF Die, ClientsOK
<1>5. CASE RequestTimeout(c)
  <2>1. /\ LocationsOK' /\ cancel' \in [Conns -> [Kinds -> BOOLEAN]]
        /\ fault' \in Faults
        BY <1>5, CancelTyped DEF RequestTimeout, Kinds, Running
  <2> QED BY <1>5, <2>1 DEF RequestTimeout, ClientsOK
<1> QED BY <1>1, <1>2, <1>3, <1>4, <1>5 DEF RequestStep

LEMMA ResponseTyped ==
  ASSUME Typed, NEW c \in Conns, ResponseStep(c) \/ HandlerReturns(c) PROVE Typed'
<1> USE DEF Typed, TypeOK, Standing, others, history
<1>1. CASE SendHeader(c)
  <2>1. conn' \in [Conns -> ConnFields]
        BY <1>1, SendHeaderConn
  <2>2. LocationsOK'
        BY <1>1, GotoTyped DEF SendHeader, Kinds, Running
  <2> QED BY <1>1, <2>1, <2>2 DEF SendHeader, ClientsOK
<1>2. CASE SendHeaderChunked(c)
  <2>1. conn' \in [Conns -> ConnFields]
        BY <1>2, SendHeaderChunkedConn
  <2>2. LocationsOK'
        BY <1>2 DEF SendHeaderChunked, LocationsOK, Kinds, Running, Locations, Finished
  <2> QED BY <1>2, <2>1, <2>2 DEF SendHeaderChunked, ClientsOK
<1>3. CASE SendHeaderFails(c)
  <2>1. conn' \in [Conns -> ConnFields]
        BY <1>3, SendHeaderFailsConn
  <2>2. LocationsOK'
        BY <1>3 DEF SendHeaderFails, LocationsOK, Kinds, Running, Locations, Finished
  <2> QED BY <1>3, <2>1, <2>2 DEF SendHeaderFails, ClientsOK
<1>4. CASE ResponseReset(c)
  <2>1. conn' \in [Conns -> ConnFields]
        BY <1>4, ResponseResetConn
  <2>2. /\ LocationsOK' /\ cancel' \in [Conns -> [Kinds -> BOOLEAN]]
        /\ fault' \in Faults
        BY <1>4, CancelTyped DEF ResponseReset, Kinds, Running
  <2> QED BY <1>4, <2>1, <2>2 DEF ResponseReset, ClientsOK
<1>5. CASE ResponseLeave(c)
  <2>1. conn' \in [Conns -> ConnFields]
        BY <1>5, ResponseLeaveConn
  <2>2. LocationsOK' /\ cancel' \in [Conns -> [Kinds -> BOOLEAN]]
        BY <1>5, LeaveTyped DEF ResponseLeave, Kinds, Finished
  <2> QED BY <1>5, <2>1, <2>2 DEF ResponseLeave, ClientsOK
<1>6. CASE ResponseEnd(c)
  <2>1. /\ LocationsOK' /\ cancel' \in [Conns -> [Kinds -> BOOLEAN]]
        /\ fault' \in Faults
        BY <1>6, CancelTyped DEF ResponseEnd, Kinds, Running
  <2> QED BY <1>6, <2>1 DEF ResponseEnd, ClientsOK
<1>7. CASE ResponseResets(c) BY <1>7, ResetTyped DEF ResponseResets, Kinds
<1>8. CASE SafeEnd(c, "rs", "rq")
  <2>1. conn' \in [Conns -> ConnFields]
        BY <1>8, SafeEndConn DEF Kinds
  <2>2. LocationsOK' /\ cancel' \in [Conns -> [Kinds -> BOOLEAN]]
        BY <1>8, LeaveTyped DEF SafeEnd, Kinds, Finished
  <2> QED BY <1>8, <2>1, <2>2 DEF SafeEnd, ClientsOK
<1>9. CASE Die(c, "rs")
  <2>1. LocationsOK' /\ cancel' \in [Conns -> [Kinds -> BOOLEAN]]
        BY <1>9, LeaveTyped DEF Die, Kinds, Finished
  <2> QED BY <1>9, <2>1 DEF Die, ClientsOK
<1>10. CASE HandlerReturns(c)
  <2>1. LocationsOK'
        BY <1>10, GotoTyped DEF HandlerReturns, Kinds, Running
  <2> QED BY <1>10, <2>1 DEF HandlerReturns, ClientsOK
<1>11. CASE SendHeaderRefused(c)
       BY <1>11 DEF SendHeaderRefused, ClientsOK, LocationsOK, Faults
<1> QED BY <1>1, <1>2, <1>3, <1>4, <1>5, <1>6, <1>7, <1>8, <1>9, <1>10, <1>11
        DEF ResponseStep

LEMMA EncoderTyped ==
  ASSUME Typed, NEW c \in Conns, EncoderStep(c) PROVE Typed'
<1> USE DEF Typed, TypeOK, Standing, others, history
<1>1. CASE EncoderCopies(c)
  <2>1. LocationsOK'
        BY <1>1, GotoTyped DEF EncoderCopies, Kinds, Running
  <2> QED BY <1>1, <2>1 DEF EncoderCopies, ClientsOK
<1>2. CASE EncoderGivesUp(c)
  <2>1. LocationsOK' /\ cancel' \in [Conns -> [Kinds -> BOOLEAN]]
        BY <1>2, LeaveTyped DEF EncoderGivesUp, Kinds, Finished
  <2> QED BY <1>2, <2>1 DEF EncoderGivesUp, ClientsOK
<1>3. CASE EncoderLocks(c)
  <2>1. conn' \in [Conns -> ConnFields]
        BY <1>3, EncoderLocksConn
  <2>2. /\ LocationsOK' /\ cancel' \in [Conns -> [Kinds -> BOOLEAN]]
        /\ fault' \in Faults
        BY <1>3, CancelTyped DEF EncoderLocks, Kinds, Running
  <2> QED BY <1>3, <2>1, <2>2 DEF EncoderLocks, ClientsOK
<1>4. CASE EncoderResets(c) BY <1>4, ResetTyped DEF EncoderResets, Kinds
<1>5. CASE EncoderJoinsNobody(c) BY <1>5 DEF EncoderJoinsNobody, LocationsOK,
                                            ClientsOK, Faults
<1>6. CASE Die(c, "en")
  <2>1. LocationsOK' /\ cancel' \in [Conns -> [Kinds -> BOOLEAN]]
        BY <1>6, LeaveTyped DEF Die, Kinds, Finished
  <2> QED BY <1>6, <2>1 DEF Die, ClientsOK
<1> QED BY <1>1, <1>2, <1>3, <1>4, <1>5, <1>6 DEF EncoderStep

LEMMA CleanupTyped ==
  ASSUME Typed, CleanupStep PROVE Typed'
<1> USE DEF Typed, TypeOK, Standing, CleanupAt, CleanupPCs, PassGoesOn, lists, daemons, history
<1>1. CASE CleanupWake BY <1>1 DEF CleanupWake, LocationsOK, ClientsOK
<1>2. CASE CleanupNext
  <2>1. CASE cl.todo = {}
    <3>1. cl' = [pc |-> "next2", at |-> NULL, todo |-> toFree, old |-> FALSE]
          BY <1>2, <2>1 DEF CleanupNext
    <3>2. cl' \in [pc : CleanupPCs, at : Conns \cup {NULL}, todo : SUBSET Conns,
                  old : BOOLEAN]
          BY <3>1
    <3> QED BY <1>2, <3>1, <3>2 DEF CleanupNext, LocationsOK, ClientsOK
  <2>2. CASE cl.todo # {}
    <3>1. PICK c \in cl.todo : cl' = [pc |-> "check", at |-> c, todo |-> cl.todo \ {c},
                                     old |-> client[c].old]
          BY <1>2, <2>2 DEF CleanupNext
    <3>2. c \in Conns /\ client[c].old \in BOOLEAN
          BY DEF ClientFields
    <3>3. cl' \in [pc : CleanupPCs, at : Conns \cup {NULL}, todo : SUBSET Conns,
                  old : BOOLEAN]
          BY <3>1, <3>2
    <3> QED BY <1>2, <3>1, <3>2, <3>3 DEF CleanupNext, LocationsOK, ClientsOK
  <2> QED BY <2>1, <2>2
<1>3. CASE CleanupKeep BY <1>3 DEF CleanupKeep, LocationsOK, ClientsOK
<1>4. CASE CleanupAbort
  <2>1. conn' \in [Conns -> ConnFields]
        BY <1>4, CleanupAbortConn DEF CleanupAbort, CleanupAt
  <2> QED BY <1>4, <2>1 DEF CleanupAbort, LocationsOK, ClientsOK
<1>5. CASE CleanupMove BY <1>5 DEF CleanupMove, LocationsOK, ClientsOK
<1>6. CASE CleanupExamine
  <2>1. conn' \in [Conns -> ConnFields]
        BY <1>6, CleanupExamineConn
  <2>2. PICK c \in cl.todo :
          \/ /\ cl' = [cl EXCEPT !.todo = @ \ {c}]
             /\ toFree' = toFree
          \/ /\ cl' = [cl EXCEPT !.todo = @ \ {c}, !.at = c, !.pc = "stop"]
             /\ toFree' = toFree \ {c}
        BY <1>6 DEF CleanupExamine
  <2>3. c \in Conns /\ cl.todo \ {c} \subseteq Conns
        OBVIOUS
  <2>4. cl' \in [pc : CleanupPCs, at : Conns \cup {NULL}, todo : SUBSET Conns,
                old : BOOLEAN]
        BY <2>2, <2>3
  <2>5. /\ toFree' \subseteq Conns
        /\ cl'.pc \in {"check", "stop"} => cl'.at \in Conns
        BY <2>2, <2>3, <1>6 DEF CleanupExamine
  <2> QED BY <1>6, <2>1, <2>4, <2>5 DEF CleanupExamine, LocationsOK, ClientsOK
<1>7. CASE CleanupDone BY <1>7 DEF CleanupDone, LocationsOK, ClientsOK
<1>8. CASE CleanupFree
  <2>1. conn' \in [Conns -> ConnFields]
        BY <1>8, CleanupFreeConn DEF CleanupFree, CleanupAt
  <2> QED BY <1>8, <2>1 DEF CleanupFree, LocationsOK, ClientsOK
<1>9. CASE \E k \in Kinds : CleanupCancel(k) BY <1>9 DEF CleanupCancel, LocationsOK, ClientsOK
<1>10. CASE \E k \in Kinds : CleanupStopsNobody(k) BY <1>10 DEF CleanupStopsNobody,
         LocationsOK, ClientsOK, Faults
<1> QED BY <1>1, <1>2, <1>3, <1>4, <1>5, <1>6, <1>7, <1>8, <1>9, <1>10 DEF CleanupStep

LEMMA EnvironmentTyped ==
  ASSUME Typed, NEW c \in Conns, Environment(c) PROVE Typed'
<1> USE DEF Typed, TypeOK, Standing, lists, daemons, history, DataPCs, CleanupPCs
<1>1. CASE ClientSend(c)
  <2>1. ClientsOK'
        BY <1>1, SendTyped
  <2> QED BY <1>1, <2>1 DEF ClientSend, LocationsOK, ClientsOK
<1>2. CASE ClientClose(c)
  <2>1. ClientsOK'
        BY <1>2, ClientTyped DEF ClientClose
  <2> QED BY <1>2, <2>1 DEF ClientClose, LocationsOK, ClientsOK
<1>3. CASE TimePasses(c)
  <2>1. ClientsOK'
        BY <1>3, ClientTyped DEF TimePasses
  <2> QED BY <1>3, <2>1 DEF TimePasses, LocationsOK, ClientsOK
<1>4. CASE Accept(c)
  <2>1. conn' \in [Conns -> ConnFields]
        BY <1>4, AcceptConn
  <2> QED BY <1>4, <2>1 DEF Accept, LocationsOK, ClientsOK
<1> QED BY <1>1, <1>2, <1>3, <1>4 DEF Environment

LEMMA NextTyped == ASSUME Typed, [Next]_vars PROVE Typed'
<1>1. CASE Next
      BY <1>1, DataTyped, RequestTyped, ResponseTyped, EncoderTyped, CleanupTyped,
         EnvironmentTyped DEF Next
<1>2. CASE UNCHANGED vars
      BY <1>2 DEF vars, Typed, TypeOK, Standing, ClientsOK, LocationsOK
<1> QED BY <1>1, <1>2

LEMMA InitTyped == Init => Typed
<1> SUFFICES ASSUME Init PROVE Typed
    OBVIOUS
<1>1. NewConn \in ConnFields
      BY DEF NewConn, ConnFields, Slots
<1>2. conn \in [Conns -> ConnFields]
      BY <1>1 DEF Init
<1>3. LocationsOK
      BY DEF Init, LocationsOK, Locations, Finished
<1>4. ClientsOK
  <2>1. \A c \in Conns : client[c] = [pending |-> 0, sent |-> 0, eof |-> FALSE, old |-> FALSE]
        BY DEF Init
  <2>2. [pending |-> 0, sent |-> 0, eof |-> FALSE, old |-> FALSE] \in ClientFields
        BY ConnectionAssumption DEF ClientFields
  <2>3. client \in [Conns -> ClientFields]
        BY <2>2 DEF Init
  <2> QED BY <2>1, <2>3 DEF ClientsOK
<1> QED BY <1>2, <1>3, <1>4 DEF Init, Typed, TypeOK, Standing, ClientsOK, DataPCs, CleanupPCs,
       Faults

\* Every variable keeps its type, and the two daemons stand at connections.
THEOREM TypeCorrect == Spec => []TypeOK
<1>1. Spec => []Typed
      BY InitTyped, NextTyped, PTL DEF Spec
<1>2. Typed => TypeOK
      BY DEF Typed
<1> QED BY <1>1, <1>2, PTL

-----------------------------------------------------------------------------
(* Uses and requests.                                                      *)

Reading(c) == d.at = c /\ d.pc = "read"

\* A connection that may be read from, or is read from, has no request under
\* way; the threads of a request live inside it, and the encoder, whose reset
\* is the only one that can come after the request's end, finds no response
\* thread to join then.
Served(c) ==
  /\ conn[c].inUse = (IF DataUses(c) THEN 1 ELSE 0) + (IF serving[c] THEN 1 ELSE 0)
  /\ conn[c].state = "OPENED" => ~serving[c]
  /\ DataUses(c) => ~serving[c] /\ mem[c] = "live"
  /\ conn[c].state = "OPENED" \/ Reading(c) => Id(c, "rq") = "null"
  /\ pc[c]["rq"] \in Running["rq"] \/ pc[c]["rs"] \in Running["rs"] => serving[c]
  /\ pc[c]["en"] \in Running["en"] =>
       /\ Id(c, "en") = "set" /\ conn[c].isPersistent
       /\ serving[c] \/ Id(c, "rs") # "set"
  /\ pc[c]["rs"] = "stop" => ~conn[c].isPersistent
  /\ mem[c] = "none" =>
       ~serving[c] /\ conn[c].inUse = 0 /\ pc[c]["en"] \notin Running["en"]

\* What the cleanup thread frees, and has freed, nobody uses.
Freed(c) ==
  /\ cl.pc = "stop" /\ cl.at = c => conn[c].lock = "cl" /\ conn[c].inUse = 0
  /\ mem[c] = "none" => c \notin list \cup toFree \cup cl.todo \cup {cl.at}
  /\ mem[c] = "freed" => /\ \A k \in Kinds : Over(c, k)
                         /\ ~DataUses(c) /\ ~serving[c] /\ conn[c].fds = "closed"

IInv == Typed /\ \A c \in Conns : Served(c) /\ Freed(c)

\* All that stopThread's first half does to Served and Freed.
LEMMA CancelMoves ==
  ASSUME NEW c, NEW by, NEW l, NEW k, Cancel(c, by, l, k)
  PROVE  Goto(c, by, l) \/ UNCHANGED pc
BY DEF Cancel

LEMMA DataServed ==
  ASSUME IInv, DataStep, NEW x \in Conns
  PROVE  Served(x)' /\ Freed(x)'
<1>0. Typed /\ Served(x) /\ Freed(x) 
      BY DEF IInv
<1> USE <1>0 DEF Served, Freed, Typed, TypeOK, ConnFields, DataUses, Reading, Id,
        Running, Kinds, Finished, LocationsOK, Over, Goto, Leave, Put, Unlocked, DataAt,
        DataGoesOn, lists, daemons, history, Standing
<1>1. CASE DataWake BY <1>1 DEF DataWake
<1>2. CASE DataNext BY <1>2 DEF DataNext
<1>3. CASE DataTouchesFreed BY <1>3 DEF DataTouchesFreed
<1>4. CASE DataLock
  <2>1. CASE ~MayRead(d.at)
    <3>1. UNCHANGED conn /\ d' = [d EXCEPT !.pc = "next", !.at = NULL]
          BY <1>4, <2>1 DEF DataLock
    <3> QED BY <1>4, <3>1 DEF DataLock
  <2>2. CASE MayRead(d.at)
    <3>1. /\ conn' = [conn EXCEPT ![d.at].inUse = @ + 1]
          /\ d' = [d EXCEPT !.pc = "read"] /\ mem[d.at] = "live"
          /\ UNCHANGED <<mem, pc, list, toFree, cl, serving>>
          /\ d.pc = "lock" /\ d.at \in Conns /\ conn[d.at].lock = NULL
          /\ conn[d.at].state = "OPENED"
          BY <1>4, <2>2 DEF DataLock, MayRead
    <3>2. CASE x = d.at BY <3>1, <3>2, ConnectionAssumption
    <3>3. CASE x # d.at BY <3>1, <3>3
    <3> QED BY <3>2, <3>3
  <2> QED BY <2>1, <2>2
<1>5. CASE DataRequest BY <1>5 DEF DataRequest, Joined, PriorJoined
<1>6. CASE DataRequestFails BY <1>6 DEF DataRequestFails, Joined, PriorJoined, FailedIds
<1>7. CASE DataNothing BY <1>7 DEF DataNothing, Joined, PriorJoined
<1>8. CASE DataDrop BY <1>8 DEF DataDrop, Joined, PriorJoined
<1>9. CASE DataPut BY <1>9 DEF DataPut
<1> QED BY <1>1, <1>2, <1>3, <1>4, <1>5, <1>6, <1>7, <1>8, <1>9 DEF DataStep

LEMMA RequestServed ==
  ASSUME IInv, NEW c \in Conns, RequestStep(c) \/ RequestTimeout(c), NEW x \in Conns
  PROVE  Served(x)' /\ Freed(x)'
<1>0. Typed /\ Served(x) /\ Freed(x) /\ Served(c) /\ Freed(c)
      BY DEF IInv
<1> USE <1>0 DEF Served, Freed, Typed, TypeOK, ConnFields, DataUses, Reading, Id,
        Running, Kinds, Finished, LocationsOK, Over, Goto, Leave, Put, Unlocked, others,
        history, At
<1>1. CASE RequestStart(c) BY <1>1 DEF RequestStart
<1>2. CASE RequestStartFails(c) BY <1>2 DEF RequestStartFails, FailedIds
<1>3. CASE SafeEnd(c, "rq", "rs") BY <1>3 DEF SafeEnd
<1>4. CASE Die(c, "rq") BY <1>4 DEF Die
<1>5. CASE RequestTimeout(c)
  <2>1. pc' = [pc EXCEPT ![c]["rq"] = "stop"] \/ UNCHANGED pc
        BY <1>5, CancelMoves DEF RequestTimeout
  <2>2. CASE UNCHANGED pc BY <1>5, <2>2 DEF RequestTimeout
  <2>3. CASE pc' = [pc EXCEPT ![c]["rq"] = "stop"] BY <1>5, <2>3 DEF RequestTimeout
  <2> QED BY <2>1, <2>2, <2>3
<1> QED BY <1>1, <1>2, <1>3, <1>4, <1>5 DEF RequestStep

LEMMA ResponseServed ==
  ASSUME IInv, NEW c \in Conns, ResponseStep(c) \/ HandlerReturns(c), NEW x \in Conns
  PROVE  Served(x)' /\ Freed(x)'
<1>0. Typed /\ Served(x) /\ Freed(x) /\ Served(c) /\ Freed(c)
      BY DEF IInv
<1> USE <1>0 DEF Served, Freed, Typed, TypeOK, ConnFields, DataUses, Reading, Id,
        Running, Kinds, Finished, LocationsOK, Over, Goto, Leave, Put, Unlocked, others,
        history, At
<1>1. CASE SendHeader(c) BY <1>1 DEF SendHeader
<1>2. CASE SendHeaderChunked(c) BY <1>2 DEF SendHeaderChunked
<1>3. CASE SendHeaderFails(c) BY <1>3 DEF SendHeaderFails, FailedIds
<1>4. CASE ResponseReset(c)
  <2>1. pc' = [pc EXCEPT ![c]["rs"] = "reset"] \/ UNCHANGED pc
        BY <1>4, CancelMoves DEF ResponseReset
  <2>2. CASE UNCHANGED pc BY <1>4, <2>2 DEF ResponseReset
  <2>3. CASE pc' = [pc EXCEPT ![c]["rs"] = "reset"] BY <1>4, <2>3 DEF ResponseReset
  <2> QED BY <2>1, <2>2, <2>3
<1>5. CASE ResponseLeave(c) BY <1>5 DEF ResponseLeave
<1>6. CASE ResponseEnd(c)
  <2>1. pc' = [pc EXCEPT ![c]["rs"] = "stop"] \/ UNCHANGED pc
        BY <1>6, CancelMoves DEF ResponseEnd
  <2>2. CASE UNCHANGED pc BY <1>6, <2>2 DEF ResponseEnd
  <2>3. CASE pc' = [pc EXCEPT ![c]["rs"] = "stop"] BY <1>6, <2>3 DEF ResponseEnd
  <2> QED BY <2>1, <2>2, <2>3
<1>7. CASE ResponseResets(c)
  <2>1. CASE x = c BY <1>7, <2>1 DEF ResponseResets, Reset, ResetFields, Emptied
  <2>2. CASE x # c BY <1>7, <2>2 DEF ResponseResets, Reset
  <2> QED BY <2>1, <2>2
<1>8. CASE SafeEnd(c, "rs", "rq") BY <1>8 DEF SafeEnd
<1>9. CASE Die(c, "rs") BY <1>9 DEF Die
<1>10. CASE HandlerReturns(c) BY <1>10 DEF HandlerReturns
<1>11. CASE SendHeaderRefused(c) BY <1>11 DEF SendHeaderRefused
<1> QED BY <1>1, <1>2, <1>3, <1>4, <1>5, <1>6, <1>7, <1>8, <1>9, <1>10, <1>11
        DEF ResponseStep

LEMMA EncoderServed ==
  ASSUME IInv, NEW c \in Conns, EncoderStep(c), NEW x \in Conns
  PROVE  Served(x)' /\ Freed(x)'
<1>0. Typed /\ Served(x) /\ Freed(x) /\ Served(c) /\ Freed(c)
      BY DEF IInv
<1> USE <1>0 DEF Served, Freed, Typed, TypeOK, ConnFields, DataUses, Reading, Id,
        Running, Kinds, Finished, LocationsOK, Over, Goto, Leave, Put, Unlocked, others,
        history, At
<1>1. CASE EncoderCopies(c) BY <1>1 DEF EncoderCopies
<1>2. CASE EncoderGivesUp(c) BY <1>2 DEF EncoderGivesUp
<1>3. CASE EncoderLocks(c)
  <2>1. /\ pc' = [pc EXCEPT ![c]["en"] = "reset"] \/ UNCHANGED pc
        /\ conn' = [conn EXCEPT ![c].lock = "en"]
        /\ pc[c]["en"] = "wait" /\ conn[c].lock = NULL
        /\ UNCHANGED <<mem, list, toFree, d, cl, serving>>
        BY <1>3, CancelMoves DEF EncoderLocks
  <2>2. ~(cl.pc = "stop" /\ cl.at = c)
        BY <2>1, ConnectionAssumption
  <2>3. CASE x = c BY <2>1, <2>2, <2>3
  <2>4. CASE x # c BY <2>1, <2>4
  <2> QED BY <2>3, <2>4
<1>4. CASE EncoderResets(c)
  <2>1. CASE x = c BY <1>4, <2>1 DEF EncoderResets, Reset, ResetFields, Emptied
  <2>2. CASE x # c BY <1>4, <2>2 DEF EncoderResets, Reset
  <2> QED BY <2>1, <2>2
<1>5. CASE EncoderJoinsNobody(c) BY <1>5 DEF EncoderJoinsNobody
<1>6. CASE Die(c, "en") BY <1>6 DEF Die
<1> QED BY <1>1, <1>2, <1>3, <1>4, <1>5, <1>6 DEF EncoderStep

LEMMA CleanupServed ==
  ASSUME IInv, CleanupStep, NEW x \in Conns
  PROVE  Served(x)' /\ Freed(x)'
<1>0. Typed /\ Served(x) /\ Freed(x) 
      BY DEF IInv
<1> USE <1>0 DEF Served, Freed, Typed, TypeOK, ConnFields, DataUses, Reading, Id,
        Running, Kinds, Finished, LocationsOK, Over, Goto, Leave, Put, Unlocked,
        CleanupAt, PassGoesOn, lists, daemons, history, Standing
<1>1. CASE CleanupWake BY <1>1 DEF CleanupWake
<1>2. CASE CleanupNext
  <2>1. /\ UNCHANGED <<mem, conn, pc, list, toFree, d, serving>>
        /\ cl'.pc # "stop" /\ cl'.todo \subseteq list \cup toFree \cup cl.todo
        /\ cl'.at \in cl.todo \cup {NULL}
        BY <1>2 DEF CleanupNext
  <2> QED BY <2>1, ConnectionAssumption
<1>3. CASE CleanupKeep BY <1>3, ConnectionAssumption DEF CleanupKeep
<1>4. CASE CleanupAbort BY <1>4, ConnectionAssumption DEF CleanupAbort, Expired
<1>5. CASE CleanupMove BY <1>5, ConnectionAssumption DEF CleanupMove
<1>6. CASE CleanupExamine
  <2>1. PICK c \in cl.todo :
          \/ /\ cl' = [cl EXCEPT !.todo = @ \ {c}]
             /\ UNCHANGED <<conn, toFree>>
          \/ /\ cl' = [cl EXCEPT !.todo = @ \ {c}, !.at = c, !.pc = "stop"]
             /\ conn' = [conn EXCEPT ![c].lock = "cl"]
             /\ conn[c].inUse = 0 /\ toFree' = toFree \ {c}
        BY <1>6 DEF CleanupExamine, Unused
  <2>2. /\ c \in Conns /\ mem[c] # "none"
        /\ UNCHANGED <<mem, pc, list, d, serving>> /\ cl.pc = "next2"
        BY <1>6 DEF CleanupExamine, IInv
  <2>3. CASE /\ cl' = [cl EXCEPT !.todo = @ \ {c}]
             /\ UNCHANGED <<conn, toFree>>
        BY <2>2, <2>3
  <2>4. CASE /\ cl' = [cl EXCEPT !.todo = @ \ {c}, !.at = c, !.pc = "stop"]
             /\ conn' = [conn EXCEPT ![c].lock = "cl"]
             /\ conn[c].inUse = 0 /\ toFree' = toFree \ {c}
    <3>1. CASE x = c BY <2>2, <2>4, <3>1
    <3>2. CASE x # c BY <2>2, <2>4, <3>2
    <3> QED BY <3>1, <3>2
  <2> QED BY <2>1, <2>3, <2>4
<1>7. CASE CleanupDone BY <1>7 DEF CleanupDone
<1>8. CASE CleanupFree
  <2>1. CASE x = cl.at
    <3>1. ~DataUses(x) /\ ~serving[x] /\ mem[x] # "none"
          BY <1>8, <2>1 DEF CleanupFree
    <3>2. \A k \in Kinds : Over(x, k)
          BY <1>8, <2>1, <3>1 DEF CleanupFree, Stopped
    <3> QED BY <1>8, <2>1, <3>1, <3>2, ConnectionAssumption DEF CleanupFree
  <2>2. CASE x # cl.at BY <1>8, <2>2, ConnectionAssumption DEF CleanupFree
  <2> QED BY <2>1, <2>2
<1>9. CASE \E k \in Kinds : CleanupCancel(k) BY <1>9 DEF CleanupCancel
<1>10. CASE \E k \in Kinds : CleanupStopsNobody(k) BY <1>10 DEF CleanupStopsNobody
<1> QED BY <1>1, <1>2, <1>3, <1>4, <1>5, <1>6, <1>7, <1>8, <1>9, <1>10 DEF CleanupStep

LEMMA EnvironmentServed ==
  ASSUME IInv, NEW c \in Conns, Environment(c), NEW x \in Conns
  PROVE  Served(x)' /\ Freed(x)'
<1>0. Typed /\ Served(x) /\ Freed(x) /\ Served(c) /\ Freed(c)
      BY DEF IInv
<1> USE <1>0 DEF Served, Freed, Typed, TypeOK, ConnFields, DataUses, Reading, Id,
        Running, Kinds, Finished, LocationsOK, Over, Goto, Leave, Put, Unlocked, lists,
        daemons, history
<1>1. CASE ClientSend(c) BY <1>1 DEF ClientSend
<1>2. CASE ClientClose(c) BY <1>2 DEF ClientClose
<1>3. CASE TimePasses(c) BY <1>3 DEF TimePasses
<1>4. CASE Accept(c) BY <1>4 DEF Accept, NewConn
<1> QED BY <1>1, <1>2, <1>3, <1>4 DEF Environment

LEMMA InitServed == Init => IInv
<1> SUFFICES ASSUME Init, NEW c \in Conns PROVE Served(c) /\ Freed(c)
    BY InitTyped DEF IInv
<1>1. conn[c] = NewConn /\ pc[c] = [k \in Kinds |-> "none"] /\ mem[c] = "none"
      BY DEF Init
<1>2. ~serving[c] /\ ~DataUses(c) /\ ~Reading(c) /\ d.at = NULL /\ cl.at = NULL
      BY DEF Init, DataUses, Reading
<1>3. c \notin list \cup toFree \cup cl.todo \cup {cl.at}
      BY <1>2, ConnectionAssumption DEF Init
<1> QED BY <1>1, <1>2, <1>3 DEF Served, Freed, NewConn, Id, Kinds, Running, Init

LEMMA Inductive == ASSUME IInv, [Next]_vars PROVE IInv'
<1>1. CASE Next
  <2>1. Typed'
        BY <1>1, NextTyped DEF IInv
  <2>2. \A x \in Conns : Served(x)' /\ Freed(x)'
        BY <1>1, DataServed, RequestServed, ResponseServed, EncoderServed,
           CleanupServed, EnvironmentServed DEF Next
  <2> QED BY <2>1, <2>2 DEF IInv
<1>2. CASE UNCHANGED vars
  <2>1. Typed'
        BY <1>2, NextTyped DEF IInv
  <2>2. \A x \in Conns : Served(x)' /\ Freed(x)'
        BY <1>2 DEF IInv, vars, Served, Freed, DataUses, Reading, Id, Over
  <2> QED BY <2>1, <2>2 DEF IInv
<1> QED BY <1>1, <1>2

LEMMA Invariant == Spec => []IInv
BY InitServed, Inductive, PTL DEF Spec

\* A connection's inUse counts the data thread and the request under way, each
\* of them once, after every timeout, cancellation and failure of pthread_create.
THEOREM UsesAreExact == Spec => []InUseExact
<1>1. IInv => InUseExact
      BY DEF IInv, InUseExact, Served
<1> QED BY <1>1, Invariant, PTL

\* Cleanup frees a connection only when its threads have ended and nobody uses it.
THEOREM FreedAreQuiet == Spec => []FreedIsQuiet
<1>1. IInv => FreedIsQuiet
      BY DEF IInv, FreedIsQuiet, Freed
<1> QED BY <1>1, Invariant, PTL

-----------------------------------------------------------------------------
(* Steps.                                                                  *)

\* Only the data thread starts a request.
LEMMA OnlyDataStarts ==
  ASSUME TypeOK, [Next]_vars, NEW c \in Conns, ~serving[c], serving'[c]
  PROVE  DataRequest
<1>0. serving \in [Conns -> BOOLEAN]
      BY DEF TypeOK
<1>1. CASE DataStep
      BY <1>1 DEF DataStep, DataWake, DataNext, DataTouchesFreed, DataLock,
         DataRequestFails, DataNothing, DataDrop, DataPut, history
<1>2. CASE CleanupStep
      BY <1>2 DEF CleanupStep, CleanupWake, CleanupNext, CleanupKeep, CleanupAbort,
         CleanupMove, CleanupExamine, CleanupDone, CleanupFree, CleanupCancel,
         CleanupStopsNobody, history
<1>3. CASE \E x \in Conns : RequestStep(x) \/ RequestTimeout(x)
      BY <1>0, <1>3 DEF RequestStep, RequestStart, RequestStartFails, RequestTimeout, SafeEnd,
         Die, history
<1>4. CASE \E x \in Conns : ResponseStep(x) \/ HandlerReturns(x)
      BY <1>0, <1>4 DEF ResponseStep, SendHeader, SendHeaderChunked, SendHeaderFails,
         SendHeaderRefused, ResponseReset, ResponseLeave, ResponseEnd, ResponseResets, Reset, SafeEnd,
         Die, HandlerReturns, history
<1>5. CASE \E x \in Conns : EncoderStep(x)
      BY <1>0, <1>5 DEF EncoderStep, EncoderCopies, EncoderGivesUp, EncoderLocks,
         EncoderResets, EncoderJoinsNobody, Reset, Die, history
<1>6. CASE \E x \in Conns : Environment(x)
      BY <1>6 DEF Environment, ClientSend, ClientClose, TimePasses, Accept, history
<1>7. CASE UNCHANGED vars
      BY <1>7 DEF vars
<1> QED BY <1>1, <1>2, <1>3, <1>4, <1>5, <1>6, <1>7 DEF Next

\* A request starts on a connection whose earlier threads have all ended.
THEOREM RequestsDoNotOverlap == Spec => StartsClean
<1>1. ASSUME IInv, [Next]_vars, NEW c \in Conns, ~serving[c], serving'[c]
      PROVE  Id(c, "rq") = "null" /\ \A k \in Kinds : Over(c, k)
  <2>1. DataRequest
        BY <1>1, OnlyDataStarts DEF IInv, Typed
  <2>2. c = d.at /\ Reading(c) /\ PriorJoined(c)
        BY <1>1, <2>1 DEF DataRequest, DataAt, Reading, IInv, Typed, Standing, TypeOK
  <2>3. Served(c) /\ LocationsOK
        BY <1>1 DEF IInv, Typed, TypeOK
  <2> QED BY <1>1, <2>2, <2>3 DEF Served, LocationsOK, PriorJoined, Over, Id, Kinds, Running
<1>2. IInv /\ [Next]_vars
        => \A c \in Conns : ~serving[c] /\ serving'[c] =>
             Id(c, "rq") = "null" /\ \A k \in Kinds : Over(c, k)
      BY <1>1
<1> QED BY <1>2, Invariant, PTL DEF Spec, StartsClean

\* Only the data thread drops a connection, and the cleanup thread times one out.
LEMMA OnlyDaemonsAbort ==
  ASSUME Typed, [Next]_vars, NEW c \in Conns,
         conn[c].state # "ABORTED", conn'[c].state = "ABORTED"
  PROVE  \/ c = d.at /\ (DataRequestFails \/ DataDrop)
         \/ c = cl.at /\ CleanupAbort
<1>0. conn \in [Conns -> ConnFields] /\ Standing
      BY DEF Typed, TypeOK
<1> USE DEF ConnFields, Put
<1>1. CASE DataStep
  <2>1. CASE DataRequest BY <1>0, <2>1 DEF DataRequest, Standing, DataAt
  <2>2. CASE DataRequestFails BY <1>0, <2>2 DEF DataRequestFails, Standing, DataAt
  <2>3. CASE DataDrop BY <1>0, <2>3 DEF DataDrop, Standing, DataAt
  <2>4. CASE DataNothing BY <1>0, <2>4 DEF DataNothing, Standing, DataAt
  <2>5. CASE DataLock \/ DataPut BY <1>0, <2>5 DEF DataLock, DataPut, Standing, DataAt
  <2>6. CASE DataWake \/ DataNext \/ DataTouchesFreed
        BY <2>6 DEF DataWake, DataNext, DataTouchesFreed
  <2> QED BY <1>1, <2>1, <2>2, <2>3, <2>4, <2>5, <2>6 DEF DataStep
<1>2. CASE CleanupStep
  <2>1. CASE CleanupAbort BY <1>0, <2>1 DEF CleanupAbort, Standing, CleanupAt
  <2>2. CASE CleanupExamine BY <1>0, <2>2 DEF CleanupExamine
  <2>3. CASE CleanupFree BY <1>0, <2>3 DEF CleanupFree, Standing, CleanupAt
  <2>4. CASE UNCHANGED conn BY <2>4
  <2> QED BY <1>2, <2>1, <2>2, <2>3, <2>4 DEF CleanupStep, CleanupWake, CleanupNext,
             CleanupKeep, CleanupMove, CleanupDone, CleanupCancel, CleanupStopsNobody
<1>3. CASE \E x \in Conns : RequestStep(x) \/ RequestTimeout(x)
  <2>0. PICK x \in Conns : RequestStep(x) \/ RequestTimeout(x)
        BY <1>3
  <2>1. CASE RequestStart(x)
        BY <1>0, <2>1 DEF RequestStart
  <2>2. CASE RequestStartFails(x)
        BY <1>0, <2>2 DEF RequestStartFails
  <2>3. CASE SafeEnd(x, "rq", "rs")
        BY <1>0, <2>3 DEF SafeEnd
  <2>4. CASE UNCHANGED conn
        BY <2>4
  <2> QED BY <2>0, <2>1, <2>2, <2>3, <2>4 DEF RequestStep, RequestTimeout, Die
<1>4. CASE \E x \in Conns : ResponseStep(x) \/ HandlerReturns(x)
  <2>0. PICK x \in Conns : ResponseStep(x) \/ HandlerReturns(x)
        BY <1>4
  <2>1. CASE SendHeader(x)
        BY <1>0, <2>1 DEF SendHeader
  <2>2. CASE SendHeaderChunked(x)
        BY <1>0, <2>2 DEF SendHeaderChunked
  <2>3. CASE SendHeaderFails(x)
        BY <1>0, <2>3 DEF SendHeaderFails
  <2>4. CASE ResponseReset(x)
        BY <1>0, <2>4 DEF ResponseReset
  <2>5. CASE ResponseLeave(x)
        BY <1>0, <2>5 DEF ResponseLeave
  <2>6. CASE ResponseResets(x)
        BY <1>0, <2>6 DEF ResponseResets, Reset, ResetFields
  <2>7. CASE SafeEnd(x, "rs", "rq")
        BY <1>0, <2>7 DEF SafeEnd
  <2>8. CASE UNCHANGED conn
        BY <2>8
  <2> QED BY <2>0, <2>1, <2>2, <2>3, <2>4, <2>5, <2>6, <2>7, <2>8 DEF ResponseStep,
           SendHeaderRefused, ResponseEnd, HandlerReturns, Die
<1>5. CASE \E x \in Conns : EncoderStep(x)
  <2>0. PICK x \in Conns : EncoderStep(x)
        BY <1>5
  <2>1. CASE EncoderLocks(x)
        BY <1>0, <2>1 DEF EncoderLocks
  <2>2. CASE EncoderResets(x)
        BY <1>0, <2>2 DEF EncoderResets, Reset, ResetFields
  <2>3. CASE UNCHANGED conn
        BY <2>3
  <2> QED BY <2>0, <2>1, <2>2, <2>3 DEF EncoderStep, EncoderCopies, EncoderGivesUp,
             EncoderJoinsNobody, Die
<1>6. CASE \E x \in Conns : Environment(x)
      BY <1>0, <1>6 DEF Environment, ClientSend, ClientClose, TimePasses, Accept, NewConn
<1>7. CASE UNCHANGED vars
      BY <1>7 DEF vars
<1> QED BY <1>1, <1>2, <1>3, <1>4, <1>5, <1>6, <1>7 DEF Next

\* A connection is not aborted under the request it is serving.
THEOREM ServedAreKept == Spec => ServedNotAborted
<1>1. ASSUME IInv, [Next]_vars, NEW c \in Conns, serving[c], conn'[c].state = "ABORTED"
      PROVE  conn[c].state = "ABORTED"
  <2>1. SUFFICES ASSUME conn[c].state # "ABORTED" PROVE FALSE
        OBVIOUS
  <2>2. Typed /\ Served(c)
        BY <1>1 DEF IInv
  <2>3. CASE c = d.at /\ (DataRequestFails \/ DataDrop)
        BY <1>1, <2>2, <2>3 DEF DataRequestFails, DataDrop, DataAt, Served, DataUses
  <2>4. CASE c = cl.at /\ CleanupAbort
        BY <1>1, <2>2, <2>4 DEF CleanupAbort, Expired, Served
  <2> QED BY <1>1, <2>1, <2>2, <2>3, <2>4, OnlyDaemonsAbort
<1>2. IInv /\ [Next]_vars
        => \A c \in Conns : serving[c] /\ conn'[c].state = "ABORTED"
             => conn[c].state = "ABORTED"
      BY <1>1
<1> QED BY <1>2, Invariant, PTL DEF Spec, ServedNotAborted

-----------------------------------------------------------------------------
(* Why a connection is given up.                                           *)

\* The cleanup thread is taking c down.
TakenDown(c) == cl.pc = "stop" /\ cl.at = c

\* An aborted connection has a reason, one with a single request is persistent
\* no more, and only these two are ever put on connectionsToFree.  A connection
\* on it may be OPENED again (a request was already being read when it was
\* aborted, and sets the state, whatever it was); it keeps its reason.  The second
\* pass visits connections of connectionsToFree only.
Reasoned(c) ==
  /\ conn[c].state = "ABORTED" => reason[c] # "none"
  /\ conn[c].state = "PROCESSING" => ~conn[c].isPersistent
  /\ Reading(c) => conn[c].state \in {"OPENED", "ABORTED"}
  /\ pc[c]["rs"] = "reset" => conn[c].isPersistent
  /\ c \in toFree \/ TakenDown(c) \/ mem[c] = "freed" =>
       reason[c] # "none" \/ conn[c].state = "PROCESSING"
  /\ cl.pc \in {"next2", "stop"} /\ c \in cl.todo => c \in toFree

LEMMA DataReasoned ==
  ASSUME IInv, DataStep, NEW x \in Conns, Reasoned(x) PROVE Reasoned(x)'
<1>0. /\ conn \in [Conns -> ConnFields] /\ LocationsOK /\ Standing
      /\ reason \in [Conns -> {"none", "timeout", "drop"}]
      /\ d \in [pc : DataPCs, at : Conns \cup {NULL}, todo : SUBSET Conns]
      /\ Served(x) /\ Freed(x)
      BY DEF IInv, Typed, TypeOK
<1> USE <1>0 DEF Reasoned, ConnFields, Reading, TakenDown, Standing, DataAt, Put,
        DataGoesOn, lists, daemons, history
<1>1. CASE DataWake BY <1>1 DEF DataWake
<1>2. CASE DataNext BY <1>2 DEF DataNext
<1>3. CASE DataTouchesFreed BY <1>3 DEF DataTouchesFreed
<1>4. CASE DataLock
  <2>1. CASE ~MayRead(d.at)
    <3>1. UNCHANGED conn /\ d' = [d EXCEPT !.pc = "next", !.at = NULL]
          BY <1>4, <2>1 DEF DataLock
    <3> QED BY <1>4, <3>1 DEF DataLock
  <2>2. CASE MayRead(d.at)
    <3>1. /\ conn' = [conn EXCEPT ![d.at].inUse = @ + 1]
          /\ d' = [d EXCEPT !.pc = "read"]
          /\ UNCHANGED <<mem, pc, toFree, cl, reason>>
          /\ d.at \in Conns /\ conn[d.at].state = "OPENED"
          BY <1>4, <2>2 DEF DataLock, MayRead
    <3> QED BY <3>1
  <2> QED BY <2>1, <2>2
<1>5. CASE DataRequest
  <2>1. CASE x = d.at
        BY <1>5, <2>1 DEF DataRequest, Joined, Goto, Kinds, LocationsOK, Served, DataUses,
           Running, Freed
  <2>2. CASE x # d.at
        BY <1>5, <2>2 DEF DataRequest, Goto, Kinds, LocationsOK
  <2> QED BY <2>1, <2>2
<1>6. CASE DataRequestFails
  <2>1. CASE x = d.at
        BY <1>6, <2>1 DEF DataRequestFails, Served, DataUses, Running
  <2>2. CASE x # d.at
        BY <1>6, <2>2 DEF DataRequestFails
  <2> QED BY <2>1, <2>2
<1>7. CASE DataNothing BY <1>7 DEF DataNothing
<1>8. CASE DataDrop BY <1>8 DEF DataDrop
<1>9. CASE DataPut BY <1>9 DEF DataPut
<1> QED BY <1>1, <1>2, <1>3, <1>4, <1>5, <1>6, <1>7, <1>8, <1>9 DEF DataStep

LEMMA ThreadReasoned ==
  ASSUME IInv, NEW x \in Conns, Reasoned(x), NEW c \in Conns,
         \/ RequestStep(c) \/ RequestTimeout(c) \/ ResponseStep(c) \/ HandlerReturns(c)
         \/ EncoderStep(c)
  PROVE  Reasoned(x)'
<1>0. /\ conn \in [Conns -> ConnFields] /\ LocationsOK
      /\ Served(x) /\ Served(c)
      BY DEF IInv, Typed, TypeOK
<1> USE <1>0 DEF Reasoned, ConnFields, Reading, TakenDown, At, Goto, Leave, Put,
        LocationsOK, Kinds, others, history
<1>1. CASE RequestStart(c) BY <1>1 DEF RequestStart
<1>2. CASE RequestStartFails(c) BY <1>2 DEF RequestStartFails
<1>3. CASE SafeEnd(c, "rq", "rs") BY <1>3 DEF SafeEnd
<1>4. CASE RequestTimeout(c)
  <2>1. pc' = [pc EXCEPT ![c]["rq"] = "stop"] \/ UNCHANGED pc
        BY <1>4, CancelMoves DEF RequestTimeout
  <2> QED BY <1>4, <2>1 DEF RequestTimeout
<1>5. CASE SendHeader(c) BY <1>5 DEF SendHeader
<1>6. CASE SendHeaderChunked(c) BY <1>6 DEF SendHeaderChunked
<1>7. CASE SendHeaderFails(c) BY <1>7 DEF SendHeaderFails
<1>8. CASE ResponseReset(c)
  <2>1. /\ pc' = [pc EXCEPT ![c]["rs"] = "reset"] \/ UNCHANGED pc
        /\ conn' = [conn EXCEPT ![c] = [@ EXCEPT !.resetOkay = NULL, !.lock = "rs"]]
        /\ conn[c].isPersistent /\ UNCHANGED <<mem, toFree, d, cl, reason>>
        BY <1>8, CancelMoves DEF ResponseReset
  <2> QED BY <2>1
<1>9. CASE ResponseLeave(c) BY <1>9 DEF ResponseLeave
<1>10. CASE ResponseEnd(c)
  <2>1. pc' = [pc EXCEPT ![c]["rs"] = "stop"] \/ UNCHANGED pc
        BY <1>10, CancelMoves DEF ResponseEnd
  <2> QED BY <1>10, <2>1 DEF ResponseEnd
<1>11. CASE ResponseResets(c)
  <2>1. CASE x = c BY <1>11, <2>1 DEF ResponseResets, Reset, ResetFields, Served, Running, DataUses
  <2>2. CASE x # c BY <1>11, <2>2 DEF ResponseResets, Reset
  <2> QED BY <2>1, <2>2
<1>12. CASE SafeEnd(c, "rs", "rq") BY <1>12 DEF SafeEnd
<1>13. CASE HandlerReturns(c) BY <1>13 DEF HandlerReturns
<1>14. CASE EncoderCopies(c) BY <1>14 DEF EncoderCopies
<1>15. CASE EncoderGivesUp(c) BY <1>15 DEF EncoderGivesUp
<1>16. CASE EncoderLocks(c)
  <2>1. /\ pc' = [pc EXCEPT ![c]["en"] = "reset"] \/ UNCHANGED pc
        /\ conn' = [conn EXCEPT ![c].lock = "en"]
        /\ UNCHANGED <<mem, toFree, d, cl, reason>>
        BY <1>16, CancelMoves DEF EncoderLocks
  <2> QED BY <2>1
<1>17. CASE EncoderResets(c)
  <2>1. CASE x = c BY <1>17, <2>1 DEF EncoderResets, Reset, ResetFields, Served, Running, DataUses
  <2>2. CASE x # c BY <1>17, <2>2 DEF EncoderResets, Reset
  <2> QED BY <2>1, <2>2
<1>18. CASE \E k \in Kinds : Die(c, k) BY <1>18 DEF Die
<1>19. CASE SendHeaderRefused(c) \/ EncoderJoinsNobody(c)
       BY <1>19 DEF SendHeaderRefused, EncoderJoinsNobody
<1> QED BY <1>1, <1>2, <1>3, <1>4, <1>5, <1>6, <1>7, <1>8, <1>9, <1>10, <1>11, <1>12,
           <1>13, <1>14, <1>15, <1>16, <1>17, <1>18, <1>19
        DEF RequestStep, ResponseStep, EncoderStep

LEMMA CleanupReasoned ==
  ASSUME IInv, CleanupStep, NEW x \in Conns, Reasoned(x) PROVE Reasoned(x)'
<1>0. /\ conn \in [Conns -> ConnFields] /\ LocationsOK /\ Standing
      /\ reason \in [Conns -> {"none", "timeout", "drop"}]
      /\ cl \in [pc : CleanupPCs, at : Conns \cup {NULL}, todo : SUBSET Conns, old : BOOLEAN]
      /\ mem \in [Conns -> {"none", "live", "freed"}]
      /\ Served(x) /\ Freed(x)
      BY DEF IInv, Typed, TypeOK
<1> USE <1>0 DEF Reasoned, ConnFields, Reading, TakenDown, Standing, CleanupAt,
        PassGoesOn, lists, daemons, history
<1>1. CASE CleanupWake BY <1>1 DEF CleanupWake
<1>2. CASE CleanupNext
  <2>1. /\ cl'.pc = "check" \/ (cl'.pc = "next2" /\ cl'.todo = toFree)
        /\ UNCHANGED <<mem, conn, pc, toFree, d, reason>>
        BY <1>2 DEF CleanupNext
  <2> QED BY <2>1
<1>3. CASE CleanupKeep BY <1>3 DEF CleanupKeep
<1>4. CASE CleanupAbort BY <1>4 DEF CleanupAbort, Expired, Served, Running
<1>5. CASE CleanupMove BY <1>5 DEF CleanupMove, DoneWith
<1>6. CASE CleanupExamine
  <2>1. PICK c \in cl.todo :
          \/ /\ cl' = [cl EXCEPT !.todo = @ \ {c}]
             /\ UNCHANGED <<conn, toFree>>
          \/ /\ cl' = [cl EXCEPT !.todo = @ \ {c}, !.at = c, !.pc = "stop"]
             /\ conn' = [conn EXCEPT ![c].lock = "cl"]
             /\ toFree' = toFree \ {c}
        BY <1>6 DEF CleanupExamine
  <2>2. c \in Conns /\ cl.pc = "next2" /\ UNCHANGED <<mem, pc, d, reason>>
        BY <1>6 DEF CleanupExamine
  <2>3. /\ conn'[x].state = conn[x].state
        /\ conn'[x].isPersistent = conn[x].isPersistent
        BY <2>1, <2>2
  <2>4. TakenDown(x)' => x = c
        BY <2>1, <2>2
  <2>5. x = c => x \in toFree
        BY <2>2
  <2>6. cl'.todo = cl.todo \ {c}
        BY <2>1
  <2> HIDE DEF TakenDown
  <2> QED BY <2>1, <2>2, <2>3, <2>4, <2>5, <2>6
<1>7. CASE CleanupDone BY <1>7 DEF CleanupDone
<1>8. CASE CleanupFree BY <1>8 DEF CleanupFree
<1>9. CASE \E k \in Kinds : CleanupCancel(k) BY <1>9 DEF CleanupCancel
<1>10. CASE \E k \in Kinds : CleanupStopsNobody(k) BY <1>10 DEF CleanupStopsNobody
<1> QED BY <1>1, <1>2, <1>3, <1>4, <1>5, <1>6, <1>7, <1>8, <1>9, <1>10 DEF CleanupStep

LEMMA EnvironmentReasoned ==
  ASSUME IInv, NEW x \in Conns, Reasoned(x), NEW c \in Conns, Environment(c)
  PROVE  Reasoned(x)'
<1>0. /\ conn \in [Conns -> ConnFields] /\ mem \in [Conns -> {"none", "live", "freed"}]
      /\ cl \in [pc : CleanupPCs, at : Conns \cup {NULL}, todo : SUBSET Conns, old : BOOLEAN]
      /\ d \in [pc : DataPCs, at : Conns \cup {NULL}, todo : SUBSET Conns]
      /\ Served(x) /\ Freed(x)
      BY DEF IInv, Typed, TypeOK
<1> USE <1>0 DEF Reasoned, Reading, TakenDown, lists, daemons, history
<1>1. CASE ClientSend(c) \/ ClientClose(c) \/ TimePasses(c)
      BY <1>1 DEF ClientSend, ClientClose, TimePasses
<1>2. CASE Accept(c)
  <2>1. CASE x = c BY <1>2, <2>1 DEF Accept, NewConn, Served, Freed, Running
  <2>2. CASE x # c BY <1>2, <2>2 DEF Accept
  <2> QED BY <2>1, <2>2
<1> QED BY <1>1, <1>2 DEF Environment

LEMMA InitReasoned == ASSUME Init, NEW c \in Conns PROVE Reasoned(c)
BY DEF Init, Reasoned, NewConn, Reading, TakenDown, Kinds

AllReasoned == \A c \in Conns : Reasoned(c)

LEMMA ReasonedInvariant == Spec => []AllReasoned
<1>1. Init => AllReasoned
      BY InitReasoned DEF AllReasoned
<1>2. ASSUME IInv, AllReasoned, [Next]_vars PROVE AllReasoned'
  <2>1. CASE Next
        BY <1>2, <2>1, DataReasoned, ThreadReasoned, CleanupReasoned, EnvironmentReasoned
        DEF AllReasoned, Next
  <2>2. CASE UNCHANGED vars
        BY <1>2, <2>2 DEF vars, AllReasoned, Reasoned, Reading, TakenDown
  <2> QED BY <1>2, <2>1, <2>2
<1> QED BY <1>1, <1>2, Invariant, PTL DEF Spec

\* No connection that is kept alive is lost: whatever times out or fails, one is
\* freed after its one request, or because it was aborted.
THEOREM FreedWithReason == Spec => []FreedForAReason
<1>1. AllReasoned => FreedForAReason
      BY DEF AllReasoned, Reasoned, FreedForAReason
<1> QED BY <1>1, ReasonedInvariant, PTL

-----------------------------------------------------------------------------
(* Handlers that return in time.  A handler that takes longer breaks all   *)
(* that follows: RequestTimeout then cancels a response thread that may    *)
(* hold the lock or be the one to reset the connection.                    *)

\* As long as no handler is late, only a request thread is ever cancelled, and
\* only by the thread that goes on to end the request; its own 30 s end when
\* nobody else works on the request.  A response or an encoder that runs therefore
\* belongs to a request under way, whose slots are filled, and whoever holds the
\* lock is where it will be given back.
Orderly(c) ==
  /\ ~cancel[c]["rs"] /\ ~cancel[c]["en"]
  /\ pc[c]["rq"] = "stop" =>
       pc[c]["rs"] \notin Running["rs"] /\ pc[c]["en"] \notin Running["en"]
  /\ serving[c] => Id(c, "rq") = "set"
  /\ pc[c]["rs"] \in Running["rs"] \/ pc[c]["en"] \in Running["en"] =>
       serving[c] /\ Id(c, "rs") = "set"
  /\ pc[c]["rq"] = "create" =>
       pc[c]["rs"] \notin Running["rs"] /\ pc[c]["en"] \notin Running["en"]
  /\ conn[c].lock = "rs" => pc[c]["rs"] = "reset"
  /\ conn[c].lock = "en" => pc[c]["en"] = "reset"
  /\ conn[c].lock = "cl" => TakenDown(c)

LEMMA DataOrderly ==
  ASSUME IInv, DataStep, NEW x \in Conns, Orderly(x) PROVE Orderly(x)'
<1>0. /\ conn \in [Conns -> ConnFields] /\ LocationsOK /\ Standing
      /\ serving \in [Conns -> BOOLEAN]
      /\ d \in [pc : DataPCs, at : Conns \cup {NULL}, todo : SUBSET Conns]
      /\ Served(x)
      BY DEF IInv, Typed, TypeOK
<1> USE <1>0 DEF Orderly, ConnFields, TakenDown, Standing, DataAt, Put, Id, Kinds,
        LocationsOK, Joined, DataGoesOn, lists, daemons, history
<1>1. CASE DataWake BY <1>1 DEF DataWake
<1>2. CASE DataNext BY <1>2 DEF DataNext
<1>3. CASE DataTouchesFreed BY <1>3 DEF DataTouchesFreed
<1>4. CASE DataLock
  <2>1. conn' = conn \/ conn' = [conn EXCEPT ![d.at].inUse = @ + 1]
        BY <1>4 DEF DataLock
  <2>2. d.at \in Conns /\ UNCHANGED <<pc, cancel, cl, serving>>
        BY <1>4 DEF DataLock
  <2>3. conn'[x].threads = conn[x].threads /\ conn'[x].lock = conn[x].lock
        BY <2>1, <2>2
  <2> QED BY <2>2, <2>3
<1>5. CASE DataRequest
  <2>1. CASE x = d.at
        BY <1>5, <2>1 DEF DataRequest, Goto, Served, DataUses, Running, Unlocked, PriorJoined
  <2>2. CASE x # d.at
        BY <1>5, <2>2 DEF DataRequest, Goto
  <2> QED BY <2>1, <2>2
<1>6. CASE DataRequestFails
  <2>1. CASE x = d.at
        BY <1>6, <2>1 DEF DataRequestFails, Served, DataUses
  <2>2. CASE x # d.at
        BY <1>6, <2>2 DEF DataRequestFails
  <2> QED BY <2>1, <2>2
<1>7. CASE DataNothing
  <2>1. CASE x = d.at BY <1>7, <2>1 DEF DataNothing, Served, DataUses
  <2>2. CASE x # d.at BY <1>7, <2>2 DEF DataNothing
  <2> QED BY <2>1, <2>2
<1>8. CASE DataDrop
  <2>1. CASE x = d.at BY <1>8, <2>1 DEF DataDrop, Served, DataUses
  <2>2. CASE x # d.at BY <1>8, <2>2 DEF DataDrop
  <2> QED BY <2>1, <2>2
<1>9. CASE DataPut BY <1>9 DEF DataPut
<1> QED BY <1>1, <1>2, <1>3, <1>4, <1>5, <1>6, <1>7, <1>8, <1>9 DEF DataStep

\* The first half of stopThread, of a request thread that exists.
LEMMA CancelsRequest ==
  ASSUME NEW c, NEW by, NEW l, Cancel(c, by, l, "rq"), Id(c, "rq") = "set"
  PROVE  /\ cancel' = [cancel EXCEPT ![c]["rq"] = ~Over(c, "rq")]
         /\ pc' = [pc EXCEPT ![c][by] = l] /\ fault' = fault
BY Zenon DEF Cancel, Goto

LEMMA ResponseOrderly ==
  ASSUME IInv, NEW x \in Conns, Orderly(x), NEW c \in Conns, Orderly(c),
         ResponseStep(c) \/ HandlerReturns(c)
  PROVE  Orderly(x)'
<1>0. /\ conn \in [Conns -> ConnFields] /\ LocationsOK
      /\ cancel \in [Conns -> [Kinds -> BOOLEAN]] /\ serving \in [Conns -> BOOLEAN]
      /\ Served(x) /\ Served(c)
      BY DEF IInv, Typed, TypeOK
<1> USE <1>0 DEF Orderly, ConnFields, TakenDown, At, Goto, Leave, Put, Id, Unlocked,
        Running, LocationsOK, Kinds, others, history
<1>1. CASE SendHeader(c) BY <1>1 DEF SendHeader
<1>2. CASE SendHeaderChunked(c)
  <2>1. CASE x = c BY <1>2, <2>1 DEF SendHeaderChunked
  <2>2. CASE x # c BY <1>2, <2>2 DEF SendHeaderChunked
  <2> QED BY <2>1, <2>2
<1>3. CASE SendHeaderFails(c)
  <2>1. PICK id \in FailedIds(c, "en") :
          conn' = [conn EXCEPT ![c] =
                    [@ EXCEPT !.isChunked = TRUE, !.resetOkay = "rs", !.threads["en"] = id]]
        BY <1>3 DEF SendHeaderFails
  <2>2. /\ UNCHANGED <<cancel, cl, serving>> /\ pc[c]["rs"] = "handler"
        /\ pc' = [pc EXCEPT ![c]["en"] = "none", ![c]["rs"] = "body"]
        BY <1>3 DEF SendHeaderFails
  <2>3. CASE x = c BY <2>1, <2>2, <2>3
  <2>4. CASE x # c BY <2>1, <2>2, <2>4
  <2> QED BY <2>3, <2>4
<1>4. CASE SendHeaderRefused(c) BY <1>4 DEF SendHeaderRefused
<1>5. CASE HandlerReturns(c) BY <1>5 DEF HandlerReturns
<1>6. CASE ResponseReset(c)
  <2>1. /\ cancel' = [cancel EXCEPT ![c]["rq"] = ~Over(c, "rq")]
        /\ pc' = [pc EXCEPT ![c]["rs"] = "reset"]
        BY <1>6, CancelsRequest DEF ResponseReset
  <2>2. /\ conn' = [conn EXCEPT ![c] = [@ EXCEPT !.resetOkay = NULL, !.lock = "rs"]]
        /\ UNCHANGED <<cl, serving>> /\ pc[c]["rs"] = "end" /\ conn[c].lock = NULL
        BY <1>6 DEF ResponseReset
  <2>3. CASE x = c BY <2>1, <2>2, <2>3, ConnectionAssumption
  <2>4. CASE x # c BY <2>1, <2>2, <2>4
  <2> QED BY <2>3, <2>4
<1>7. CASE ResponseLeave(c) BY <1>7, ConnectionAssumption DEF ResponseLeave
<1>8. CASE ResponseEnd(c)
  <2>1. /\ cancel' = [cancel EXCEPT ![c]["rq"] = ~Over(c, "rq")]
        /\ pc' = [pc EXCEPT ![c]["rs"] = "stop"]
        BY <1>8, CancelsRequest DEF ResponseEnd
  <2>2. UNCHANGED <<conn, cl, serving>> /\ pc[c]["rs"] = "end" /\ conn[c].lock = NULL
        BY <1>8 DEF ResponseEnd
  <2> QED BY <2>1, <2>2, ConnectionAssumption
<1>9. CASE ResponseResets(c)
  <2>1. CASE x = c
        BY <1>9, <2>1, ConnectionAssumption DEF ResponseResets, Reset, ResetFields, Emptied,
           Over, Finished, Served
  <2>2. CASE x # c BY <1>9, <2>2 DEF ResponseResets, Reset
  <2> QED BY <2>1, <2>2
<1>10. CASE SafeEnd(c, "rs", "rq")
  <2>1. CASE x = c BY <1>10, <2>1, ConnectionAssumption DEF SafeEnd, Served
  <2>2. CASE x # c BY <1>10, <2>2 DEF SafeEnd
  <2> QED BY <2>1, <2>2
<1>11. CASE Die(c, "rs") BY <1>11 DEF Die
<1> QED BY <1>1, <1>2, <1>3, <1>4, <1>5, <1>6, <1>7, <1>8, <1>9, <1>10, <1>11 DEF ResponseStep

LEMMA RequestOrderly ==
  ASSUME IInv, ~HandlerMayTimeOut, NEW x \in Conns, Orderly(x), NEW c \in Conns, Orderly(c),
         RequestStep(c) \/ RequestTimeout(c)
  PROVE  Orderly(x)'
<1>0. /\ conn \in [Conns -> ConnFields] /\ LocationsOK
      /\ cancel \in [Conns -> [Kinds -> BOOLEAN]] /\ serving \in [Conns -> BOOLEAN]
      /\ Served(x) /\ Served(c)
      BY DEF IInv, Typed, TypeOK
<1> USE <1>0 DEF Orderly, ConnFields, TakenDown, At, Goto, Leave, Put, Id, Unlocked,
        Running, LocationsOK, Kinds, others, history
<1>1. CASE RequestStart(c)
  <2>1. CASE x = c
    <3>1. /\ pc'[x]["rq"] = "sleep" /\ pc'[x]["rs"] = "handler"
          /\ pc'[x]["en"] = pc[x]["en"] /\ UNCHANGED <<cancel, cl, serving>>
          BY <1>1, <2>1 DEF RequestStart
    <3>2. /\ conn'[x].threads = [conn[x].threads EXCEPT !["rs"] = "set"]
          /\ conn'[x].lock = conn[x].lock
          BY <1>1, <2>1 DEF RequestStart
    <3>3. serving[x] /\ pc[x]["en"] \notin Running["en"] /\ conn[x].lock # "rs"
          BY <1>1, <2>1 DEF RequestStart, Served
    <3> QED BY <3>1, <3>2, <3>3
  <2>2. CASE x # c BY <1>1, <2>2 DEF RequestStart
  <2> QED BY <2>1, <2>2
<1>2. CASE RequestStartFails(c)
  <2>1. PICK id \in FailedIds(c, "rs") : conn' = [conn EXCEPT ![c].threads["rs"] = id]
        BY <1>2 DEF RequestStartFails
  <2>2. /\ UNCHANGED <<cancel, cl, serving>> /\ pc[c]["rq"] = "create"
        /\ pc' = [pc EXCEPT ![c]["rs"] = "none", ![c]["rq"] = "sleep"]
        BY <1>2 DEF RequestStartFails
  <2>3. CASE x = c BY <2>1, <2>2, <2>3
  <2>4. CASE x # c BY <2>1, <2>2, <2>4
  <2> QED BY <2>3, <2>4
<1>3. CASE SafeEnd(c, "rq", "rs")
  <2>1. CASE x = c BY <1>3, <2>1 DEF SafeEnd
  <2>2. CASE x # c BY <1>3, <2>2 DEF SafeEnd
  <2> QED BY <2>1, <2>2
<1>4. CASE Die(c, "rq") BY <1>4 DEF Die
<1>5. CASE RequestTimeout(c)
  <2>1. /\ pc[c]["rs"] \notin Running["rs"] /\ pc[c]["en"] \notin Running["en"]
        /\ UNCHANGED <<conn, cl, serving>> /\ Over(c, "rs")
        BY <1>5 DEF RequestTimeout, Over, Finished
  <2>2. \/ UNCHANGED <<pc, cancel>>
        \/ /\ pc' = [pc EXCEPT ![c]["rq"] = "stop"]
           /\ cancel' = [cancel EXCEPT ![c]["rs"] = FALSE]
        BY <1>5, <2>1, Zenon DEF RequestTimeout, Cancel
  <2>3. CASE UNCHANGED <<pc, cancel>> BY <2>1, <2>3
  <2>4. CASE /\ pc' = [pc EXCEPT ![c]["rq"] = "stop"]
             /\ cancel' = [cancel EXCEPT ![c]["rs"] = FALSE]
    <3>1. CASE x = c BY <2>1, <2>4, <3>1
    <3>2. CASE x # c BY <2>1, <2>4, <3>2
    <3> QED BY <3>1, <3>2
  <2> QED BY <2>2, <2>3, <2>4
<1> QED BY <1>1, <1>2, <1>3, <1>4, <1>5 DEF RequestStep

LEMMA EncoderOrderly ==
  ASSUME IInv, NEW x \in Conns, Orderly(x), NEW c \in Conns, Orderly(c), EncoderStep(c)
  PROVE  Orderly(x)'
<1>0. /\ conn \in [Conns -> ConnFields] /\ LocationsOK
      /\ cancel \in [Conns -> [Kinds -> BOOLEAN]] /\ serving \in [Conns -> BOOLEAN]
      /\ Served(x) /\ Served(c)
      BY DEF IInv, Typed, TypeOK
<1> USE <1>0 DEF Orderly, ConnFields, TakenDown, At, Goto, Leave, Put, Id, Unlocked,
        Running, LocationsOK, Kinds, others, history
<1>1. CASE EncoderCopies(c) BY <1>1 DEF EncoderCopies
<1>2. CASE EncoderGivesUp(c) BY <1>2 DEF EncoderGivesUp
<1>3. CASE EncoderLocks(c)
  <2>1. /\ cancel' = [cancel EXCEPT ![c]["rq"] = ~Over(c, "rq")]
        /\ pc' = [pc EXCEPT ![c]["en"] = "reset"]
        BY <1>3, CancelsRequest DEF EncoderLocks
  <2>2. /\ conn' = [conn EXCEPT ![c].lock = "en"]
        /\ UNCHANGED <<cl, serving>> /\ pc[c]["en"] = "wait" /\ conn[c].lock = NULL
        BY <1>3 DEF EncoderLocks
  <2>3. CASE x = c BY <2>1, <2>2, <2>3, ConnectionAssumption
  <2>4. CASE x # c BY <2>1, <2>2, <2>4
  <2> QED BY <2>3, <2>4
<1>4. CASE EncoderResets(c)
  <2>1. CASE x = c
        BY <1>4, <2>1, ConnectionAssumption DEF EncoderResets, Reset, ResetFields, Emptied,
           Over, Finished, Served
  <2>2. CASE x # c BY <1>4, <2>2 DEF EncoderResets, Reset
  <2> QED BY <2>1, <2>2
<1>5. CASE EncoderJoinsNobody(c) BY <1>5 DEF EncoderJoinsNobody
<1>6. CASE Die(c, "en") BY <1>6 DEF Die
<1> QED BY <1>1, <1>2, <1>3, <1>4, <1>5, <1>6 DEF EncoderStep

\* cleanup comes to a connection that nobody uses: all its threads have ended.
LEMMA CleanupOrderly ==
  ASSUME IInv, NEW x \in Conns, Orderly(x), CleanupStep
  PROVE  Orderly(x)'
<1>0. /\ conn \in [Conns -> ConnFields] /\ LocationsOK /\ Standing
      /\ cancel \in [Conns -> [Kinds -> BOOLEAN]]
      /\ cl \in [pc : CleanupPCs, at : Conns \cup {NULL}, todo : SUBSET Conns, old : BOOLEAN]
      /\ Served(x) /\ Freed(x)
      BY DEF IInv, Typed, TypeOK
<1> USE <1>0 DEF Orderly, ConnFields, TakenDown, Standing, CleanupAt, Id, Unlocked,
        Running, LocationsOK, Kinds, PassGoesOn, lists, daemons, history
<1>1. CASE CleanupWake BY <1>1 DEF CleanupWake
<1>2. CASE CleanupNext BY <1>2 DEF CleanupNext
<1>3. CASE CleanupKeep BY <1>3 DEF CleanupKeep
<1>4. CASE CleanupAbort BY <1>4 DEF CleanupAbort, Expired
<1>5. CASE CleanupMove BY <1>5 DEF CleanupMove
<1>6. CASE CleanupExamine
  <2>1. PICK c \in cl.todo :
          \/ /\ cl' = [cl EXCEPT !.todo = @ \ {c}]
             /\ UNCHANGED <<conn, toFree>>
          \/ /\ cl' = [cl EXCEPT !.todo = @ \ {c}, !.at = c, !.pc = "stop"]
             /\ conn' = [conn EXCEPT ![c].lock = "cl"]
        BY <1>6 DEF CleanupExamine
  <2>2. /\ c \in Conns /\ cl.pc = "next2" /\ UNCHANGED <<pc, cancel, serving>>
        /\ conn[c].lock = NULL \/ conn' = conn
        BY <1>6, <2>1 DEF CleanupExamine
  <2>3. CASE conn' = conn
        BY <2>1, <2>2, <2>3
  <2>4. CASE /\ conn' = [conn EXCEPT ![c].lock = "cl"]
             /\ cl' = [cl EXCEPT !.todo = @ \ {c}, !.at = c, !.pc = "stop"]
    <3>1. CASE x = c
      <4>1. /\ conn'[x].lock = "cl" /\ conn'[x].state = conn[x].state
            /\ conn'[x].isPersistent = conn[x].isPersistent
            /\ conn'[x].threads = conn[x].threads
            BY <2>2, <2>4, <3>1
      <4>2. cl'.pc = "stop" /\ cl'.at = x
            BY <2>4, <3>1
      <4> QED BY <2>2, <4>1, <4>2
    <3>2. CASE x # c BY <2>2, <2>4, <3>2
    <3> QED BY <3>1, <3>2
  <2> QED BY <2>1, <2>3, <2>4
<1>7. CASE CleanupDone BY <1>7 DEF CleanupDone
<1>8. CASE CleanupFree
  <2>1. CASE x = cl.at BY <1>8, <2>1, ConnectionAssumption DEF CleanupFree
  <2>2. CASE x # cl.at BY <1>8, <2>2 DEF CleanupFree
  <2> QED BY <2>1, <2>2
<1>9. ASSUME NEW k \in Kinds, CleanupCancel(k) PROVE Orderly(x)'
  <2>1. CASE x = cl.at
    <3>1. ~serving[x] /\ pc[x][k] \in Running[k]
          BY <1>9, <2>1, ConnectionAssumption DEF CleanupCancel, Freed, Served, DataUses, Over
    <3> QED BY <3>1 DEF Served
  <2>2. CASE x # cl.at BY <1>9, <2>2 DEF CleanupCancel
  <2> QED BY <2>1, <2>2
<1>10. CASE \E k \in Kinds : CleanupStopsNobody(k) BY <1>10 DEF CleanupStopsNobody
<1> QED BY <1>1, <1>2, <1>3, <1>4, <1>5, <1>6, <1>7, <1>8, <1>9, <1>10 DEF CleanupStep

LEMMA EnvironmentOrderly ==
  ASSUME IInv, NEW x \in Conns, Orderly(x), NEW c \in Conns, Environment(c)
  PROVE  Orderly(x)'
<1>0. /\ conn \in [Conns -> ConnFields] /\ LocationsOK
      /\ Served(x) /\ Freed(x)
      BY DEF IInv, Typed, TypeOK
<1> USE <1>0 DEF Orderly, TakenDown, Id, Running, Kinds, LocationsOK, lists, daemons, history
<1>1. CASE ClientSend(c) \/ ClientClose(c) \/ TimePasses(c)
      BY <1>1 DEF ClientSend, ClientClose, TimePasses
<1>2. CASE Accept(c)
  <2>1. CASE x = c
        BY <1>2, <2>1, ConnectionAssumption DEF Accept, NewConn, Served, Freed
  <2>2. CASE x # c BY <1>2, <2>2 DEF Accept
  <2> QED BY <2>1, <2>2
<1> QED BY <1>1, <1>2 DEF Environment

LEMMA InitOrderly == ASSUME Init, NEW c \in Conns PROVE Orderly(c)
BY ConnectionAssumption DEF Init, Orderly, NewConn, Id, Kinds, Running, TakenDown

AllOrderly == \A c \in Conns : Orderly(c)

LEMMA OrderlyInductive ==
  ASSUME IInv, ~HandlerMayTimeOut, AllOrderly, [Next]_vars PROVE AllOrderly'
<1>1. CASE Next
      BY <1>1, DataOrderly, RequestOrderly, ResponseOrderly, EncoderOrderly,
         CleanupOrderly, EnvironmentOrderly DEF AllOrderly, Next
<1>2. CASE UNCHANGED vars
      BY <1>2 DEF vars, AllOrderly, Orderly, TakenDown, Id
<1> QED BY <1>1, <1>2

LEMMA OrderlyInvariant ==
  ASSUME ~HandlerMayTimeOut PROVE Spec => []AllOrderly
<1>1. Init => AllOrderly
      BY InitOrderly DEF AllOrderly
<1>2. IInv /\ AllOrderly /\ [Next]_vars => AllOrderly'
      BY OrderlyInductive
<1> QED BY <1>1, <1>2, Invariant, PTL DEF Spec

\* As long as handlers return in time, the holder of connection->lock lives to
\* unlock it, whatever else fails.
THEOREM LockIsGivenBack == ~HandlerMayTimeOut => (Spec => []LockHolderAlive)
<1> SUFFICES ASSUME ~HandlerMayTimeOut PROVE Spec => []LockHolderAlive
    OBVIOUS
<1>1. AllOrderly => LockHolderAlive
      BY DEF AllOrderly, Orderly, LockHolderAlive, TakenDown, Over, Finished
<1> QED BY <1>1, OrderlyInvariant, PTL

-----------------------------------------------------------------------------
(* Calls that succeed besides.  Then somebody who will end it works on     *)
(* every request under way, and its 30 s never end.                        *)

\* A request under way is about to get its response thread, or has one that
\* runs, or has handed over to an encoder thread that runs; KEEP_ALIVE is the
\* state of a persistent connection with a request under way.
Attended(c) ==
  /\ pc[c]["rq"] # "stop"
  /\ serving[c] => \/ pc[c]["rq"] = "create"
                   \/ pc[c]["rs"] \in Running["rs"] \/ pc[c]["en"] \in Running["en"]
  /\ pc[c]["rs"] \in {"body", "end"} /\ conn[c].isPersistent /\ conn[c].isChunked =>
       pc[c]["en"] \in Running["en"]
  /\ conn[c].state = "KEEP_ALIVE" => serving[c] /\ conn[c].isPersistent

AllAttended == \A c \in Conns : Attended(c)

\* Where everything is in time and succeeds, the 30 s are never over.
LEMMA NoTimeout ==
  ASSUME IInv, ~HandlerMayTimeOut, NEW c \in Conns, Attended(c)
  PROVE  ~RequestTimeout(c)
BY DEF RequestTimeout, IInv, Served, Attended, At, Over, Running, Finished

LEMMA DataAttended ==
  ASSUME IInv, ~MayFail, DataStep, NEW x \in Conns, Orderly(x), Attended(x)
  PROVE  Attended(x)'
<1>0. /\ conn \in [Conns -> ConnFields] /\ LocationsOK /\ Standing
      /\ serving \in [Conns -> BOOLEAN]
      /\ d \in [pc : DataPCs, at : Conns \cup {NULL}, todo : SUBSET Conns]
      /\ Served(x)
      BY DEF IInv, Typed, TypeOK
<1> USE <1>0 DEF Attended, ConnFields, Standing, DataAt, Put, Kinds, LocationsOK, Running,
        Joined, DataGoesOn, lists, daemons, history
<1>1. CASE DataWake BY <1>1 DEF DataWake
<1>2. CASE DataNext BY <1>2 DEF DataNext
<1>3. CASE DataTouchesFreed BY <1>3 DEF DataTouchesFreed
<1>4. CASE DataLock
  <2>1. conn' = conn \/ conn' = [conn EXCEPT ![d.at].inUse = @ + 1]
        BY <1>4 DEF DataLock
  <2>2. d.at \in Conns /\ UNCHANGED <<pc, serving>>
        BY <1>4 DEF DataLock
  <2>3. CASE x = d.at BY <2>1, <2>2, <2>3
  <2>4. CASE x # d.at BY <2>1, <2>2, <2>4
  <2> QED BY <2>3, <2>4
<1>5. CASE DataRequest
  <2>1. CASE x = d.at
        BY <1>5, <2>1 DEF DataRequest, Goto, Served, DataUses, Orderly
  <2>2. CASE x # d.at
        BY <1>5, <2>2 DEF DataRequest, Goto
  <2> QED BY <2>1, <2>2
<1>6. CASE DataRequestFails BY <1>6 DEF DataRequestFails
<1>7. CASE DataNothing
  <2>1. CASE x = d.at BY <1>7, <2>1 DEF DataNothing, Served, DataUses
  <2>2. CASE x # d.at BY <1>7, <2>2 DEF DataNothing
  <2> QED BY <2>1, <2>2
<1>8. CASE DataDrop
  <2>1. CASE x = d.at BY <1>8, <2>1 DEF DataDrop, Served, DataUses
  <2>2. CASE x # d.at BY <1>8, <2>2 DEF DataDrop
  <2> QED BY <2>1, <2>2
<1>9. CASE DataPut BY <1>9 DEF DataPut
<1> QED BY <1>1, <1>2, <1>3, <1>4, <1>5, <1>6, <1>7, <1>8, <1>9 DEF DataStep

LEMMA ResponseAttended ==
  ASSUME IInv, ~MayFail, NEW x \in Conns, Attended(x), NEW c \in Conns, Orderly(c),
         Attended(c), ResponseStep(c) \/ HandlerReturns(c)
  PROVE  Attended(x)'
<1>0. /\ conn \in [Conns -> ConnFields] /\ LocationsOK
      /\ serving \in [Conns -> BOOLEAN] /\ Served(x) /\ Served(c)
      BY DEF IInv, Typed, TypeOK
<1> USE <1>0 DEF Attended, ConnFields, At, Goto, Leave, Put, Running, LocationsOK, Kinds,
        others, history
<1>1. CASE SendHeader(c) BY <1>1 DEF SendHeader
<1>2. CASE SendHeaderChunked(c)
  <2>1. CASE x = c BY <1>2, <2>1 DEF SendHeaderChunked
  <2>2. CASE x # c BY <1>2, <2>2 DEF SendHeaderChunked
  <2> QED BY <2>1, <2>2
<1>3. CASE SendHeaderFails(c) BY <1>3 DEF SendHeaderFails
<1>4. CASE SendHeaderRefused(c) BY <1>4 DEF SendHeaderRefused
<1>5. CASE HandlerReturns(c) BY <1>5 DEF HandlerReturns
<1>6. CASE ResponseReset(c)
  <2>1. UNCHANGED pc \/ pc' = [pc EXCEPT ![c]["rs"] = "reset"]
        BY <1>6, CancelMoves DEF ResponseReset
  <2>2. /\ conn' = [conn EXCEPT ![c] = [@ EXCEPT !.resetOkay = NULL, !.lock = "rs"]]
        /\ UNCHANGED serving
        BY <1>6 DEF ResponseReset
  <2>3. CASE x = c BY <2>1, <2>2, <2>3
  <2>4. CASE x # c BY <2>1, <2>2, <2>4
  <2> QED BY <2>3, <2>4
<1>7. CASE ResponseLeave(c)
  <2>1. CASE x = c BY <1>7, <2>1 DEF ResponseLeave
  <2>2. CASE x # c BY <1>7, <2>2 DEF ResponseLeave
  <2> QED BY <2>1, <2>2
<1>8. CASE ResponseEnd(c)
  <2>1. UNCHANGED pc \/ pc' = [pc EXCEPT ![c]["rs"] = "stop"]
        BY <1>8, CancelMoves DEF ResponseEnd
  <2> QED BY <1>8, <2>1 DEF ResponseEnd
<1>9. CASE ResponseResets(c)
  <2>1. CASE x = c
        BY <1>9, <2>1 DEF ResponseResets, Reset, ResetFields, Over, Finished
  <2>2. CASE x # c BY <1>9, <2>2 DEF ResponseResets, Reset
  <2> QED BY <2>1, <2>2
<1>10. CASE SafeEnd(c, "rs", "rq")
  <2>1. CASE x = c BY <1>10, <2>1 DEF SafeEnd, Served
  <2>2. CASE x # c BY <1>10, <2>2 DEF SafeEnd
  <2> QED BY <2>1, <2>2
<1>11. CASE Die(c, "rs") BY <1>11 DEF Die, Orderly
<1> QED BY <1>1, <1>2, <1>3, <1>4, <1>5, <1>6, <1>7, <1>8, <1>9, <1>10, <1>11 DEF ResponseStep

LEMMA RequestAttended ==
  ASSUME IInv, ~MayFail, ~HandlerMayTimeOut, NEW x \in Conns, Attended(x),
         NEW c \in Conns, Attended(c), RequestStep(c) \/ RequestTimeout(c)
  PROVE  Attended(x)'
<1>0. conn \in [Conns -> ConnFields] /\ LocationsOK /\ Served(x)
      BY DEF IInv, Typed, TypeOK
<1> USE <1>0 DEF Attended, ConnFields, At, Leave, Goto, Running, LocationsOK, Kinds,
        others, history
<1>1. CASE RequestStart(c)
  <2>1. CASE x = c BY <1>1, <2>1 DEF RequestStart
  <2>2. CASE x # c BY <1>1, <2>2 DEF RequestStart
  <2> QED BY <2>1, <2>2
<1>2. CASE RequestStartFails(c) BY <1>2 DEF RequestStartFails
<1>3. CASE SafeEnd(c, "rq", "rs") BY <1>3 DEF SafeEnd
<1>4. CASE Die(c, "rq") BY <1>4 DEF Die, CancellationPoints
<1> QED BY <1>1, <1>2, <1>3, <1>4, NoTimeout DEF RequestStep

LEMMA EncoderAttended ==
  ASSUME IInv, ~MayFail, NEW x \in Conns, Attended(x), NEW c \in Conns, Orderly(c),
         Attended(c), EncoderStep(c)
  PROVE  Attended(x)'
<1>0. /\ conn \in [Conns -> ConnFields] /\ LocationsOK
      /\ serving \in [Conns -> BOOLEAN] /\ Served(x) /\ Served(c)
      BY DEF IInv, Typed, TypeOK
<1> USE <1>0 DEF Attended, ConnFields, At, Goto, Leave, Put, Running, LocationsOK, Kinds,
        others, history
<1>1. CASE EncoderCopies(c) BY <1>1 DEF EncoderCopies
<1>2. CASE EncoderGivesUp(c) BY <1>2 DEF EncoderGivesUp
<1>3. CASE EncoderLocks(c)
  <2>1. UNCHANGED pc \/ pc' = [pc EXCEPT ![c]["en"] = "reset"]
        BY <1>3, CancelMoves DEF EncoderLocks
  <2>2. conn' = [conn EXCEPT ![c].lock = "en"] /\ UNCHANGED serving
        BY <1>3 DEF EncoderLocks
  <2>3. CASE x = c BY <1>3, <2>1, <2>2, <2>3 DEF EncoderLocks
  <2>4. CASE x # c BY <2>1, <2>2, <2>4
  <2> QED BY <2>3, <2>4
<1>4. CASE EncoderResets(c)
  <2>1. CASE x = c
        BY <1>4, <2>1 DEF EncoderResets, Reset, ResetFields, Over, Finished
  <2>2. CASE x # c BY <1>4, <2>2 DEF EncoderResets, Reset
  <2> QED BY <2>1, <2>2
<1>5. CASE EncoderJoinsNobody(c) BY <1>5 DEF EncoderJoinsNobody
<1>6. CASE Die(c, "en") BY <1>6 DEF Die, Orderly
<1> QED BY <1>1, <1>2, <1>3, <1>4, <1>5, <1>6 DEF EncoderStep

LEMMA CleanupAttended ==
  ASSUME IInv, NEW x \in Conns, Attended(x), CleanupStep PROVE Attended(x)'
<1>0. conn \in [Conns -> ConnFields] /\ LocationsOK /\ Standing
      BY DEF IInv, Typed, TypeOK
<1> USE <1>0 DEF Attended, ConnFields, Standing, CleanupAt, Running, LocationsOK, Kinds,
        lists, daemons, history
<1>1. CASE CleanupAbort BY <1>1 DEF CleanupAbort, Expired
<1>2. CASE CleanupExamine
  <2>1. \/ conn' = conn
        \/ \E c \in cl.todo : conn' = [conn EXCEPT ![c].lock = "cl"]
        BY <1>2 DEF CleanupExamine
  <2>2. UNCHANGED <<pc, serving>> BY <1>2 DEF CleanupExamine
  <2>3. /\ conn'[x].state = conn[x].state /\ conn'[x].isPersistent = conn[x].isPersistent
        /\ conn'[x].isChunked = conn[x].isChunked
        BY <2>1
  <2> QED BY <2>2, <2>3
<1>3. CASE CleanupFree
  <2>1. CASE x = cl.at BY <1>3, <2>1 DEF CleanupFree
  <2>2. CASE x # cl.at BY <1>3, <2>2 DEF CleanupFree
  <2> QED BY <2>1, <2>2
<1>4. CASE UNCHANGED <<conn, pc, serving>> BY <1>4
<1> QED BY <1>1, <1>2, <1>3, <1>4 DEF CleanupStep, CleanupWake, CleanupNext, CleanupKeep,
           CleanupMove, CleanupDone, CleanupCancel, CleanupStopsNobody

LEMMA EnvironmentAttended ==
  ASSUME IInv, NEW x \in Conns, Orderly(x), Attended(x), NEW c \in Conns, Environment(c)
  PROVE  Attended(x)'
<1>0. conn \in [Conns -> ConnFields] /\ LocationsOK /\ Served(x)
      BY DEF IInv, Typed, TypeOK
<1> USE <1>0 DEF Attended, Running, Kinds, LocationsOK, lists, daemons, history
<1>1. CASE ClientSend(c) \/ ClientClose(c) \/ TimePasses(c)
      BY <1>1 DEF ClientSend, ClientClose, TimePasses
<1>2. CASE Accept(c)
  <2>1. CASE x = c BY <1>2, <2>1 DEF Accept, NewConn, Served
  <2>2. CASE x # c BY <1>2, <2>2 DEF Accept
  <2> QED BY <2>1, <2>2
<1> QED BY <1>1, <1>2 DEF Environment

LEMMA AttendedInductive ==
  ASSUME IInv, AllOrderly, AllAttended, ~MayFail, ~HandlerMayTimeOut, [Next]_vars
  PROVE  AllAttended'
<1>1. CASE Next
      BY <1>1, DataAttended, RequestAttended, ResponseAttended, EncoderAttended,
         CleanupAttended, EnvironmentAttended DEF AllOrderly, AllAttended, Next
<1>2. CASE UNCHANGED vars
      BY <1>2 DEF vars, AllAttended, Attended
<1> QED BY <1>1, <1>2

LEMMA AttendedInvariant ==
  ASSUME ~HandlerMayTimeOut, ~MayFail PROVE Spec => []AllAttended
<1>1. Init => AllAttended
      BY DEF Init, AllAttended, Attended, NewConn, Kinds
<1>2. IInv /\ AllOrderly /\ AllAttended /\ [Next]_vars => AllAttended'
      BY AttendedInductive
<1> QED BY <1>1, <1>2, Invariant, OrderlyInvariant, PTL DEF Spec

\* As long as handlers return in time and calls succeed, a connection that the
\* cleanup thread leaves alone for its active handler has one, or is between the
\* threads that start it and end it.
THEOREM KeptAliveAreServed ==
  ~HandlerMayTimeOut /\ ~MayFail => (Spec => []KeepAliveIsServed)
<1> SUFFICES ASSUME ~HandlerMayTimeOut, ~MayFail PROVE Spec => []KeepAliveIsServed
    OBVIOUS
<1>1. AllAttended => KeepAliveIsServed
      BY DEF AllAttended, Attended, KeepAliveIsServed, Over, Running, Finished
<1> QED BY <1>1, AttendedInvariant, PTL

\* No slot holds what a failed pthread_create left in it.
Named ==
  fault # "thread" /\ \A c \in Conns, k \in Kinds : Id(c, k) # "garbage"

LEMMA NamedInductive ==
  ASSUME IInv, AllOrderly, AllAttended, Named, ~MayFail, ~HandlerMayTimeOut, [Next]_vars
  PROVE  Named'
<1>0. conn \in [Conns -> ConnFields] /\ Standing
      BY DEF IInv, Typed, TypeOK
<1> USE <1>0 DEF Named, ConnFields, Id, Put, Kinds
<1>1. CASE DataStep
  <2> USE DEF lists, daemons, history, Standing, DataAt, Joined
  <2>1. CASE DataRequest BY <2>1 DEF DataRequest
  <2>2. CASE DataNothing BY <2>2 DEF DataNothing
  <2>3. CASE DataDrop BY <2>3 DEF DataDrop
  <2>4. CASE DataLock
    <3>1. fault' = fault BY <2>4 DEF DataLock
    <3>2. conn' = conn \/ conn' = [conn EXCEPT ![d.at].inUse = @ + 1]
          BY <2>4 DEF DataLock
    <3> QED BY <3>1, <3>2
  <2>5. CASE DataPut BY <2>5 DEF DataPut
  <2>6. CASE DataRequestFails BY <2>6 DEF DataRequestFails
  <2>7. CASE DataWake \/ DataNext BY <2>7 DEF DataWake, DataNext
  <2>8. CASE DataTouchesFreed BY <2>8 DEF DataTouchesFreed
  <2> QED BY <1>1, <2>1, <2>2, <2>3, <2>4, <2>5, <2>6, <2>7, <2>8 DEF DataStep
<1>2. CASE CleanupStep
  <2> USE DEF lists, daemons, history, Standing, CleanupAt
  <2>1. CASE CleanupAbort BY <2>1 DEF CleanupAbort
  <2>2. CASE CleanupExamine BY <2>2 DEF CleanupExamine
  <2>3. CASE CleanupFree BY <2>3 DEF CleanupFree
  <2>4. CASE \E k \in Kinds : CleanupStopsNobody(k) BY <2>4 DEF CleanupStopsNobody
  <2>5. CASE UNCHANGED <<conn, fault>> BY <2>5
  <2> QED BY <1>2, <2>1, <2>2, <2>3, <2>4, <2>5 DEF CleanupStep, CleanupWake, CleanupNext,
             CleanupKeep, CleanupMove, CleanupDone, CleanupCancel
<1>3. ASSUME NEW c \in Conns, RequestStep(c) \/ RequestTimeout(c) PROVE Named'
  <2> USE DEF others, history
  <2>1. CASE RequestStart(c) BY <2>1 DEF RequestStart
  <2>2. CASE SafeEnd(c, "rq", "rs") BY <2>2 DEF SafeEnd
  <2>3. CASE Die(c, "rq") BY <2>3 DEF Die
  <2>4. ~RequestTimeout(c) BY NoTimeout DEF AllAttended
  <2> QED BY <1>3, <2>1, <2>2, <2>3, <2>4 DEF RequestStep, RequestStartFails
<1>4. ASSUME NEW c \in Conns, ResponseStep(c) \/ HandlerReturns(c) PROVE Named'
  <2> USE DEF others, history
  <2>0. pc[c]["rs"] = "end" => Id(c, "rq") = "set"
        BY DEF AllOrderly, Orderly, Running
  <2>1. CASE SendHeader(c) BY <2>1 DEF SendHeader
  <2>2. CASE SendHeaderChunked(c) BY <2>2 DEF SendHeaderChunked
  <2>3. CASE ResponseReset(c)
    <3>1. fault' = fault
          BY <2>0, <2>3, CancelsRequest DEF ResponseReset, At
    <3> QED BY <2>3, <3>1 DEF ResponseReset
  <2>4. CASE ResponseLeave(c) BY <2>4 DEF ResponseLeave
  <2>5. CASE ResponseEnd(c)
    <3>1. fault' = fault
          BY <2>0, <2>5, CancelsRequest DEF ResponseEnd, At
    <3> QED BY <2>5, <3>1 DEF ResponseEnd
  <2>6. CASE ResponseResets(c) BY <2>6 DEF ResponseResets, Reset, ResetFields, Emptied
  <2>7. CASE SafeEnd(c, "rs", "rq") BY <2>7 DEF SafeEnd
  <2>8. CASE Die(c, "rs") \/ HandlerReturns(c) BY <2>8 DEF Die, HandlerReturns
  <2> QED BY <1>4, <2>1, <2>2, <2>3, <2>4, <2>5, <2>6, <2>7, <2>8
          DEF ResponseStep, SendHeaderFails, SendHeaderRefused
<1>5. ASSUME NEW c \in Conns, EncoderStep(c) PROVE Named'
  <2> USE DEF others, history
  <2>0. pc[c]["en"] \in {"wait", "reset"} => Id(c, "rq") = "set" /\ Id(c, "rs") = "set"
        BY DEF AllOrderly, Orderly, Running
  <2>1. CASE EncoderLocks(c)
    <3>1. fault' = fault
          BY <2>0, <2>1, CancelsRequest DEF EncoderLocks, At
    <3> QED BY <2>1, <3>1 DEF EncoderLocks
  <2>2. CASE EncoderResets(c) BY <2>2 DEF EncoderResets, Reset, ResetFields, Emptied
  <2>3. CASE EncoderJoinsNobody(c) BY <2>0, <2>3 DEF EncoderJoinsNobody, At
  <2>4. CASE EncoderCopies(c) \/ EncoderGivesUp(c) \/ Die(c, "en")
        BY <2>4 DEF EncoderCopies, EncoderGivesUp, Die
  <2> QED BY <1>5, <2>1, <2>2, <2>3, <2>4 DEF EncoderStep
<1>6. ASSUME NEW c \in Conns, Environment(c) PROVE Named'
  <2>1. CASE Accept(c) BY <2>1 DEF Accept, NewConn, history
  <2>2. CASE ClientSend(c) \/ ClientClose(c) \/ TimePasses(c)
        BY <2>2 DEF ClientSend, ClientClose, TimePasses, history
  <2> QED BY <1>6, <2>1, <2>2 DEF Environment
<1>7. CASE UNCHANGED vars
      BY <1>7 DEF vars
<1> QED BY <1>1, <1>2, <1>3, <1>4, <1>5, <1>6, <1>7 DEF Next

\* As long as handlers return in time and threads and pipes can be made, nothing is
\* cancelled or joined but a thread: every slot is filled before it is read, and
\* emptied by whoever joined the thread.
THEOREM ThreadsAreReal == ~HandlerMayTimeOut /\ ~MayFail => (Spec => []StopsRealThreads)
<1> SUFFICES ASSUME ~HandlerMayTimeOut, ~MayFail PROVE Spec => []StopsRealThreads
    OBVIOUS
<1>1. Init => Named
      BY DEF Init, Named, NewConn, Id, Kinds
<1>2. IInv /\ AllOrderly /\ AllAttended /\ Named /\ [Next]_vars => Named'
      BY NamedInductive
<1>3. Named => StopsRealThreads
      BY DEF Named, StopsRealThreads
<1> QED BY <1>1, <1>2, <1>3, Invariant, OrderlyInvariant, AttendedInvariant, PTL DEF Spec

-----------------------------------------------------------------------------
(* The refinement of ConnectionLifecycle.                                  *)

\* The life of a connection before and after a step.
LEMMA LifeNow ==
  ASSUME NEW c \in Conns
  PROVE  /\ mem[c] \in {"none", "freed"} => Life[c] = mem[c]
         /\ mem[c] = "live" => Life[c] = (IF serving[c] THEN "busy" ELSE
                                IF conn[c].state = "OPENED" THEN "idle" ELSE "closing")
         /\ mem'[c] \in {"none", "freed"} => Life'[c] = mem'[c]
         /\ mem'[c] = "live" => Life'[c] = (IF serving'[c] THEN "busy" ELSE
                                IF conn'[c].state = "OPENED" THEN "idle" ELSE "closing")
<1>1. /\ mem[c] \in {"none", "freed"} => Life[c] = mem[c]
      /\ mem[c] = "live" => Life[c] = (IF serving[c] THEN "busy" ELSE
                             IF conn[c].state = "OPENED" THEN "idle" ELSE "closing")
      BY DEF Life
<1>2. /\ mem'[c] \in {"none", "freed"} => Life'[c] = mem'[c]
      /\ mem'[c] = "live" => Life'[c] = (IF serving'[c] THEN "busy" ELSE
                             IF conn'[c].state = "OPENED" THEN "idle" ELSE "closing")
      BY DEF Life
<1> QED BY <1>1, <1>2

LEMMA LifeFunction ==
  /\ Life = [x \in Conns |-> Life[x]]
  /\ Life' = [x \in Conns |-> Life'[x]]
<1>1. Life = [x \in Conns |-> Life[x]]
      BY DEF Life
<1>2. Life' = [x \in Conns |-> Life'[x]]
      BY DEF Life
<1> QED BY <1>1, <1>2

\* What the life of x is read from.
Same(x) ==
  mem'[x] = mem[x] /\ serving'[x] = serving[x] /\ conn'[x].state = conn[x].state

LEMMA SameLife ==
  ASSUME NEW x \in Conns, Same(x) PROVE Life'[x] = Life[x]
BY DEF Life, Same

LEMMA NoMove ==
  ASSUME \A x \in Conns : Same(x) PROVE [Promise!Next]_Life
<1>1. \A x \in Conns : Life'[x] = Life[x]
      BY SameLife
<1>2. Life' = Life
      BY <1>1, LifeFunction
<1> QED BY <1>2

\* A step that changes the life of one connection, as it may be changed.
Steps == {<<"none", "idle">>, <<"idle", "busy">>, <<"closing", "busy">>, <<"busy", "idle">>,
          <<"busy", "closing">>, <<"idle", "closing">>, <<"idle", "freed">>,
          <<"closing", "freed">>}

LEMMA OneMove ==
  ASSUME NEW c \in Conns, \A x \in Conns \ {c} : Same(x),
         Life'[c] = Life[c] \/ <<Life[c], Life'[c]>> \in Steps
  PROVE  [Promise!Next]_Life
<1>1. \A x \in Conns \ {c} : Life'[x] = Life[x]
      BY SameLife
<1>2. Life' = [Life EXCEPT ![c] = Life'[c]]
      BY <1>1, LifeFunction
<1>3. CASE Life'[c] = Life[c]
  <2>1. Life' = Life
        BY <1>1, <1>3, LifeFunction
  <2> QED BY <2>1
<1>4. CASE <<Life[c], Life'[c]>> \in Steps
      BY <1>2, <1>4 DEF Steps, Promise!Next, Promise!Open, Promise!Begin, Promise!Finish,
         Promise!GiveUp, Promise!Free, Promise!Move
<1> QED BY <1>3, <1>4

LEMMA LifeInit == Init => Promise!Init
<1> SUFFICES ASSUME Init PROVE Promise!Init
    OBVIOUS
<1>1. \A c \in Conns : Life[c] = "none"
      BY LifeNow DEF Init
<1> QED BY <1>1 DEF Promise!Init, Life

\* What every proof of a step needs to know of the connections before it.
LEMMA Known ==
  ASSUME IInv, NEW c \in Conns
  PROVE  /\ conn[c] \in ConnFields /\ mem[c] \in {"none", "live", "freed"}
         /\ serving[c] \in BOOLEAN /\ Served(c) /\ Freed(c)
BY DEF IInv, Typed, TypeOK

LEMMA DataLife ==
  ASSUME IInv, DataStep PROVE [Promise!Next]_Life
<1> DEFINE c == d.at
<1>0. conn \in [Conns -> ConnFields] /\ serving \in [Conns -> BOOLEAN] /\ Standing
      BY DEF IInv, Typed, TypeOK
<1> USE DEF Same, Put, ConnFields, DataAt, lists, daemons, history, Standing
<1>1. CASE UNCHANGED <<mem, conn, serving>>
      BY <1>1, NoMove
<1>2. CASE DataLock
  <2>1. \A x \in Conns : Same(x)
        BY <1>0, <1>2 DEF DataLock
  <2> QED BY <2>1, NoMove
<1>3. CASE DataNothing \/ DataPut
  <2>1. CASE DataNothing
    <3>1. \A x \in Conns : Same(x)
          BY <1>0, <2>1 DEF DataNothing
    <3> QED BY <3>1, NoMove
  <2>2. CASE DataPut
    <3>1. \A x \in Conns : Same(x)
          BY <1>0, <2>2 DEF DataPut
    <3> QED BY <3>1, NoMove
  <2> QED BY <1>3, <2>1, <2>2
<1>4. CASE DataRequest
  <2>1. /\ c \in Conns /\ DataUses(c)
        /\ mem' = mem /\ serving' = [serving EXCEPT ![c] = TRUE]
        /\ \A x \in Conns \ {c} : Same(x)
        BY <1>0, <1>4 DEF DataRequest, DataUses
  <2>2. mem[c] = "live" /\ ~serving[c] /\ serving'[c]
        BY <1>0, <2>1, Known DEF Served
  <2>3. Life[c] \in {"idle", "closing"} /\ Life'[c] = "busy"
        BY <2>1, <2>2, LifeNow
  <2> QED BY <2>1, <2>3, OneMove DEF Steps
<1>5. CASE DataRequestFails \/ DataDrop
  <2>1. /\ c \in Conns /\ DataUses(c) /\ UNCHANGED <<mem, serving>>
        /\ conn'[c].state = "ABORTED" /\ \A x \in Conns \ {c} : Same(x)
    <3>1. CASE DataRequestFails BY <1>0, <3>1 DEF DataRequestFails, DataUses
    <3>2. CASE DataDrop BY <1>0, <3>2 DEF DataDrop, DataUses
    <3> QED BY <1>5, <3>1, <3>2
  <2>2. mem[c] = "live" /\ ~serving[c]
        BY <2>1, Known DEF Served
  <2>3. Life[c] \in {"idle", "closing"} /\ Life'[c] = "closing"
        BY <2>1, <2>2, LifeNow
  <2> QED BY <2>1, <2>3, OneMove DEF Steps
<1>6. CASE DataWake \/ DataNext \/ DataTouchesFreed
      BY <1>1, <1>6 DEF DataWake, DataNext, DataTouchesFreed
<1> QED BY <1>2, <1>3, <1>4, <1>5, <1>6 DEF DataStep

LEMMA SafeEndLife ==
  ASSUME IInv, NEW c \in Conns, NEW k \in {"rq", "rs"}, NEW j \in Kinds, SafeEnd(c, k, j)
  PROVE  [Promise!Next]_Life
<1>0. conn \in [Conns -> ConnFields] /\ serving \in [Conns -> BOOLEAN]
      BY DEF IInv, Typed, TypeOK
<1>1. serving[c] /\ mem[c] = "live"
      BY Known DEF SafeEnd, At, Served, Freed, Running
<1>2. /\ mem' = mem /\ ~serving'[c] /\ \A x \in Conns \ {c} : Same(x)
      BY <1>0 DEF SafeEnd, Same, others, Put
<1>3. Life[c] = "busy" /\ Life'[c] \in {"idle", "closing"}
      BY <1>1, <1>2, LifeNow
<1> QED BY <1>2, <1>3, OneMove DEF Steps

LEMMA ResetLife ==
  ASSUME IInv, NEW c \in Conns, NEW k \in Kinds, serving[c], Reset(c, k)
  PROVE  [Promise!Next]_Life
<1>0. conn \in [Conns -> ConnFields] /\ serving \in [Conns -> BOOLEAN]
      BY DEF IInv, Typed, TypeOK
<1>1. mem[c] = "live"
      BY Known DEF Served, Freed
<1>2. /\ mem' = mem /\ ~serving'[c] /\ \A x \in Conns \ {c} : Same(x)
      BY <1>0 DEF Reset, Same
<1>3. Life[c] = "busy" /\ Life'[c] \in {"idle", "closing"}
      BY <1>1, <1>2, LifeNow
<1> QED BY <1>2, <1>3, OneMove DEF Steps

LEMMA ThreadLife ==
  ASSUME IInv, NEW c \in Conns,
         \/ RequestStep(c) \/ RequestTimeout(c) \/ ResponseStep(c) \/ HandlerReturns(c)
         \/ EncoderStep(c)
  PROVE  [Promise!Next]_Life
<1>0. conn \in [Conns -> ConnFields]
      BY DEF IInv, Typed, TypeOK
<1>1. CASE SafeEnd(c, "rq", "rs") \/ SafeEnd(c, "rs", "rq")
      BY <1>1, SafeEndLife DEF Kinds
<1>2. CASE ResponseResets(c)
  <2>1. serving[c]
        BY <1>2, Known DEF ResponseResets, At, Served, Running
  <2> QED BY <1>2, <2>1, ResetLife DEF ResponseResets, Kinds
<1>3. CASE EncoderResets(c)
  <2>1. serving[c]
        BY <1>3, Known DEF EncoderResets, At, Served, Running
  <2> QED BY <1>3, <2>1, ResetLife DEF EncoderResets, Kinds
<1>4. CASE UNCHANGED <<mem, conn, serving>>
      BY <1>4, NoMove DEF Same
<1>5. CASE \/ RequestStart(c) \/ RequestStartFails(c) \/ SendHeader(c)
           \/ SendHeaderChunked(c) \/ SendHeaderFails(c) \/ ResponseReset(c)
           \/ ResponseLeave(c) \/ EncoderLocks(c)
  <2>1. \A x \in Conns : Same(x)
    <3> USE <1>0 DEF ConnFields, Same, others, history
    <3>1. CASE RequestStart(c) BY <3>1 DEF RequestStart
    <3>2. CASE RequestStartFails(c) BY <3>2 DEF RequestStartFails
    <3>3. CASE SendHeader(c) BY <3>3 DEF SendHeader
    <3>4. CASE SendHeaderChunked(c) BY <3>4 DEF SendHeaderChunked
    <3>5. CASE SendHeaderFails(c) BY <3>5 DEF SendHeaderFails
    <3>6. CASE ResponseReset(c) BY <3>6 DEF ResponseReset
    <3>7. CASE ResponseLeave(c) BY <3>7 DEF ResponseLeave
    <3>8. CASE EncoderLocks(c) BY <3>8 DEF EncoderLocks
    <3> QED BY <1>5, <3>1, <3>2, <3>3, <3>4, <3>5, <3>6, <3>7, <3>8
  <2> QED BY <2>1, NoMove
<1> QED BY <1>1, <1>2, <1>3, <1>4, <1>5 DEF RequestStep, RequestTimeout, ResponseStep,
           HandlerReturns, EncoderStep, SendHeaderRefused, ResponseEnd, EncoderCopies,
           EncoderGivesUp, EncoderJoinsNobody, Die, others, history

LEMMA CleanupLife ==
  ASSUME IInv, CleanupStep PROVE [Promise!Next]_Life
<1> DEFINE c == cl.at
<1>0. conn \in [Conns -> ConnFields] /\ Standing
      BY DEF IInv, Typed, TypeOK
<1> USE DEF Same, ConnFields, CleanupAt, lists, daemons, history, Standing
<1>1. CASE UNCHANGED <<mem, conn, serving>>
      BY <1>1, NoMove
<1>2. CASE CleanupAbort
  <2>1. /\ c \in Conns /\ UNCHANGED <<mem, serving>> /\ conn[c].state = "OPENED"
        /\ conn'[c].state = "ABORTED" /\ \A x \in Conns \ {c} : Same(x)
        BY <1>0, <1>2 DEF CleanupAbort, Expired
  <2>2. ~serving[c]
        BY <2>1, Known DEF Served
  <2>3. Life'[c] = Life[c] \/ <<Life[c], Life'[c]>> = <<"idle", "closing">>
        BY <2>1, <2>2, LifeNow, Known
  <2> QED BY <2>1, <2>3, OneMove DEF Steps
<1>3. CASE CleanupExamine
  <2>1. \A x \in Conns : Same(x)
        BY <1>0, <1>3 DEF CleanupExamine
  <2> QED BY <2>1, NoMove
<1>4. CASE CleanupFree
  <2>1. /\ c \in Conns /\ UNCHANGED serving /\ \A x \in Conns \ {c} : Same(x)
        /\ cl.pc = "stop" /\ mem' = [mem EXCEPT ![c] = "freed"]
        BY <1>0, <1>4 DEF CleanupFree
  <2>2. ~serving[c] /\ mem[c] # "none" /\ mem'[c] = "freed"
        BY <2>1, Known DEF Served, Freed, IInv, Typed, TypeOK
  <2>3. Life'[c] = Life[c] \/ <<Life[c], Life'[c]>> \in {"idle", "closing"} \X {"freed"}
        BY <2>1, <2>2, LifeNow, Known
  <2> QED BY <2>1, <2>3, OneMove DEF Steps
<1> QED BY <1>1, <1>2, <1>3, <1>4 DEF CleanupStep, CleanupWake, CleanupNext, CleanupKeep,
           CleanupMove, CleanupDone, CleanupCancel, CleanupStopsNobody

LEMMA EnvironmentLife ==
  ASSUME IInv, NEW c \in Conns, Environment(c) PROVE [Promise!Next]_Life
<1>1. CASE Accept(c)
  <2>1. /\ mem[c] = "none" /\ mem'[c] = "live" /\ UNCHANGED serving
        /\ conn'[c].state = "OPENED" /\ \A x \in Conns \ {c} : Same(x)
        BY <1>1 DEF Accept, Same, NewConn, history, IInv, Typed, TypeOK
  <2>2. ~serving[c]
        BY <2>1, Known DEF Served
  <2>3. Life[c] = "none" /\ Life'[c] = "idle"
        BY <2>1, <2>2, LifeNow
  <2> QED BY <2>1, <2>3, OneMove DEF Steps
<1>2. CASE ClientSend(c) \/ ClientClose(c) \/ TimePasses(c)
      BY <1>2, NoMove DEF ClientSend, ClientClose, TimePasses, Same, history
<1> QED BY <1>1, <1>2 DEF Environment

LEMMA StepMoves == IInv /\ [Next]_vars => [Promise!Next]_Life
<1> SUFFICES ASSUME IInv, [Next]_vars PROVE [Promise!Next]_Life
    OBVIOUS
<1>1. CASE Next
      BY <1>1, DataLife, ThreadLife, CleanupLife, EnvironmentLife DEF Next
<1>2. CASE UNCHANGED vars
      BY <1>2, NoMove DEF vars, Same
<1> QED BY <1>1, <1>2

\* The threads, locks and lists implement ConnectionLifecycle, for any number of
\* connections: in particular no step frees a connection that is busy.
THEOREM LifecycleIsKept == Spec => KeepsLifecycle
<1>1. Init => Promise!Init
      BY LifeInit
<1>2. IInv /\ [Next]_vars => [Promise!Next]_Life
      BY StepMoves
<1> QED BY <1>1, <1>2, Invariant, PTL DEF Spec, KeepsLifecycle, Promise!Spec
=============================================================================
