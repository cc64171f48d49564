------------------------------- MODULE WebApi -------------------------------
(***************************************************************************)
(* The requests to the server (web/webservice.cpp): each is a WebApi       *)
(* object with a thread of its own.  A synchronous caller joins that       *)
(* thread, takes the status and deletes the object; the thread of an       *)
(* asynchronous one deletes the object itself.                             *)
(*                                                                         *)
(* Descriptors and thread identities are the system's and are used again:  *)
(* what a stray close or join does depends on who has them by then.  The   *)
(* join of a pthread_t that nobody has, that is detached or that another   *)
(* thread is joining returns at once (glibc: ESRCH, EINVAL, EINVAL).       *)
(*                                                                         *)
(* A request's text and the server's answer are a few pieces.  The answer  *)
(* is the status line, the rest of the header, and the content.            *)
(***************************************************************************)
EXTENDS Integers, Sequences, FiniteSets

CONSTANTS Requests,  \* calls of request_...: each is made once
          Async,     \* those that may be given a callback
          Content,   \* those that read the answer to its Content-Length, without one
          Digits,    \* the digits of a POST request's Content-Length; 0: a GET
          Pieces,    \* into how many pieces the text of each can be divided
          Sockets,   \* file descriptors
          Pthreads,  \* values of pthread_t
          None

ASSUME KindsAssumption == Async \subseteq Requests /\ Content \subseteq Requests
ASSUME DigitsAssumption == Digits \in [Requests -> Nat]
ASSUME PiecesAssumption == Pieces \in [Requests -> Nat \ {0}]
ASSUME SocketsAssumption == Sockets \subseteq Nat
ASSUME NoneAssumption == None \notin Requests

VARIABLES
  caller,   \* where the call of each request is
  thread,   \* where its thread is
  api,      \* the WebApi objects
  sending,  \* run's len and send_length, and how often it has sent
  itoaBuf,  \* the places of itoa's static buffer that hold a digit, from its end
  itoaPos,  \* how many digits each call has written
  fd,       \* whose socket a descriptor is
  tid,      \* whose thread a pthread_t is
  conn,     \* the connections: what has arrived at either end
  result,   \* what the call takes for m_status, and so does
  reused,   \* history: requests whose thread got a pthread_t that another call still held
  misused,  \* history: requests whose WebApi was used after its deletion
  crashed

vars == <<caller, thread, api, sending, itoaBuf, itoaPos, fd, tid, conn, result, reused,
          misused, crashed>>
callVars == <<caller, itoaBuf, itoaPos, result>>
systemVars == <<fd, tid, conn>>

FreeThread == [owner |-> None, joiner |-> None, detached |-> FALSE]
AnswerLen == 3
NoData == [got |-> <<>>, parts |-> 0, processed |-> FALSE, ok |-> TRUE, arrived |-> 0,
           taken |-> 0, closed |-> FALSE]
Unset == -2   \* m_sock before run has called socket, which may return -1

Init ==
  /\ caller = [r \in Requests |-> "idle"]
  /\ thread = [r \in Requests |-> "none"]
  /\ api = [r \in Requests |-> [m_cbfunc |-> FALSE, m_sock |-> Unset, m_thread |-> None,
                                m_status |-> "unset", deleted |-> FALSE]]
  /\ sending = [r \in Requests |-> [len |-> 0, left |-> Pieces[r]]]
  /\ itoaBuf = {}
  /\ itoaPos = [r \in Requests |-> 0]
  /\ fd = [s \in Sockets |-> None]
  /\ tid = [p \in Pthreads |-> FreeThread]
  /\ conn = [r \in Requests |-> NoData]
  /\ result = [r \in Requests |-> "none"]
  /\ reused = {} /\ misused = {}
  /\ crashed = FALSE

(* A use of the WebApi by its caller or its thread.                        *)
Touch(r) == misused' = IF api[r].deleted THEN misused \cup {r} ELSE misused
Goes(r, from, to) == caller[r] = from /\ caller' = [caller EXCEPT ![r] = to]

-----------------------------------------------------------------------------
(* The call, with a callback or without: the text is built, and itoa writes*)
(* the digits of the content's length into a static buffer, the last first.*)
Call(r) ==
  /\ Goes(r, "idle", IF Digits[r] = 0 THEN "built" ELSE "itoa")
  /\ \E cb \in IF r \in Async THEN BOOLEAN ELSE {FALSE} :
       api' = [api EXCEPT ![r].m_cbfunc = cb]
  /\ UNCHANGED <<thread, sending, itoaBuf, itoaPos, systemVars, result, reused, misused,
                 crashed>>

itoa(r) ==
  /\ caller[r] = "itoa" /\ itoaPos[r] < Digits[r]
  /\ itoaPos' = [itoaPos EXCEPT ![r] = @ + 1]
  /\ itoaBuf' = itoaBuf \cup {itoaPos'[r]}
  /\ UNCHANGED <<caller, thread, api, sending, systemVars, result, reused, misused, crashed>>

(* strlen of what itoa returned: from the call's own first digit to the    *)
(* first place without one; place 0 is the end of the buffer.              *)
Strlen(r) == CHOOSE n \in 0 .. itoaPos[r] :
               /\ itoaPos[r] - n \notin itoaBuf
               /\ (itoaPos[r] - n + 1) .. itoaPos[r] \subseteq itoaBuf

(* The header is put in front of the content by the length so computed.    *)
BuildHeader(r) ==
  /\ Goes(r, "itoa", "built") /\ itoaPos[r] = Digits[r]
  /\ itoaPos' = [itoaPos EXCEPT ![r] = Strlen(r)]
  /\ UNCHANGED <<thread, api, sending, itoaBuf, systemVars, result, reused, misused, crashed>>

-----------------------------------------------------------------------------
(* processCmd: the thread runs before its identity is in the object, while *)
(* the call is in "created".                                               *)
CreateThread(r) ==
  /\ Goes(r, "built", "created")
  /\ thread' = [thread EXCEPT ![r] = "begun"]
  /\ \E p \in Pthreads :
       /\ tid[p] = FreeThread
       /\ tid' = [tid EXCEPT ![p].owner = r]
       /\ api' = [api EXCEPT ![r].m_thread = p]
       /\ reused' = IF \E q \in Requests : api[q].m_thread = p /\ caller[q] # "returned"
                    THEN reused \cup {r} ELSE reused
  /\ UNCHANGED <<sending, itoaBuf, itoaPos, fd, conn, result, misused, crashed>>

(* Mutant: a call without a callback does not wait for its thread.         *)
AssignThread_NoJoin(r) ==
  /\ Goes(r, "created", IF api[r].m_cbfunc THEN "detaching" ELSE "joined")
  /\ Touch(r)
  /\ UNCHANGED <<thread, api, sending, itoaBuf, itoaPos, systemVars, result, reused, crashed>>
AssignThread(r) ==
  /\ Goes(r, "created", IF api[r].m_cbfunc THEN "detaching" ELSE "joining")
  /\ Touch(r)
  /\ UNCHANGED <<thread, api, sending, itoaBuf, itoaPos, systemVars, result, reused, crashed>>

Detach(r) ==
  LET p == api[r].m_thread IN
  /\ Goes(r, "detaching", "returned")
  /\ tid' = IF tid[p].owner # r \/ tid[p].joiner # None THEN tid
            ELSE [tid EXCEPT ![p] = IF thread[r] = "over" THEN FreeThread
                                    ELSE [@ EXCEPT !.detached = TRUE]]
  /\ Touch(r)
  /\ UNCHANGED <<thread, api, sending, itoaBuf, itoaPos, fd, conn, result, reused, crashed>>

(* Thread::join, called by processCmd and again by ~Thread.                *)
JoinState(r) == caller[r] \in {"joining", "rejoining"}
AfterJoin(r) == IF caller[r] = "joining" THEN "joined" ELSE "deleting"

JoinFails(r) ==
  LET t == tid[api[r].m_thread] IN
  /\ JoinState(r)
  /\ t.owner = None \/ t.joiner \notin {None, r} \/ t.detached
  /\ caller' = [caller EXCEPT ![r] = AfterJoin(r)]
  /\ UNCHANGED <<thread, api, sending, itoaBuf, itoaPos, systemVars, result, reused, misused,
                 crashed>>

JoinWaits(r) ==
  LET t == tid[api[r].m_thread] IN
  /\ JoinState(r)
  /\ t.owner # None /\ t.joiner = None /\ ~t.detached
  /\ tid' = [tid EXCEPT ![api[r].m_thread].joiner = r]
  /\ UNCHANGED <<callVars, thread, api, sending, fd, conn, reused, misused, crashed>>

JoinReturns(r) ==
  LET t == tid[api[r].m_thread] IN
  /\ JoinState(r)
  /\ t.joiner = r /\ thread[t.owner] = "over"
  /\ tid' = [tid EXCEPT ![api[r].m_thread] = FreeThread]
  /\ caller' = [caller EXCEPT ![r] = AfterJoin(r)]
  /\ UNCHANGED <<thread, api, sending, itoaBuf, itoaPos, fd, conn, result, reused, misused,
                 crashed>>

Statuses == {"success", "failure", "fcntl"}

Text(r) == [i \in 1 .. Pieces[r] |-> <<r, i>>]

(* Mutant: ~WebApi leaves the socket open.                                 *)
Closed_Not(s) == UNCHANGED <<fd, conn>>
(* close: of the connection a whole text stays on its way to the server,   *)
(* and what the server has done.                                           *)
Closed(s) ==
  IF s \in Sockets /\ fd[s] # None
  THEN LET q == fd[s]
       IN /\ fd' = [fd EXCEPT ![s] = None]
          /\ conn' = [conn EXCEPT ![q] =
               [NoData EXCEPT !.got = IF conn[q].got = Text(q) THEN Text(q) ELSE <<>>,
                              !.processed = conn[q].processed]]
  ELSE UNCHANGED <<fd, conn>>

(* m_status is whatever was in the memory, if run has not set it; so is    *)
(* m_sock, which ~WebApi closes before it deletes m_thread.                *)
CloseSocket(r) ==
  /\ Goes(r, "joined", "rejoining")
  /\ \E st \in IF api[r].m_status = "unset" THEN Statuses ELSE {api[r].m_status} :
       result' = [result EXCEPT ![r] = IF @ = "none" THEN st ELSE @]
  /\ \E s \in IF api[r].m_sock = Unset THEN Sockets \cup {-1} ELSE {api[r].m_sock} :
       Closed(s)
  /\ Touch(r)
  /\ UNCHANGED <<thread, api, sending, itoaBuf, itoaPos, tid, reused, crashed>>

(* Mutant: THROW_EXCEPTION forgets more than RET_FCNTL_FAIL.               *)
DeleteApi_ThrowsNothing(r) ==
  /\ caller[r] = "deleting"
  /\ api' = [api EXCEPT ![r].deleted = TRUE]
  /\ IF result[r] \in {"fcntl", "failure"} /\ ~api[r].deleted
     THEN caller' = [caller EXCEPT ![r] = "joined"]
     ELSE caller' = [caller EXCEPT ![r] = "returned"]
  /\ UNCHANGED <<thread, sending, itoaBuf, itoaPos, systemVars, result, reused, misused, crashed>>
(* The object is freed.  Then the value is returned or the status thrown,  *)
(* except that THROW_EXCEPTION has no case for RET_FCNTL_FAIL: the call    *)
(* reads the deleted object and deletes it again.                          *)
DeleteApi(r) ==
  /\ caller[r] = "deleting"
  /\ api' = [api EXCEPT ![r].deleted = TRUE]
  /\ IF result[r] = "fcntl" /\ ~api[r].deleted
     THEN caller' = [caller EXCEPT ![r] = "joined"]
     ELSE caller' = [caller EXCEPT ![r] = "returned"]
  /\ UNCHANGED <<thread, sending, itoaBuf, itoaPos, systemVars, result, reused, misused, crashed>>

(* A send on a connection that the server has closed raises SIGPIPE, which *)
(* nobody handles.                                                         *)
BrokenPipe(r) == \E s \in Sockets : /\ thread[r] = "sending" /\ api[r].m_sock = s
                                    /\ fd[s] # None /\ conn[fd[s]].closed

(* What may end the process: that signal, or the use of a deleted object.  *)
Fault ==
  /\ misused # {} \/ \E r \in Requests : BrokenPipe(r)
  /\ crashed' = TRUE
  /\ UNCHANGED <<callVars, thread, api, sending, systemVars, reused, misused>>

-----------------------------------------------------------------------------
(* WebApi::run.  Peer is the request whose connection the descriptor m_sock*)
(* is, normally its own.                                                   *)
Peer(r) == IF api[r].m_sock \in Sockets THEN fd[api[r].m_sock] ELSE None
Available(q) == IF q = None THEN 0 ELSE conn[q].arrived - conn[q].taken

Step(r, from, to) == /\ thread[r] = from
                     /\ thread' = [thread EXCEPT ![r] = to]
                     /\ Touch(r)
                     /\ UNCHANGED <<callVars, reused>>

(* Mutant: every thread deletes its WebApi.                                *)
End_Deletes(r) == "ending"
(* The end of run: a thread with a callback calls it and deletes its       *)
(* WebApi.  Every status that is thrown is one here.                       *)
End(r) == IF api[r].m_cbfunc THEN "ending" ELSE "over"

(* The locals of run end with it.                                          *)
Gives(r, from, status) == /\ Step(r, from, End(r))
                          /\ api' = [api EXCEPT ![r].m_status = status]
                          /\ sending' = [sending EXCEPT ![r].len = 0, ![r].left = 0]
                          /\ UNCHANGED <<systemVars, crashed>>

Socket(r) ==
  \/ /\ Step(r, "begun", End(r))
     /\ api' = [api EXCEPT ![r].m_sock = -1, ![r].m_status = "failure"]
     /\ UNCHANGED <<sending, systemVars, crashed>>
  \/ /\ Step(r, "begun", "opened")
     /\ \E s \in Sockets : /\ fd[s] = None
                           /\ \A t \in Sockets : fd[t] = None => s <= t
                           /\ fd' = [fd EXCEPT ![s] = r]
                           /\ api' = [api EXCEPT ![r].m_sock = s]
     /\ UNCHANGED <<sending, tid, conn, crashed>>

(* connect without blocking and poll for half a second.  errno is          *)
(* EINPROGRESS only if connect neither fails nor succeeds at once; a       *)
(* refused connection is writable, too.                                    *)
Connect(r) ==
  \/ Gives(r, "opened", "fcntl")
  \/ Gives(r, "opened", "failure")
  \/ /\ Step(r, "opened", "sending")
     /\ Peer(r) # None
     /\ UNCHANGED <<api, sending, systemVars, crashed>>

(* Mutant: every send starts at the beginning of the text.                 *)
Send_FromStart(r) ==
  \/ Gives(r, "sending", "failure")
  \/ \E n \in 1 .. sending[r].left :
       /\ Peer(r) # None
       /\ Step(r, "sending", IF n = sending[r].left THEN "waiting" ELSE "sending")
       /\ conn' = [conn EXCEPT ![Peer(r)].got = @ \o [i \in 1 .. n |-> <<r, i>>]]
       /\ sending' = [sending EXCEPT ![r] = [len |-> n, left |-> @.left - n]]
       /\ UNCHANGED <<api, fd, tid, crashed>>
(* A send takes a part of the text; the next one starts at the length of   *)
(* the last one, not at their sum.                                         *)
Send(r) ==
  \/ Gives(r, "sending", "failure")
  \/ \E n \in 1 .. sending[r].left :
       /\ Peer(r) # None
       /\ Step(r, "sending", IF n = sending[r].left THEN "waiting" ELSE "sending")
       /\ conn' = [conn EXCEPT ![Peer(r)].got =
                     @ \o [i \in 1 .. n |-> <<r, sending[r].len + i>>],
                               ![Peer(r)].parts = @ + 1]
       /\ sending' = [sending EXCEPT ![r] = [len |-> n, left |-> @.left - n]]
       /\ UNCHANGED <<api, fd, tid, crashed>>

(* poll for the answer: it may fail, and time out for a synchronous one.   *)
PollIn(r) ==
  \/ Gives(r, "waiting", "failure")
  \/ /\ Step(r, "waiting", "parsing")
     /\ Peer(r) # None => Available(Peer(r)) > 0 \/ conn[Peer(r)].closed
     /\ UNCHANGED <<api, sending, systemVars, crashed>>

(* parsing: one recv is taken to bring the whole header, and with a short  *)
(* answer the content too.  Without them the pointers it follows are null. *)
ReadsContent(r) == r \in Content /\ ~api[r].m_cbfunc
Parse(r) ==
  \/ Available(Peer(r)) = 0 /\ Gives(r, "parsing", "failure")
  \/ /\ thread[r] = "parsing"
     /\ \E k \in 1 .. Available(Peer(r)) :
          LET q == Peer(r)
              first == conn[q].taken + 1
              last == conn[q].taken + k
              done == last = AnswerLen
          IN /\ conn' = [conn EXCEPT ![q].taken = last]
             /\ \/ /\ first > 1 \/ ~conn[q].ok
                   /\ Step(r, "parsing", End(r))
                   /\ api' = [api EXCEPT ![r].m_status = "failure"]
                   /\ UNCHANGED crashed
                \/ /\ first = 1 /\ conn[q].ok
                   /\ done \/ (ReadsContent(r) /\ last > 1)
                   /\ Step(r, "parsing", IF done THEN End(r) ELSE "receiving")
                   /\ api' = IF done THEN [api EXCEPT ![r].m_status = "success"] ELSE api
                   /\ UNCHANGED crashed
                \/ /\ first = 1 => /\ conn[q].ok
                                  /\ last < IF ReadsContent(r) THEN 2 ELSE AnswerLen
                   /\ Step(r, "parsing", "parsing")
                   /\ crashed' = TRUE
                   /\ UNCHANGED api
             /\ UNCHANGED <<sending, fd, tid>>

(* The rest of the content.  recv of a closed connection brings nothing:   *)
(* the loop goes on for ever.                                              *)
Receive(r) ==
  /\ Available(Peer(r)) > 0
  /\ Step(r, "receiving", End(r))
  /\ conn' = [conn EXCEPT ![Peer(r)].taken = conn[Peer(r)].arrived]
  /\ api' = [api EXCEPT ![r].m_status = "success"]
  /\ UNCHANGED <<sending, fd, tid, crashed>>

(* The callback, then delete this: ~Thread joins its own thread in vain.   *)
DeleteThis(r) ==
  LET p == api[r].m_thread IN
  /\ Step(r, "ending", "over")
  /\ Closed(api[r].m_sock)
  /\ api' = [api EXCEPT ![r].deleted = TRUE]
  /\ tid' = IF tid[p].detached THEN [tid EXCEPT ![p] = FreeThread] ELSE tid
  /\ \/ UNCHANGED crashed
     \/ caller[r] = "created" /\ crashed' = TRUE    \* m_thread is not set
  /\ UNCHANGED sending

Run(r) == \/ Socket(r) \/ Connect(r) \/ Send(r) \/ PollIn(r)
          \/ Parse(r) \/ Receive(r) \/ DeleteThis(r)

-----------------------------------------------------------------------------
(* The server carries out a request whose text has come as it was built,   *)
(* whether or not the client still waits, and refuses any other.           *)
Serve(c) ==
  /\ conn[c].got = Text(c) /\ itoaPos[c] = Digits[c]
  /\ ~conn[c].processed /\ conn[c].arrived = 0
  /\ conn' = [conn EXCEPT ![c].processed = TRUE]
Connected(c) == ~conn[c].closed /\ \E s \in Sockets : fd[s] = c
Refuse(c) ==
  /\ conn[c].got # <<>> /\ conn[c].arrived = 0 /\ Connected(c)
  /\ conn' = [conn EXCEPT ![c].ok = FALSE, ![c].arrived = 1]
Answer(c) ==
  /\ conn[c].processed /\ conn[c].ok /\ conn[c].arrived < AnswerLen /\ Connected(c)
  /\ conn' = [conn EXCEPT ![c].arrived = @ + 1]
CloseConnection(c) ==
  /\ conn[c].got # <<>> /\ Connected(c)
  /\ conn' = [conn EXCEPT ![c].closed = TRUE]

Server(c) == /\ Serve(c) \/ Refuse(c) \/ Answer(c) \/ CloseConnection(c)
             /\ UNCHANGED <<callVars, thread, api, sending, fd, tid, reused, misused, crashed>>

Caller(r) == \/ Call(r) \/ itoa(r) \/ BuildHeader(r)
             \/ CreateThread(r) \/ AssignThread(r) \/ Detach(r)
             \/ JoinFails(r) \/ JoinWaits(r) \/ JoinReturns(r)
             \/ CloseSocket(r) \/ DeleteApi(r)

Next == /\ ~crashed
        /\ \/ \E r \in Requests : Caller(r) \/ Run(r) \/ Server(r)
           \/ Fault

Spec == Init /\ [][Next]_vars

-----------------------------------------------------------------------------
TypeOK ==
  /\ caller \in [Requests -> {"idle", "itoa", "built", "created", "detaching", "joining",
                              "joined", "rejoining", "deleting", "returned"}]
  /\ thread \in [Requests -> {"none", "begun", "opened", "sending", "waiting", "parsing",
                              "receiving", "ending", "over"}]
  /\ api \in [Requests -> [m_cbfunc : BOOLEAN,
                           m_sock : Sockets \cup {Unset, -1},
                           m_thread : Pthreads \cup {None},
                           m_status : Statuses \cup {"unset"},
                           deleted : BOOLEAN]]
  /\ sending \in [Requests -> [len : Nat, left : Nat]]
  /\ itoaBuf \subseteq Nat /\ itoaPos \in [Requests -> Nat]
  /\ \A r \in Requests : itoaPos[r] <= Digits[r]
  /\ fd \in [Sockets -> Requests \cup {None}]
  /\ tid \in [Pthreads -> [owner : Requests \cup {None}, joiner : Requests \cup {None},
                           detached : BOOLEAN]]
  /\ conn \in [Requests -> [got : Seq(Requests \X Nat), parts : Nat, processed : BOOLEAN,
                            ok : BOOLEAN, arrived : 0 .. AnswerLen, taken : 0 .. AnswerLen,
                            closed : BOOLEAN]]
  /\ result \in [Requests -> Statuses \cup {"none"}]
  /\ reused \subseteq Requests /\ misused \subseteq Requests
  /\ crashed \in BOOLEAN

(* No thread has been given a pthread_t that an unfinished call holds, and *)
(* no fcntl has failed.                                                    *)
Sound == reused = {} /\ \A r \in Requests : api[r].m_status # "fcntl"

Own == INSTANCE Request WITH
  outcome <- [r \in Requests |-> IF caller[r] = "idle" THEN "none"
                                 ELSE CASE result[r] = "success" -> "value"
                                        [] result[r] = "failure" -> "exception"
                                        [] OTHER -> "pending"],
  processed <- {r \in Requests : conn[r].processed},
  sound <- Sound

(* A call that returns a value has had its own request carried out, one    *)
(* that throws leaves that open, as long as pthread_t values are not mixed *)
(* up and fcntl works (webservice.cpp:577-684).                            *)
RequestSpec == Own!Spec

(* close takes a descriptor only from a request whose thread is done with  *)
(* it (~WebApi, webservice.cpp:48), on the same conditions.                *)
OwnDescriptor ==
  [][\A s \in Sockets : fd[s] # None /\ fd'[s] # fd[s]
                          => thread'[fd[s]] = "over" \/ ~Sound]_vars

(* A WebApi is used after its deletion only by these: the call of an       *)
(* asynchronous request whose thread was faster (webservice.cpp:668 against*)
(* 676-683); a call whose status is RET_FCNTL_FAIL, which THROW_EXCEPTION  *)
(* lets pass (250-263); and one whose thread was given a pthread_t that    *)
(* another unfinished call still held (thread.h:99), so that its join may  *)
(* return early.  What happens to one request excuses no other.            *)
UsedAlive == \A r \in misused : api[r].m_cbfunc \/ result[r] = "fcntl" \/ r \in reused

(* What the server gets is the text as far as it has come, unless it was   *)
(* sent in three parts or more (the offset of webservice.cpp:629), or a    *)
(* descriptor may be another request's (~Sound); and its header tells the  *)
(* right length, although two calls may write itoa's buffer at the same    *)
(* time (webservice.cpp:393, 499).                                         *)
SentWhole ==
  /\ \A r \in Requests : \/ conn[r].got = SubSeq(Text(r), 1, Len(conn[r].got))
                         \/ conn[r].parts > 2 \/ ~Sound
  /\ \A r \in Requests : caller[r] \notin {"idle", "itoa"} => itoaPos[r] = Digits[r]

(* A request whose call has returned and whose thread is over has left no  *)
(* socket open, whatever status it ended with, RET_FCNTL_FAIL included,    *)
(* and whatever became of the others (webservice.cpp:45-52, 664-669);      *)
(* unless its thread was given a pthread_t that another unfinished call    *)
(* still held: an early join lets ~WebApi close before run has opened.     *)
NoLeak == \A s \in Sockets : LET r == fd[s] IN
            r # None => caller[r] # "returned" \/ thread[r] # "over" \/ r \in reused
=============================================================================
