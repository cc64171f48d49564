---------------------------- MODULE WebApiProofs ----------------------------
(***************************************************************************)
(* Theorems about WebApi for any requests, descriptors and thread          *)
(* identities, however many calls are made at once: typing, who uses a     *)
(* WebApi, whom close hits, what the server gets, that nothing is left     *)
(* open, and the refinement of Request.                                    *)
(***************************************************************************)
EXTENDS WebApi, SequenceTheorems, TLAPS

Before(r) == caller[r] \in {"idle", "itoa", "built"}
Ended(r) == thread[r] \in {"ending", "over"}

(* How far the call and its thread are, and what the object holds then;    *)
(* true whatever identities are mixed up.                                  *)
Course(r) ==
  /\ Before(r) <=> thread[r] = "none"
  /\ thread[r] \in {"none", "begun"} => api[r].m_sock = Unset
  /\ thread[r] \in {"opened", "sending", "waiting", "parsing", "receiving"}
       => api[r].m_sock \in Sockets
  /\ Ended(r) => api[r].m_sock # Unset
  /\ Ended(r) <=> api[r].m_status # "unset"
  /\ ~Before(r) => api[r].m_thread \in Pthreads
  /\ thread[r] = "ending" => api[r].m_cbfunc
  /\ caller[r] = "detaching" => api[r].m_cbfunc
  /\ caller[r] \in {"joining", "joined", "rejoining", "deleting"} => ~api[r].m_cbfunc
  /\ api[r].deleted /\ api[r].m_cbfunc => thread[r] = "over"
  /\ thread[r] = "none" => ~api[r].deleted
CourseInv == \A r \in Requests : Course(r)

(* itoa's buffer holds the digits of every call, and its end.              *)
ItoaInv ==
  /\ 0 \notin itoaBuf
  /\ \A r \in Requests : /\ 1 .. itoaPos[r] \subseteq itoaBuf
                         /\ caller[r] = "idle" => itoaPos[r] = 0
                         /\ caller[r] \notin {"idle", "itoa"} => itoaPos[r] = Digits[r]

(* An answer follows a request that has been carried out, or says that it  *)
(* has not been.                                                           *)
AnswerInv ==
  \A r \in Requests : /\ conn[r].arrived >= 1 /\ conn[r].ok => conn[r].processed
                      /\ conn[r].arrived > 1 => conn[r].ok

(* Whose a thread's identity is from its creation to its join or its end.  *)
Identity(r) ==
  LET t == tid[api[r].m_thread]
  IN /\ caller[r] \in {"created", "detaching"} =>
          t.owner = r /\ t.joiner = None /\ ~t.detached
     /\ caller[r] = "joining" => t.owner = r /\ t.joiner \in {None, r} /\ ~t.detached
     /\ caller[r] \in {"joined", "rejoining", "deleting"} =>
          t = FreeThread /\ thread[r] = "over"
     /\ caller[r] = "returned" /\ thread[r] # "over" =>
          api[r].m_cbfunc /\ t.owner = r /\ t.joiner = None /\ t.detached

(* When the caller of a synchronous request deletes the object, and what   *)
(* the call takes for its status.                                          *)
Outcome(r) ==
  /\ api[r].deleted /\ ~api[r].m_cbfunc => caller[r] = "returned"
  /\ result[r] # "none" => /\ caller[r] \in {"rejoining", "deleting", "returned"}
                           /\ thread[r] = "over"
                           /\ result[r] = api[r].m_status
  /\ api[r].m_status = "success" => conn[r].processed
  /\ thread[r] = "receiving" => conn[r].processed

(* Who has an open socket, which is the descriptor its object knows.       *)
Open(r) == /\ api[r].m_sock \in Sockets
           /\ IF api[r].m_cbfunc THEN thread[r] # "over"
              ELSE caller[r] \in {"created", "joining", "joined"}
SocketInv == \A s \in Sockets, r \in Requests : fd[s] = r <=> Open(r) /\ api[r].m_sock = s

(* How far the text has been sent; after two parts the offset is the sum   *)
(* no longer.                                                              *)
Prefix(r) == conn[r].got = SubSeq(Text(r), 1, Len(conn[r].got))
Sent(r) ==
  /\ thread[r] \in {"none", "begun", "opened"} =>
       /\ conn[r].got = <<>> /\ conn[r].parts = 0
       /\ sending[r].len = 0 /\ sending[r].left = Pieces[r]
  /\ thread[r] = "sending" =>
       /\ conn[r].parts = 0 => conn[r].got = <<>> /\ sending[r].len = 0
       /\ conn[r].parts = 1 => sending[r].len = Len(conn[r].got)
       /\ conn[r].parts <= 2 => Len(conn[r].got) + sending[r].left = Pieces[r]
  /\ Prefix(r) \/ conn[r].parts > 2

SoundInv ==
  Sound => /\ \A r \in Requests : Identity(r) /\ Outcome(r) /\ Sent(r)
           /\ SocketInv

(* A thread that runs owns the pthread_t in its object; true whatever      *)
(* joins and detachments went astray.                                      *)
OwnerInv == \A r \in Requests : thread[r] \notin {"none", "over"}
                                  => tid[api[r].m_thread].owner = r

(* What holds of one request whose thread was given a pthread_t that no    *)
(* unfinished call held, whatever happens to the others: while the call or *)
(* the thread needs it, it is this request's alone;                        *)
Holds(r) == \/ caller[r] \in {"created", "detaching", "joining"}
            \/ caller[r] = "returned" /\ thread[r] # "over"
Alone(r) ==
  LET t == tid[api[r].m_thread]
  IN Holds(r) =>
       /\ \A q \in Requests \ {r} : api[q].m_thread = api[r].m_thread
                                       => caller[q] = "returned"
       /\ t.owner = r
       /\ caller[r] \in {"created", "detaching"} => t.joiner = None /\ ~t.detached
       /\ caller[r] = "joining" => t.joiner \in {None, r} /\ ~t.detached
       /\ caller[r] = "returned" => api[r].m_cbfunc /\ t.joiner = None /\ t.detached

(* so the join has waited for the thread;                                  *)
Past(r) == caller[r] \in {"joined", "rejoining", "deleting"} => thread[r] = "over"

(* and the object's end, which closes its descriptor, is still to come.    *)
SocketIn(r) ==
  \A s \in Sockets : fd[s] = r =>
       /\ api[r].m_sock = s
       /\ IF api[r].m_cbfunc THEN thread[r] # "over"
          ELSE caller[r] \in {"created", "joining", "joined"}

FreshInv == \A r \in Requests \ reused : Alone(r) /\ Past(r) /\ SocketIn(r)

(* A call that has deleted its object and goes on has the status fcntl.    *)
DeletedInv == \A r \in Requests : api[r].deleted /\ ~api[r].m_cbfunc
                                    => caller[r] = "returned" \/ result[r] = "fcntl"

(* Only an object that a thread has been created for is ever deleted.      *)
MisusedInv == \A r \in misused : ~Before(r)

IInv == /\ TypeOK /\ CourseInv /\ ItoaInv /\ AnswerInv /\ SoundInv
        /\ OwnerInv /\ FreshInv /\ DeletedInv /\ MisusedInv /\ UsedAlive

-----------------------------------------------------------------------------
(* The types of the pieces of the state.                                   *)
Callers == {"idle", "itoa", "built", "created", "detaching", "joining", "joined", "rejoining",
            "deleting", "returned"}
Places == {"none", "begun", "opened", "sending", "waiting", "parsing", "receiving", "ending",
           "over"}
Apis == [m_cbfunc : BOOLEAN, m_sock : Sockets \cup {Unset, -1}, m_thread : Pthreads \cup {None},
         m_status : Statuses \cup {"unset"}, deleted : BOOLEAN]
Tids == [owner : Requests \cup {None}, joiner : Requests \cup {None}, detached : BOOLEAN]
Conns == [got : Seq(Requests \X Nat), parts : Nat, processed : BOOLEAN, ok : BOOLEAN,
          arrived : 0 .. AnswerLen, taken : 0 .. AnswerLen, closed : BOOLEAN]

(* The type invariant in terms of these sets.                              *)
LEMMA Types ==
  TypeOK <=>
    /\ caller \in [Requests -> Callers]
    /\ thread \in [Requests -> Places]
    /\ api \in [Requests -> Apis]
    /\ sending \in [Requests -> [len : Nat, left : Nat]]
    /\ itoaBuf \subseteq Nat /\ itoaPos \in [Requests -> Nat]
    /\ \A r \in Requests : itoaPos[r] <= Digits[r]
    /\ fd \in [Sockets -> Requests \cup {None}]
    /\ tid \in [Pthreads -> Tids]
    /\ conn \in [Requests -> Conns]
    /\ result \in [Requests -> Statuses \cup {"none"}]
    /\ reused \subseteq Requests /\ misused \subseteq Requests
    /\ crashed \in BOOLEAN
  BY DEF TypeOK, Callers, Places, Apis, Tids, Conns

(* The connection that a thread sends on and reads from.                   *)
LEMMA PeerTyped == ASSUME TypeOK, NEW r \in Requests PROVE Peer(r) \in Requests \cup {None}
  BY DEF TypeOK, Peer

(* A text of some pieces, and what is left of a connection that is closed. *)
LEMMA TextTyped ==
  ASSUME NEW r \in Requests
  PROVE  Text(r) \in Seq(Requests \X Nat) /\ Len(Text(r)) = Pieces[r] /\ Text(r) # <<>>
<1>1. Pieces[r] \in Nat \ {0}
  BY PiecesAssumption
<1>2. Text(r) \in [1 .. Pieces[r] -> Requests \X Nat]
  BY <1>1 DEF Text
<1>3. Text(r) \in Seq(Requests \X Nat) /\ Len(Text(r)) = Pieces[r]
  BY <1>1, <1>2 DEF Text
<1>4. QED
  BY <1>1, <1>3

(* close leaves descriptors and connections well formed.                   *)
LEMMA ClosedTyped ==
  ASSUME TypeOK, NEW s, Closed(s)
  PROVE  fd' \in [Sockets -> Requests \cup {None}] /\ conn' \in [Requests -> Conns]
<1>0. conn \in [Requests -> Conns] /\ fd \in [Sockets -> Requests \cup {None}]
  BY Types
<1>1. CASE s \in Sockets /\ fd[s] # None
  <2> DEFINE q == fd[s]
             left == [NoData EXCEPT !.got = IF conn[q].got = Text(q) THEN Text(q) ELSE <<>>,
                                    !.processed = conn[q].processed]
  <2>1. q \in Requests
    BY <1>0, <1>1
  <2>2. left \in Conns
    <3> DEFINE g == IF conn[q].got = Text(q) THEN Text(q) ELSE <<>>
    <3>1. g \in Seq(Requests \X Nat)
      BY <2>1, TextTyped
    <3>2. conn[q].processed \in BOOLEAN
      BY <1>0, <2>1 DEF Conns
    <3> HIDE DEF g
    <3>3. NoData \in Conns
      BY DEF NoData, Conns, AnswerLen
    <3>4. [NoData EXCEPT !.got = g, !.processed = conn[q].processed] \in Conns
      BY <3>1, <3>2, <3>3 DEF Conns
    <3>5. QED
      BY ONLY <3>4 DEF g, left
  <2>3. conn' = [conn EXCEPT ![q] = left] /\ fd' = [fd EXCEPT ![s] = None]
    BY <1>1 DEF Closed
  <2> HIDE DEF left, q
  <2>4. QED
    BY <1>0, <2>1, <2>2, <2>3
<1>2. CASE ~(s \in Sockets /\ fd[s] # None)
  BY <1>0, <1>2 DEF Closed
<1>3. QED
  BY <1>1, <1>2

-----------------------------------------------------------------------------
(* The first state has the types, and the rest of the invariant.           *)
LEMMA InitType == ASSUME Init PROVE TypeOK
<1>1. caller \in [Requests -> Callers] /\ thread \in [Requests -> Places]
  BY DEF Init, Callers, Places
<1>2. api \in [Requests -> Apis]
  BY DEF Init, Apis, Statuses, Unset
<1>3. sending \in [Requests -> [len : Nat, left : Nat]]
  BY PiecesAssumption DEF Init
<1>4. /\ itoaBuf \subseteq Nat /\ itoaPos \in [Requests -> Nat]
      /\ \A r \in Requests : itoaPos[r] <= Digits[r]
  BY DigitsAssumption DEF Init
<1>5. fd \in [Sockets -> Requests \cup {None}]
  BY DEF Init
<1>6. tid \in [Pthreads -> Tids]
  BY DEF Init, Tids, FreeThread
<1>7. NoData \in Conns
  BY DEF NoData, Conns, AnswerLen
<1>8. conn \in [Requests -> Conns]
  BY <1>7 DEF Init
<1>9. /\ result \in [Requests -> Statuses \cup {"none"}]
      /\ reused \subseteq Requests /\ misused \subseteq Requests
  BY DEF Init
<1>10. crashed \in BOOLEAN
  BY Zenon DEF Init
<1>11. QED
  BY ONLY <1>1, <1>2, <1>3, <1>4, <1>5, <1>6, <1>8, <1>9, <1>10, Types

(* The rest of the invariant holds in the first state: no call has begun,  *)
(* and nothing is open, held or sent.                                      *)
LEMMA InitIInv == ASSUME Init PROVE IInv
<1>1. TypeOK
  BY InitType
<1>2. CourseInv
  BY DEF Init, CourseInv, Course, Before, Ended
<1>3. ItoaInv
  BY DEF Init, ItoaInv
<1>4. AnswerInv
  BY DEF Init, AnswerInv, NoData
<1>5. \A r \in Requests : Identity(r) /\ Outcome(r)
  BY DEF Init, Identity, Outcome, NoData
<1>6. \A r \in Requests : Sent(r)
  <2> SUFFICES ASSUME NEW r \in Requests PROVE Sent(r)
    OBVIOUS
  <2>1. /\ conn[r].got = <<>> /\ conn[r].parts = 0 /\ thread[r] = "none"
        /\ sending[r].len = 0 /\ sending[r].left = Pieces[r]
    BY DEF Init, NoData
  <2>2. Prefix(r)
    BY <2>1, TextTyped DEF Prefix
  <2>3. QED
    BY <2>1, <2>2 DEF Sent
<1>7. SocketInv
  BY NoneAssumption, SocketsAssumption DEF Init, SocketInv, Open, Unset
<1>8. MisusedInv /\ UsedAlive
  BY DEF Init, UsedAlive, MisusedInv
<1>9. OwnerInv /\ DeletedInv
  BY DEF Init, OwnerInv, DeletedInv
<1>10. FreshInv
  BY NoneAssumption DEF Init, FreshInv, Alone, Holds, Past, SocketIn
<1>11. QED
  BY <1>1, <1>2, <1>3, <1>4, <1>5, <1>6, <1>7, <1>8, <1>9, <1>10 DEF IInv, SoundInv

-----------------------------------------------------------------------------
(* What itoa returned is the call's own digits, whoever else writes the    *)
(* buffer: the place before its first is the end of the buffer, which is   *)
(* no digit, and every other place up to it holds one.                     *)
LEMMA LengthIsRight ==
  ASSUME TypeOK, ItoaInv, NEW r \in Requests PROVE Strlen(r) = itoaPos[r]
<1> DEFINE End0(n) == /\ itoaPos[r] - n \notin itoaBuf
                      /\ (itoaPos[r] - n + 1) .. itoaPos[r] \subseteq itoaBuf
<1>1. /\ itoaPos[r] \in Nat /\ 0 \notin itoaBuf
      /\ 1 .. itoaPos[r] \subseteq itoaBuf
  BY DEF TypeOK, ItoaInv
<1>2. End0(itoaPos[r])
  <2>1. itoaPos[r] - itoaPos[r] = 0 /\ itoaPos[r] - itoaPos[r] + 1 = 1
    BY <1>1
  <2>2. QED
    BY <1>1, <2>1
<1>3. ASSUME NEW n \in 0 .. itoaPos[r], End0(n) PROVE n = itoaPos[r]
  BY <1>1, <1>3
<1>4. itoaPos[r] \in 0 .. itoaPos[r]
  BY <1>1
<1>5. Strlen(r) = CHOOSE n \in 0 .. itoaPos[r] : End0(n)
  BY DEF Strlen
<1> HIDE DEF End0
<1>6. QED
  BY <1>2, <1>3, <1>4, <1>5

(* The digits of the lengths are written by itoa and read by BuildHeader;  *)
(* no other action has to do with them.                                    *)
LEMMA ItoaStep ==
  ASSUME TypeOK, ItoaInv, [Next]_vars
  PROVE  /\ ItoaInv'
         /\ itoaBuf' \subseteq Nat /\ itoaPos' \in [Requests -> Nat]
         /\ \A q \in Requests : itoaPos'[q] <= Digits[q]
<1>0. /\ itoaBuf \subseteq Nat /\ itoaPos \in [Requests -> Nat]
      /\ \A q \in Requests : itoaPos[q] <= Digits[q] /\ Digits[q] \in Nat
      /\ caller \in [Requests -> Callers]
  BY DigitsAssumption, Types
<1>1. ASSUME NEW r \in Requests, itoa(r)
      PROVE  /\ ItoaInv'
             /\ itoaBuf' \subseteq Nat /\ itoaPos' \in [Requests -> Nat]
             /\ \A q \in Requests : itoaPos'[q] <= Digits[q]
  <2>1. /\ itoaPos' = [itoaPos EXCEPT ![r] = itoaPos[r] + 1]
        /\ itoaBuf' = itoaBuf \cup {itoaPos[r] + 1} /\ caller' = caller
        /\ caller[r] = "itoa" /\ itoaPos[r] < Digits[r]
    BY <1>0, <1>1 DEF itoa
  <2>0. itoaPos[r] \in Nat /\ Digits[r] \in Nat
    BY <1>0
  <2>2. /\ itoaBuf' \subseteq Nat /\ itoaPos' \in [Requests -> Nat] /\ 0 \notin itoaBuf'
        /\ \A q \in Requests : itoaPos'[q] <= Digits[q]
    <3>1. itoaPos[r] + 1 \in Nat /\ itoaPos[r] + 1 # 0 /\ itoaPos[r] + 1 <= Digits[r]
      BY <2>0, <2>1
    <3>2. 0 \notin itoaBuf
      BY DEF ItoaInv
    <3>3. itoaPos' \in [Requests -> Nat] /\ \A q \in Requests : itoaPos'[q] <= Digits[q]
      BY <1>0, <2>1, <3>1
    <3>4. itoaBuf' \subseteq Nat /\ 0 \notin itoaBuf'
      BY <1>0, <2>1, <3>1, <3>2
    <3>5. QED
      BY <3>3, <3>4
  <2>3. ASSUME NEW q \in Requests
        PROVE  /\ 1 .. itoaPos'[q] \subseteq itoaBuf'
               /\ caller'[q] = "idle" => itoaPos'[q] = 0
               /\ caller'[q] \notin {"idle", "itoa"} => itoaPos'[q] = Digits[q]
    <3>1. 1 .. itoaPos[q] \subseteq itoaBuf
      BY DEF ItoaInv
    <3>2. itoaPos'[q] = IF q = r THEN itoaPos[q] + 1 ELSE itoaPos[q]
      BY <1>0, <2>1
    <3>3. 1 .. itoaPos'[q] \subseteq itoaBuf'
      BY <1>0, <2>1, <3>1, <3>2
    <3>4. /\ caller'[q] = "idle" => itoaPos'[q] = 0
          /\ caller'[q] \notin {"idle", "itoa"} => itoaPos'[q] = Digits[q]
      BY <1>0, <2>1, <3>2 DEF ItoaInv
    <3>5. QED
      BY <3>3, <3>4
  <2>4. 0 \notin itoaBuf'
    BY <2>2
  <2>5. ItoaInv'
    BY <2>3, <2>4, Zenon DEF ItoaInv
  <2>6. QED
    BY <2>2, <2>5
<1>2. ASSUME NEW r \in Requests, Call(r)
      PROVE  ItoaInv' /\ UNCHANGED <<itoaPos, itoaBuf>>
  <2>1. /\ caller[r] = "idle" /\ UNCHANGED <<itoaPos, itoaBuf>>
        /\ caller' = [caller EXCEPT ![r] = IF Digits[r] = 0 THEN "built" ELSE "itoa"]
    BY <1>2 DEF Call, Goes
  <2>2. QED
    BY <1>0, <2>1 DEF ItoaInv
<1>3. ASSUME NEW r \in Requests, BuildHeader(r)
      PROVE  ItoaInv' /\ UNCHANGED <<itoaPos, itoaBuf>>
  <2>1. /\ caller[r] = "itoa" /\ itoaPos[r] = Digits[r] /\ itoaBuf' = itoaBuf
        /\ caller' = [caller EXCEPT ![r] = "built"]
        /\ itoaPos' = [itoaPos EXCEPT ![r] = itoaPos[r]]
    BY <1>3, LengthIsRight DEF BuildHeader, Goes
  <2>2. itoaPos' = itoaPos
    BY <1>0, <2>1
  <2>3. QED
    BY <1>0, <2>1, <2>2 DEF ItoaInv
<1>4. CASE ~\E r \in Requests : Call(r) \/ itoa(r) \/ BuildHeader(r)
  <2>1. /\ UNCHANGED <<itoaPos, itoaBuf>>
        /\ \A q \in Requests : /\ caller'[q] = "idle" => caller[q] = "idle"
                               /\ caller'[q] # caller[q] => caller[q] \notin {"idle", "itoa"}
    <3>1. CASE \E r \in Requests : Caller(r)
      BY <1>0, <1>4, <3>1 DEF Caller, CreateThread, AssignThread, Detach, JoinFails, JoinWaits,
                              JoinReturns, CloseSocket, DeleteApi, Goes, AfterJoin, callVars,
                              JoinState
    <3>2. CASE \E r \in Requests : Run(r)
      BY <3>2 DEF Run, Socket, Connect, Send, PollIn, Parse, Receive, DeleteThis, Gives, Step,
                  callVars
    <3>3. CASE \E r \in Requests : Server(r)
      BY <3>3 DEF Server, callVars
    <3>4. CASE Fault \/ UNCHANGED vars
      BY <3>4 DEF Fault, vars, callVars
    <3>5. QED
      BY <3>1, <3>2, <3>3, <3>4 DEF Next
  <2>2. ItoaInv'
    <3>1. ASSUME NEW q \in Requests
          PROVE  /\ 1 .. itoaPos'[q] \subseteq itoaBuf'
                 /\ caller'[q] = "idle" => itoaPos'[q] = 0
                 /\ caller'[q] \notin {"idle", "itoa"} => itoaPos'[q] = Digits[q]
      <4>1. /\ 1 .. itoaPos[q] \subseteq itoaBuf
            /\ caller[q] = "idle" => itoaPos[q] = 0
            /\ caller[q] \notin {"idle", "itoa"} => itoaPos[q] = Digits[q]
        BY DEF ItoaInv
      <4>2. itoaPos'[q] = itoaPos[q] /\ itoaBuf' = itoaBuf
        BY <2>1
      <4>3. /\ caller'[q] = "idle" => caller[q] = "idle"
            /\ caller'[q] # caller[q] => caller[q] \notin {"idle", "itoa"}
        BY <2>1
      <4>4. QED
        BY <4>1, <4>2, <4>3
    <3>2. 0 \notin itoaBuf'
      BY <2>1 DEF ItoaInv
    <3>3. QED
      BY <3>1, <3>2, Zenon DEF ItoaInv
  <2>3. QED
    BY <1>0, <2>1, <2>2
<1>5. QED
  BY <1>0, <1>1, <1>2, <1>3, <1>4

(* Every action keeps the types: those of the call,                        *)
LEMMA CallerTyped == ASSUME TypeOK, ItoaInv, Next, NEW r \in Requests, Caller(r) PROVE TypeOK'
<1>0. /\ caller \in [Requests -> Callers]
      /\ api \in [Requests -> Apis]
      /\ \A q \in Requests : itoaPos[q] \in 0 .. Digits[q] /\ Digits[q] \in Nat
      /\ tid \in [Pthreads -> Tids]
      /\ result \in [Requests -> Statuses \cup {"none"}]
  BY DigitsAssumption, Types
<1>1. caller' \in [Requests -> Callers]
  BY <1>0 DEF Caller, Call, itoa, BuildHeader, CreateThread, AssignThread, Detach, JoinFails,
              JoinWaits, JoinReturns, CloseSocket, DeleteApi, Goes, Callers, callVars,
              AfterJoin
<1>2. thread' \in [Requests -> Places]
  <2>1. CASE CreateThread(r)
    BY <2>1, Types DEF CreateThread, Places
  <2>2. CASE ~CreateThread(r)
    BY <2>2, Types DEF Caller, Call, itoa, BuildHeader, AssignThread, Detach, JoinFails,
                       JoinWaits, JoinReturns, CloseSocket, DeleteApi
  <2>3. QED
    BY <2>1, <2>2
<1>3. api' \in [Requests -> Apis]
  <2>1. CASE Call(r)
    <3>1. PICK cb \in BOOLEAN : api' = [api EXCEPT ![r] = [api[r] EXCEPT !.m_cbfunc = cb]]
      BY <2>1 DEF Call
    <3>2. [api[r] EXCEPT !.m_cbfunc = cb] \in Apis
      BY <1>0 DEF Apis
    <3>3. QED
      BY <1>0, <3>1, <3>2
  <2>2. CASE CreateThread(r)
    <3>1. PICK p \in Pthreads : api' = [api EXCEPT ![r] = [api[r] EXCEPT !.m_thread = p]]
      BY <2>2 DEF CreateThread
    <3>2. [api[r] EXCEPT !.m_thread = p] \in Apis
      BY <1>0 DEF Apis
    <3>3. QED
      BY <1>0, <3>1, <3>2
  <2>3. CASE DeleteApi(r)
    <3>1. api' = [api EXCEPT ![r] = [api[r] EXCEPT !.deleted = TRUE]]
      BY <2>3 DEF DeleteApi
    <3>2. [api[r] EXCEPT !.deleted = TRUE] \in Apis
      BY <1>0 DEF Apis
    <3>3. QED
      BY <1>0, <3>1, <3>2
  <2>4. CASE ~(Call(r) \/ CreateThread(r) \/ DeleteApi(r))
    BY <1>0, <2>4 DEF Caller, itoa, BuildHeader, AssignThread, Detach, JoinFails, JoinWaits,
                      JoinReturns, CloseSocket
  <2>5. QED
    BY <2>1, <2>2, <2>3, <2>4
<1>4. sending' = sending
  BY DEF Caller, Call, itoa, BuildHeader, CreateThread, AssignThread, Detach, JoinFails,
         JoinWaits, JoinReturns, CloseSocket, DeleteApi
<1>5. /\ itoaBuf' \subseteq Nat /\ itoaPos' \in [Requests -> Nat]
      /\ \A q \in Requests : itoaPos'[q] <= Digits[q]
  BY ItoaStep
<1>6. fd' \in [Sockets -> Requests \cup {None}] /\ conn' \in [Requests -> Conns]
  <2>1. CASE CloseSocket(r)
    BY <2>1, ClosedTyped DEF CloseSocket
  <2>2. CASE ~CloseSocket(r)
    BY <2>2, Types DEF Caller, Call, itoa, BuildHeader, CreateThread, AssignThread, Detach,
                       JoinFails, JoinWaits, JoinReturns, DeleteApi, systemVars
  <2>3. QED
    BY <2>1, <2>2
<1>7. tid' \in [Pthreads -> Tids]
  <2>1. CASE CreateThread(r)
    <3>1. PICK p \in Pthreads : tid' = [tid EXCEPT ![p] = [tid[p] EXCEPT !.owner = r]]
      BY <2>1 DEF CreateThread
    <3>2. [tid[p] EXCEPT !.owner = r] \in Tids
      BY <1>0 DEF Tids
    <3>3. QED
      BY <1>0, <3>1, <3>2
  <2>2. CASE Detach(r)
    <3> DEFINE p == api[r].m_thread
    <3>1. CASE tid' # tid /\ p \in Pthreads
      <4>1. \/ tid' = [tid EXCEPT ![p] = FreeThread]
            \/ tid' = [tid EXCEPT ![p] = [tid[p] EXCEPT !.detached = TRUE]]
        BY <1>0, <2>2, <3>1 DEF Detach
      <4>2. [tid[p] EXCEPT !.detached = TRUE] \in Tids /\ FreeThread \in Tids
        BY <1>0, <3>1 DEF Tids, FreeThread
      <4> HIDE DEF p
      <4>3. QED
        BY <1>0, <4>1, <4>2
    <3>2. CASE tid' = tid
      BY <1>0, <3>2
    <3>3. CASE p \notin Pthreads
      BY <1>0, <2>2, <3>3 DEF Detach
    <3>4. QED
      BY <3>1, <3>2, <3>3
  <2>3. CASE JoinWaits(r)
    <3> DEFINE p == api[r].m_thread
    <3>1. tid' = [tid EXCEPT ![p] = [tid[p] EXCEPT !.joiner = r]]
      BY <2>3 DEF JoinWaits
    <3>2. p \in Pthreads => [tid[p] EXCEPT !.joiner = r] \in Tids
      BY <1>0 DEF Tids
    <3> HIDE DEF p
    <3>3. QED
      BY <1>0, <3>1, <3>2
  <2>4. CASE JoinReturns(r)
    BY <1>0, <2>4 DEF JoinReturns, Tids, FreeThread
  <2>5. CASE ~(CreateThread(r) \/ Detach(r) \/ JoinWaits(r) \/ JoinReturns(r))
    BY <1>0, <2>5 DEF Caller, Call, itoa, BuildHeader, AssignThread, JoinFails, CloseSocket,
                      DeleteApi, systemVars
  <2>6. QED
    BY <2>1, <2>2, <2>3, <2>4, <2>5
<1>8. result' \in [Requests -> Statuses \cup {"none"}]
  <2>1. CASE CloseSocket(r)
    BY <1>0, <2>1 DEF CloseSocket, Apis
  <2>2. CASE ~CloseSocket(r)
    BY <1>0, <2>2 DEF Caller, Call, itoa, BuildHeader, CreateThread, AssignThread, Detach,
                      JoinFails, JoinWaits, JoinReturns, DeleteApi, callVars
  <2>3. QED
    BY <2>1, <2>2
<1>9. /\ reused' \subseteq Requests /\ misused' \subseteq Requests
      /\ crashed' = crashed
  BY Types DEF Caller, Call, itoa, BuildHeader, CreateThread, AssignThread, Detach, JoinFails,
               JoinWaits, JoinReturns, CloseSocket, DeleteApi, Touch
<1>10. crashed' \in BOOLEAN
  BY <1>9, Types
<1>11. sending' \in [Requests -> [len : Nat, left : Nat]]
  BY <1>4, Types
<1>12. QED
  BY ONLY <1>1, <1>2, <1>3, <1>5, <1>6, <1>7, <1>8, <1>9, <1>10, <1>11
     DEF TypeOK, Callers, Places, Apis, Tids, Conns

-----------------------------------------------------------------------------
(* What a step of a thread does to its own object and to the system: no    *)
(* socket is made; one is; run goes on; run ends; the thread of an         *)
(* asynchronous request deletes the object.                                *)
SameObject(r) == api'[r].m_sock = api[r].m_sock /\ api'[r].deleted = api[r].deleted
NoSocket(r) ==
  /\ thread[r] = "begun" /\ thread'[r] = End(r)
  /\ api'[r].m_sock = -1 /\ api'[r].m_status = "failure" /\ api'[r].deleted = api[r].deleted
  /\ UNCHANGED <<fd, tid, conn, sending>>
Opens(r) ==
  /\ thread[r] = "begun" /\ thread'[r] = "opened"
  /\ api'[r].m_status = api[r].m_status /\ api'[r].deleted = api[r].deleted
  /\ api'[r].m_sock \in Sockets /\ fd[api'[r].m_sock] = None
  /\ fd' = [fd EXCEPT ![api'[r].m_sock] = r]
  /\ UNCHANGED <<tid, conn, sending>>
InRun == {"opened", "sending", "waiting", "parsing", "receiving"}
GoesOn(r) ==
  /\ thread[r] \in InRun /\ thread'[r] \in InRun \ {"opened"}
  /\ api' = api
  /\ UNCHANGED <<fd, tid>>
RunEnds(r) ==
  /\ thread[r] \in InRun /\ thread'[r] = End(r)
  /\ api'[r].m_status \in Statuses /\ SameObject(r)
  /\ UNCHANGED <<fd, tid>>
Deletes(r) ==
  /\ thread[r] = "ending" /\ thread'[r] = "over"
  /\ api'[r].m_status = api[r].m_status /\ api'[r].m_sock = api[r].m_sock /\ api'[r].deleted
  /\ Closed(api[r].m_sock)
  /\ tid' = IF tid[api[r].m_thread].detached
            THEN [tid EXCEPT ![api[r].m_thread] = FreeThread] ELSE tid
  /\ UNCHANGED sending

Other(r) == \A q \in Requests \ {r} : /\ thread'[q] = thread[q] /\ api'[q] = api[q]
                                      /\ sending'[q] = sending[q]

(* A step of a request's thread is one of these, and changes no more than  *)
(* its own place, object and locals of run.                                *)
LEMMA ThreadSteps ==
  ASSUME TypeOK, NEW r \in Requests, Run(r)
  PROVE  /\ UNCHANGED <<caller, itoaBuf, itoaPos, result, reused>> /\ Touch(r)
         /\ thread' \in [Requests -> Places] /\ api' \in [Requests -> Apis]
         /\ Other(r)
         /\ api'[r].m_cbfunc = api[r].m_cbfunc /\ api'[r].m_thread = api[r].m_thread
         /\ NoSocket(r) \/ Opens(r) \/ GoesOn(r) \/ RunEnds(r) \/ Deletes(r)
<1>0. /\ thread \in [Requests -> Places] /\ api \in [Requests -> Apis]
      /\ sending \in [Requests -> [len : Nat, left : Nat]]
  BY Types
<1>1. api[r] \in Apis /\ End(r) \in Places /\ End(r) # "none"
  BY <1>0 DEF End, Places
<1>2. UNCHANGED <<caller, itoaBuf, itoaPos, result, reused>> /\ Touch(r)
  BY DEF Run, Socket, Connect, Send, PollIn, Parse, Receive, DeleteThis, Gives, Step, callVars
<1> DEFINE Wanted == /\ thread' \in [Requests -> Places] /\ api' \in [Requests -> Apis]
                     /\ Other(r)
                     /\ api'[r].m_cbfunc = api[r].m_cbfunc
                     /\ api'[r].m_thread = api[r].m_thread
                     /\ NoSocket(r) \/ Opens(r) \/ GoesOn(r) \/ RunEnds(r) \/ Deletes(r)
<1>3. ASSUME NEW from \in InRun, NEW status \in Statuses, Step(r, from, End(r)),
             api' = [api EXCEPT ![r].m_status = status], UNCHANGED <<fd, tid>>,
             \A q \in Requests \ {r} : sending'[q] = sending[q]
      PROVE  Wanted
  <2>1. /\ thread[r] = from /\ thread' = [thread EXCEPT ![r] = End(r)]
        /\ api' = [api EXCEPT ![r] = [api[r] EXCEPT !.m_status = status]]
    BY <1>0, <1>3 DEF Step
  <2>2. [api[r] EXCEPT !.m_status = status] \in Apis
    BY <1>1 DEF Apis
  <2>3. /\ api' \in [Requests -> Apis] /\ SameObject(r) /\ api'[r].m_status = status
        /\ api'[r].m_cbfunc = api[r].m_cbfunc /\ api'[r].m_thread = api[r].m_thread
    BY <1>0, <1>1, <2>1, <2>2 DEF Apis, SameObject
  <2>4. QED
    BY <1>0, <1>1, <1>3, <2>1, <2>3 DEF RunEnds, Other
<1>4. ASSUME NEW from \in InRun, NEW to \in InRun \ {"opened"}, Step(r, from, to),
             UNCHANGED <<api, fd, tid>>,
             \A q \in Requests \ {r} : sending'[q] = sending[q]
      PROVE  Wanted
  BY <1>0, <1>4 DEF Step, GoesOn, Other, InRun, Places
<1>gives. ASSUME NEW from \in InRun, NEW status \in Statuses, Gives(r, from, status)
          PROVE  Wanted
  <2>1. /\ Step(r, from, End(r)) /\ api' = [api EXCEPT ![r].m_status = status]
        /\ UNCHANGED <<fd, tid>>
        /\ \A q \in Requests \ {r} : sending'[q] = sending[q]
    BY <1>0, <1>gives DEF Gives, systemVars
  <2> HIDE DEF Wanted
  <2>2. QED
    BY <1>3, <2>1
<1>5. ASSUME Socket(r) PROVE Wanted
  <2>1. CASE /\ Step(r, "begun", End(r))
             /\ api' = [api EXCEPT ![r].m_sock = -1, ![r].m_status = "failure"]
             /\ UNCHANGED <<sending, systemVars, crashed>>
    <3>1. api' = [api EXCEPT ![r] = [api[r] EXCEPT !.m_sock = -1, !.m_status = "failure"]]
      BY <1>0, <2>1
    <3>2. [api[r] EXCEPT !.m_sock = -1, !.m_status = "failure"] \in Apis
      BY <1>1 DEF Apis, Statuses
    <3>3. /\ api' \in [Requests -> Apis] /\ api'[r].m_sock = -1 /\ api'[r].m_status = "failure"
          /\ api'[r].deleted = api[r].deleted
          /\ api'[r].m_cbfunc = api[r].m_cbfunc /\ api'[r].m_thread = api[r].m_thread
      BY <1>0, <1>1, <3>1, <3>2 DEF Apis
    <3>4. QED
      BY <1>0, <1>1, <2>1, <3>1, <3>3 DEF Step, NoSocket, Other, systemVars
  <2>2. CASE /\ Step(r, "begun", "opened")
             /\ \E s \in Sockets : /\ fd[s] = None
                                   /\ \A t \in Sockets : fd[t] = None => s <= t
                                   /\ fd' = [fd EXCEPT ![s] = r]
                                   /\ api' = [api EXCEPT ![r].m_sock = s]
             /\ UNCHANGED <<sending, tid, conn, crashed>>
    <3>1. PICK s \in Sockets : /\ fd[s] = None /\ fd' = [fd EXCEPT ![s] = r]
                               /\ api' = [api EXCEPT ![r] = [api[r] EXCEPT !.m_sock = s]]
      BY <2>2
    <3>2. [api[r] EXCEPT !.m_sock = s] \in Apis
      BY <1>1 DEF Apis
    <3>3. /\ api' \in [Requests -> Apis] /\ api'[r].m_sock = s
          /\ api'[r].deleted = api[r].deleted /\ api'[r].m_status = api[r].m_status
          /\ api'[r].m_cbfunc = api[r].m_cbfunc /\ api'[r].m_thread = api[r].m_thread
      BY <1>0, <1>1, <3>1, <3>2 DEF Apis
    <3>4. QED
      BY <1>0, <1>1, <2>2, <3>1, <3>3 DEF Step, Opens, Other, Places
  <2>3. QED
    BY <1>5, <2>1, <2>2 DEF Socket
<1> HIDE DEF Wanted
<1>6. ASSUME Connect(r) PROVE Wanted
  BY <1>gives, <1>4, <1>6 DEF Connect, InRun, Statuses, systemVars
<1>7. ASSUME Send(r) PROVE Wanted
  <2>1. CASE Gives(r, "sending", "failure")
    BY <1>gives, <2>1 DEF InRun, Statuses
  <2>2. CASE ~Gives(r, "sending", "failure")
    <3>1. PICK n \in 1 .. sending[r].left :
            /\ Step(r, "sending", IF n = sending[r].left THEN "waiting" ELSE "sending")
            /\ sending' = [sending EXCEPT ![r] = [len |-> n, left |-> sending[r].left - n]]
            /\ UNCHANGED <<api, fd, tid>>
      BY <1>0, <1>7, <2>2 DEF Send
    <3>2. QED
      BY <1>0, <1>4, <3>1 DEF InRun
  <2>3. QED
    BY <2>1, <2>2
<1>8. ASSUME PollIn(r) PROVE Wanted
  BY <1>gives, <1>4, <1>8 DEF PollIn, InRun, Statuses, systemVars
<1>9. ASSUME Parse(r) PROVE Wanted
  <2>1. CASE Gives(r, "parsing", "failure")
    BY <1>gives, <2>1 DEF InRun, Statuses
  <2>2. CASE ~Gives(r, "parsing", "failure")
    <3>1. /\ UNCHANGED <<sending, fd, tid>>
          /\ \/ /\ Step(r, "parsing", End(r))
                /\ \/ api' = [api EXCEPT ![r].m_status = "failure"]
                   \/ api' = [api EXCEPT ![r].m_status = "success"]
             \/ Step(r, "parsing", "receiving") /\ api' = api
             \/ Step(r, "parsing", "parsing") /\ api' = api
      <4>1. PICK k \in 1 .. Available(Peer(r)) :
              /\ UNCHANGED <<sending, fd, tid>>
              /\ \/ Step(r, "parsing", End(r)) /\ api' = [api EXCEPT ![r].m_status = "failure"]
                 \/ \E done \in BOOLEAN :
                      /\ Step(r, "parsing", IF done THEN End(r) ELSE "receiving")
                      /\ api' = IF done THEN [api EXCEPT ![r].m_status = "success"] ELSE api
                 \/ Step(r, "parsing", "parsing") /\ api' = api
        BY <1>9, <2>2 DEF Parse
      <4>2. QED
        BY <4>1
    <3>2. QED
      BY <1>3, <1>4, <3>1 DEF InRun, Statuses
  <2>3. QED
    BY <2>1, <2>2
<1>10. ASSUME Receive(r) PROVE Wanted
  BY <1>3, <1>10 DEF Receive, InRun, Statuses
<1>11. ASSUME DeleteThis(r) PROVE Wanted
  <2>1. /\ thread[r] = "ending" /\ thread' = [thread EXCEPT ![r] = "over"]
        /\ api' = [api EXCEPT ![r] = [api[r] EXCEPT !.deleted = TRUE]]
        /\ Closed(api[r].m_sock) /\ UNCHANGED sending
        /\ tid' = IF tid[api[r].m_thread].detached
                  THEN [tid EXCEPT ![api[r].m_thread] = FreeThread] ELSE tid
    BY <1>11 DEF DeleteThis, Step
  <2>2. [api[r] EXCEPT !.deleted = TRUE] \in Apis
    BY <1>1 DEF Apis
  <2>3. /\ api' \in [Requests -> Apis] /\ api'[r].m_status = api[r].m_status
        /\ api'[r].m_sock = api[r].m_sock /\ api'[r].deleted
        /\ api'[r].m_cbfunc = api[r].m_cbfunc /\ api'[r].m_thread = api[r].m_thread
    BY <1>0, <1>1, <2>1, <2>2 DEF Apis
  <2>4. thread' \in [Requests -> Places] /\ thread'[r] = "over"
    BY <1>0, <2>1 DEF Places
  <2>5. Other(r)
    BY <1>0, <2>1 DEF Other
  <2>6. Deletes(r)
    BY <2>1, <2>3, <2>4 DEF Deletes
  <2>7. QED
    BY <2>3, <2>4, <2>5, <2>6 DEF Wanted
<1>12. Wanted
  BY <1>5, <1>6, <1>7, <1>8, <1>9, <1>10, <1>11 DEF Run
<1>13. QED
  BY <1>2, <1>12 DEF Wanted

(* What a step of a thread does to the connections: it sends a part of its *)
(* text, it closes its socket, or no more than takes what has come.        *)
SameData(q) ==
  /\ conn'[q].got = conn[q].got /\ conn'[q].parts = conn[q].parts
  /\ conn'[q].processed = conn[q].processed
  /\ conn'[q].ok = conn[q].ok /\ conn'[q].arrived = conn[q].arrived
SendsPart(r, n) ==
  LET q == Peer(r)
      part == [i \in 1 .. n |-> <<r, sending[r].len + i>>]
  IN /\ q \in Requests
     /\ thread[r] = "sending"
     /\ thread'[r] = IF n = sending[r].left THEN "waiting" ELSE "sending"
     /\ conn'[q].got = conn[q].got \o part /\ conn'[q].parts = conn[q].parts + 1
     /\ conn'[q].processed = conn[q].processed
     /\ conn'[q].ok = conn[q].ok /\ conn'[q].arrived = conn[q].arrived
     /\ \A c \in Requests \ {q} : conn'[c] = conn[c]
     /\ sending'[r].len = n /\ sending'[r].left = sending[r].left - n
     /\ api' = api
OnlyTakes(r) ==
  /\ \A q \in Requests : SameData(q)
  /\ thread'[r] = "opened" => thread[r] = "begun" /\ sending' = sending
  /\ thread'[r] = "sending" => thread[r] = "opened" /\ sending' = sending

(* Taking from a connection leaves the rest of it as it was.               *)
LEMMA TakenOnly ==
  ASSUME TypeOK, NEW q \in Requests, NEW k \in 0 .. AnswerLen,
         conn' = [conn EXCEPT ![q].taken = k]
  PROVE  conn' \in [Requests -> Conns] /\ \A c \in Requests : SameData(c)
<1>1. conn \in [Requests -> Conns] /\ conn[q] \in Conns
  BY Types
<1>2. conn' = [conn EXCEPT ![q] = [conn[q] EXCEPT !.taken = k]]
  BY <1>1
<1>3. [conn[q] EXCEPT !.taken = k] \in Conns
  BY <1>1 DEF Conns
<1>4. conn' \in [Requests -> Conns]
  BY <1>1, <1>2, <1>3
<1>5. \A c \in Requests : conn'[c] = IF c = q THEN [conn[q] EXCEPT !.taken = k] ELSE conn[c]
  BY <1>1, <1>2
<1>6. \A c \in Requests : SameData(c)
  BY <1>1, <1>5 DEF SameData, Conns
<1>7. QED
  BY <1>4, <1>6

(* Each step of a thread does one of the three, and keeps the types.       *)
LEMMA DataSteps ==
  ASSUME TypeOK, NEW r \in Requests, Run(r)
  PROVE  /\ conn' \in [Requests -> Conns]
         /\ sending' \in [Requests -> [len : Nat, left : Nat]]
         /\ \/ Deletes(r) \/ OnlyTakes(r)
            \/ \E n \in 1 .. sending[r].left : SendsPart(r, n)
<1>0. /\ conn \in [Requests -> Conns] /\ thread \in [Requests -> Places]
      /\ sending \in [Requests -> [len : Nat, left : Nat]]
      /\ Peer(r) \in Requests \cup {None}
  BY Types, PeerTyped
<1>1. End(r) \notin {"opened", "sending"}
  BY DEF End
<1> DEFINE Wanted == /\ conn' \in [Requests -> Conns]
                     /\ sending' \in [Requests -> [len : Nat, left : Nat]]
                     /\ \/ Deletes(r) \/ OnlyTakes(r)
                        \/ \E n \in 1 .. sending[r].left : SendsPart(r, n)
<1>2. ASSUME NEW from \in InRun, NEW status \in Statuses, Gives(r, from, status) PROVE Wanted
  <2>1. /\ conn' = conn /\ thread' = [thread EXCEPT ![r] = End(r)]
        /\ sending' = [sending EXCEPT ![r] = [[sending[r] EXCEPT !.len = 0] EXCEPT !.left = 0]]
    BY <1>0, <1>2 DEF Gives, Step, systemVars
  <2>2. [[sending[r] EXCEPT !.len = 0] EXCEPT !.left = 0] \in [len : Nat, left : Nat]
    BY <1>0
  <2>3. OnlyTakes(r)
    BY <1>0, <1>1, <2>1 DEF OnlyTakes, SameData
  <2>4. QED
    BY <1>0, <2>1, <2>2, <2>3
<1>3. ASSUME conn' = conn, sending' = sending, thread'[r] # "sending",
             thread'[r] = "opened" => thread[r] = "begun"
      PROVE  Wanted
  BY <1>0, <1>3 DEF OnlyTakes, SameData
<1>4. ASSUME Socket(r) PROVE Wanted
  BY <1>0, <1>1, <1>3, <1>4 DEF Socket, Step, systemVars
<1>5. ASSUME Connect(r) PROVE Wanted
  <2>1. CASE Step(r, "opened", "sending") /\ UNCHANGED <<conn, sending>>
    BY <1>0, <2>1 DEF Step, OnlyTakes, SameData
  <2>2. QED
    BY <1>2, <1>5, <2>1 DEF Connect, InRun, Statuses, systemVars
<1>6. ASSUME Send(r) PROVE Wanted
  <2>1. CASE Gives(r, "sending", "failure")
    BY <1>2, <2>1 DEF InRun, Statuses
  <2>2. CASE ~Gives(r, "sending", "failure")
    <3> DEFINE q == Peer(r)
               Part(n) == [i \in 1 .. n |-> <<r, sending[r].len + i>>]
               After(n) == [[conn[q] EXCEPT !.got = conn[q].got \o Part(n)]
                             EXCEPT !.parts = conn[q].parts + 1]
    <3>1. PICK n \in 1 .. sending[r].left :
            /\ q # None
            /\ Step(r, "sending", IF n = sending[r].left THEN "waiting" ELSE "sending")
            /\ conn' = [conn EXCEPT ![q] = After(n)]
            /\ sending' = [sending EXCEPT ![r] = [len |-> n, left |-> sending[r].left - n]]
            /\ api' = api
      BY <1>0, <1>6, <2>2 DEF Send
    <3>2. q \in Requests /\ conn[q] \in Conns
      BY <1>0, <3>1
    <3>3. sending[r].len \in Nat /\ sending[r].left \in Nat /\ n \in Nat
      BY <1>0, <3>1
    <3>4. Part(n) \in Seq(Requests \X Nat)
      <4>1. \A i \in 1 .. n : <<r, sending[r].len + i>> \in Requests \X Nat
        BY <3>3
      <4>2. QED
        BY <3>3, <4>1
    <3> HIDE DEF Part, q
    <3>5. conn[q].got \o Part(n) \in Seq(Requests \X Nat) /\ conn[q].parts + 1 \in Nat
      BY <3>2, <3>4 DEF Conns
    <3>6. After(n) \in Conns
      BY <3>2, <3>5 DEF Conns
    <3>7. /\ After(n).got = conn[q].got \o Part(n) /\ After(n).parts = conn[q].parts + 1
          /\ After(n).processed = conn[q].processed
          /\ After(n).ok = conn[q].ok /\ After(n).arrived = conn[q].arrived
      BY <3>2 DEF Conns
    <3> HIDE DEF After
    <3>8. /\ conn' \in [Requests -> Conns] /\ conn'[q] = After(n)
          /\ \A c \in Requests \ {q} : conn'[c] = conn[c]
      BY <1>0, <3>1, <3>2, <3>6
    <3>9. /\ sending' \in [Requests -> [len : Nat, left : Nat]]
          /\ sending'[r].len = n /\ sending'[r].left = sending[r].left - n
      BY <1>0, <3>1, <3>3
    <3>10. /\ thread[r] = "sending"
           /\ thread'[r] = IF n = sending[r].left THEN "waiting" ELSE "sending"
      BY <1>0, <3>1 DEF Step
    <3>11. SendsPart(r, n)
      BY <3>1, <3>2, <3>7, <3>8, <3>9, <3>10 DEF SendsPart, Part, q
    <3>12. QED
      BY <3>1, <3>8, <3>9, <3>11
  <2>3. QED
    BY <2>1, <2>2
<1>7. ASSUME PollIn(r) PROVE Wanted
  <2>1. CASE Step(r, "waiting", "parsing") /\ UNCHANGED <<conn, sending>>
    BY <1>0, <1>3, <2>1 DEF Step
  <2>2. QED
    BY <1>2, <1>7, <2>1 DEF PollIn, InRun, Statuses, systemVars
<1>8. ASSUME NEW k \in 0 .. AnswerLen, Peer(r) \in Requests, UNCHANGED sending,
             thread'[r] \notin {"opened", "sending"},
             conn' = [conn EXCEPT ![Peer(r)].taken = k]
      PROVE  Wanted
  BY <1>0, <1>8, TakenOnly DEF OnlyTakes
<1> HIDE DEF Wanted
<1>9. \A k \in 1 .. Available(Peer(r)) :
        Peer(r) \in Requests /\ conn[Peer(r)].taken + k \in 0 .. AnswerLen
  <2> SUFFICES ASSUME NEW k \in 1 .. Available(Peer(r))
               PROVE  Peer(r) \in Requests /\ conn[Peer(r)].taken + k \in 0 .. AnswerLen
    OBVIOUS
  <2>1. Peer(r) \in Requests
    BY <1>0 DEF Available
  <2>2. Available(Peer(r)) = conn[Peer(r)].arrived - conn[Peer(r)].taken
    BY <2>1, NoneAssumption DEF Available
  <2>3. conn[Peer(r)].arrived \in 0 .. 3 /\ conn[Peer(r)].taken \in 0 .. 3
    BY <1>0, <2>1 DEF Conns, AnswerLen
  <2>4. QED
    BY <2>1, <2>2, <2>3 DEF AnswerLen
<1>10. ASSUME Parse(r) PROVE Wanted
  <2>1. CASE Gives(r, "parsing", "failure")
    BY <1>2, <2>1 DEF InRun, Statuses
  <2>2. CASE ~Gives(r, "parsing", "failure")
    <3>1. PICK k \in 1 .. Available(Peer(r)) :
            /\ conn' = [conn EXCEPT ![Peer(r)].taken = conn[Peer(r)].taken + k]
            /\ UNCHANGED sending
            /\ \E to \in {End(r), "receiving", "parsing"} : Step(r, "parsing", to)
      BY <1>10, <2>2 DEF Parse
    <3>2. thread'[r] \notin {"opened", "sending"}
      BY <1>0, <1>1, <3>1 DEF Step
    <3>3. QED
      BY <1>8, <1>9, <3>1, <3>2
  <2>3. QED
    BY <2>1, <2>2
<1>11. ASSUME Receive(r) PROVE Wanted
  <2>1. /\ Available(Peer(r)) > 0 /\ UNCHANGED sending /\ Step(r, "receiving", End(r))
        /\ conn' = [conn EXCEPT ![Peer(r)].taken = conn[Peer(r)].arrived]
    BY <1>11 DEF Receive
  <2>2. Peer(r) \in Requests /\ conn[Peer(r)].arrived \in 0 .. AnswerLen
    BY <1>0, <2>1 DEF Available, Conns
  <2>3. thread'[r] \notin {"opened", "sending"}
    BY <1>0, <1>1, <2>1 DEF Step
  <2>4. QED
    BY <1>8, <2>1, <2>2, <2>3
<1>12. ASSUME DeleteThis(r) PROVE Wanted
  <2>1. Deletes(r)
    BY <1>12, ThreadSteps DEF Run, DeleteThis, Step, NoSocket, Opens, GoesOn, RunEnds, InRun
  <2>2. conn' \in [Requests -> Conns] /\ sending' = sending
    BY <2>1, ClosedTyped DEF Deletes
  <2>3. QED
    BY <1>0, <2>1, <2>2 DEF Wanted
<1>13. Wanted
  BY <1>4, <1>5, <1>6, <1>7, <1>10, <1>11, <1>12 DEF Run
<1>14. QED
  BY <1>13 DEF Wanted

(* The thread keeps the types.                                             *)
LEMMA RunTyped ==
  ASSUME TypeOK, ItoaInv, Next, NEW r \in Requests, Run(r) PROVE TypeOK'
<1>0. /\ UNCHANGED <<caller, result, reused>>
      /\ thread' \in [Requests -> Places] /\ api' \in [Requests -> Apis]
      /\ conn' \in [Requests -> Conns]
      /\ sending' \in [Requests -> [len : Nat, left : Nat]]
      /\ itoaBuf' \subseteq Nat /\ itoaPos' \in [Requests -> Nat]
      /\ \A q \in Requests : itoaPos'[q] <= Digits[q]
  BY ThreadSteps, DataSteps, ItoaStep
<1>1. caller' \in [Requests -> Callers] /\ result' \in [Requests -> Statuses \cup {"none"}]
  BY <1>0, Types
<1>2. reused' \subseteq Requests /\ misused' \subseteq Requests
  BY <1>0, ThreadSteps, Types DEF Touch
<1>3. fd' \in [Sockets -> Requests \cup {None}]
  <2>1. CASE Opens(r)
    BY <2>1, Types DEF Opens
  <2>2. CASE Deletes(r)
    BY <2>2, ClosedTyped DEF Deletes
  <2>3. QED
    BY <2>1, <2>2, ThreadSteps, Types DEF NoSocket, GoesOn, RunEnds
<1>4. tid' \in [Pthreads -> Tids]
  <2>1. FreeThread \in Tids
    BY DEF FreeThread, Tids
  <2>2. QED
    BY <2>1, ThreadSteps, Types DEF NoSocket, Opens, GoesOn, RunEnds, Deletes
<1>5. crashed' \in BOOLEAN
  <2>1. crashed' = crashed \/ crashed' = TRUE
    BY DEF Run, Socket, Connect, Send, PollIn, Parse, Receive, DeleteThis, Gives
  <2>2. QED
    BY <2>1, Types
<1>6. QED
  BY ONLY <1>0, <1>1, <1>2, <1>3, <1>4, <1>5 DEF TypeOK, Callers, Places, Apis, Tids, Conns

(* What the server does to the connections: it carries out a text that has *)
(* come whole, refuses one that has not been answered, goes on with the    *)
(* answer of one that it has carried out, or closes.                       *)
LEMMA ServerSteps ==
  ASSUME TypeOK, NEW c \in Requests, Server(c)
  PROVE  /\ UNCHANGED <<callVars, thread, api, sending, fd, tid, reused, misused, crashed>>
         /\ conn' \in [Requests -> Conns]
         /\ \A q \in Requests \ {c} : conn'[q] = conn[q]
         /\ conn'[c].got = conn[c].got /\ conn'[c].parts = conn[c].parts
         /\ \/ /\ conn[c].got = Text(c) /\ conn'[c].processed
               /\ conn[c].arrived = 0 /\ conn'[c].arrived = 0
            \/ /\ conn'[c].processed = conn[c].processed
               /\ \/ conn[c].arrived = 0 /\ conn'[c].arrived = 1 /\ ~conn'[c].ok
                  \/ conn[c].processed /\ conn[c].ok /\ conn'[c].ok
                  \/ conn'[c].arrived = conn[c].arrived /\ conn'[c].ok = conn[c].ok
<1>0. conn \in [Requests -> Conns] /\ conn[c] \in Conns
  BY Types
<1>1. UNCHANGED <<callVars, thread, api, sending, fd, tid, reused, misused, crashed>>
  BY DEF Server
<1>2. CASE Serve(c)
  <2>1. /\ conn' = [conn EXCEPT ![c] = [conn[c] EXCEPT !.processed = TRUE]]
        /\ conn[c].got = Text(c) /\ conn[c].arrived = 0
    BY <1>2 DEF Serve
  <2>2. [conn[c] EXCEPT !.processed = TRUE] \in Conns
    BY <1>0 DEF Conns
  <2>3. QED
    BY <1>0, <1>1, <2>1, <2>2 DEF Conns
<1>3. CASE Refuse(c)
  <2>1. /\ conn' = [conn EXCEPT ![c] = [[conn[c] EXCEPT !.ok = FALSE] EXCEPT !.arrived = 1]]
        /\ conn[c].arrived = 0
    BY <1>0, <1>3 DEF Refuse
  <2>2. [[conn[c] EXCEPT !.ok = FALSE] EXCEPT !.arrived = 1] \in Conns
    <3>1. 1 \in 0 .. AnswerLen
      BY DEF AnswerLen
    <3>2. QED
      BY <1>0, <3>1 DEF Conns
  <2>3. QED
    BY <1>0, <1>1, <2>1, <2>2 DEF Conns
<1>4. CASE Answer(c)
  <2>1. /\ conn' = [conn EXCEPT ![c] = [conn[c] EXCEPT !.arrived = conn[c].arrived + 1]]
        /\ conn[c].processed /\ conn[c].ok /\ conn[c].arrived < AnswerLen
    BY <1>0, <1>4 DEF Answer
  <2>2. conn[c].arrived + 1 \in 0 .. AnswerLen
    BY <1>0, <2>1 DEF Conns, AnswerLen
  <2>3. [conn[c] EXCEPT !.arrived = conn[c].arrived + 1] \in Conns
    BY <1>0, <2>2 DEF Conns
  <2>4. QED
    BY <1>0, <1>1, <2>1, <2>3 DEF Conns
<1>5. CASE CloseConnection(c)
  <2>1. conn' = [conn EXCEPT ![c] = [conn[c] EXCEPT !.closed = TRUE]]
    BY <1>5 DEF CloseConnection
  <2>2. [conn[c] EXCEPT !.closed = TRUE] \in Conns
    BY <1>0 DEF Conns
  <2>3. QED
    BY <1>0, <1>1, <2>1, <2>2 DEF Conns
<1>6. QED
  BY <1>2, <1>3, <1>4, <1>5 DEF Server

(* Every step keeps the types.                                             *)
LEMMA TypeStep == ASSUME TypeOK, ItoaInv, [Next]_vars PROVE TypeOK'
<1>1. CASE Next
  <2>1. ASSUME NEW r \in Requests, Server(r) PROVE TypeOK'
    <3>1. /\ UNCHANGED <<caller, itoaBuf, itoaPos, result, thread, api, sending, fd, tid,
                         reused, misused, crashed>>
          /\ conn' \in [Requests -> Conns]
      BY <2>1, ServerSteps DEF callVars
    <3>2. QED
      BY <3>1 DEF TypeOK, Conns
  <2>2. CASE Fault
    BY <2>2 DEF Fault, TypeOK, callVars, systemVars
  <2>3. QED
    BY <1>1, <2>1, <2>2, CallerTyped, RunTyped DEF Next
<1>2. CASE UNCHANGED vars
  BY <1>2 DEF vars, TypeOK
<1>3. QED
  BY <1>1, <1>2

-----------------------------------------------------------------------------
(* What a step of a call leaves alone: the other requests; of its own, the *)
(* thread, which it only creates, and of the object everything but the     *)
(* callback, the thread's identity, and the deletion.                      *)
LEMMA CallerFrame ==
  ASSUME TypeOK, ItoaInv, Next, NEW r \in Requests, Caller(r)
  PROVE  /\ \A q \in Requests \ {r} : /\ caller'[q] = caller[q] /\ thread'[q] = thread[q]
                                      /\ api'[q] = api[q] /\ result'[q] = result[q]
         /\ sending' = sending
         /\ api'[r].m_sock = api[r].m_sock /\ api'[r].m_status = api[r].m_status
         /\ Call(r) \/ api'[r].m_cbfunc = api[r].m_cbfunc
         /\ \/ CreateThread(r) /\ thread'[r] = "begun"
            \/ api'[r].m_thread = api[r].m_thread /\ thread'[r] = thread[r]
         /\ \/ DeleteApi(r) /\ api'[r].deleted
            \/ api'[r].deleted = api[r].deleted
<1>0. /\ caller \in [Requests -> Callers] /\ thread \in [Requests -> Places]
      /\ api \in [Requests -> Apis] /\ result \in [Requests -> Statuses \cup {"none"}]
  BY Types
<1>1. /\ \A q \in Requests \ {r} : caller'[q] = caller[q]
      /\ sending' = sending
  BY <1>0 DEF Caller, Call, itoa, BuildHeader, CreateThread, AssignThread, Detach, JoinFails,
              JoinWaits, JoinReturns, CloseSocket, DeleteApi, Goes, callVars
<1>2. /\ \A q \in Requests \ {r} : thread'[q] = thread[q]
      /\ CreateThread(r) => thread'[r] = "begun"
      /\ ~CreateThread(r) => thread'[r] = thread[r]
  BY <1>0 DEF Caller, Call, itoa, BuildHeader, CreateThread, AssignThread, Detach, JoinFails,
              JoinWaits, JoinReturns, CloseSocket, DeleteApi
<1>3. \A q \in Requests \ {r} : result'[q] = result[q]
  BY <1>0 DEF Caller, Call, itoa, BuildHeader, CreateThread, AssignThread, Detach, JoinFails,
              JoinWaits, JoinReturns, CloseSocket, DeleteApi, callVars
<1>4. /\ \A q \in Requests \ {r} : api'[q] = api[q]
      /\ api'[r].m_sock = api[r].m_sock /\ api'[r].m_status = api[r].m_status
      /\ Call(r) \/ api'[r].m_cbfunc = api[r].m_cbfunc
      /\ CreateThread(r) \/ api'[r].m_thread = api[r].m_thread
      /\ (DeleteApi(r) /\ api'[r].deleted) \/ api'[r].deleted = api[r].deleted
  <2>0. api[r] \in Apis
    BY <1>0
  <2>1. CASE Call(r)
    <3>1. PICK cb : api' = [api EXCEPT ![r] = [api[r] EXCEPT !.m_cbfunc = cb]]
      BY <2>1 DEF Call
    <3>2. QED
      BY <1>0, <2>0, <2>1, <3>1 DEF Apis
  <2>2. CASE CreateThread(r)
    <3>1. PICK p : api' = [api EXCEPT ![r] = [api[r] EXCEPT !.m_thread = p]]
      BY <2>2 DEF CreateThread
    <3>2. QED
      BY <1>0, <2>0, <2>2, <3>1 DEF Apis
  <2>3. CASE DeleteApi(r)
    <3>1. api' = [api EXCEPT ![r] = [api[r] EXCEPT !.deleted = TRUE]]
      BY <2>3 DEF DeleteApi
    <3>2. QED
      BY <1>0, <2>0, <2>3, <3>1 DEF Apis
  <2>4. CASE ~(Call(r) \/ CreateThread(r) \/ DeleteApi(r))
    <3>1. api' = api
      BY <2>4 DEF Caller, itoa, BuildHeader, AssignThread, Detach, JoinFails, JoinWaits,
                  JoinReturns, CloseSocket
    <3>2. QED
      BY <3>1
  <2>5. QED
    BY <2>1, <2>2, <2>3, <2>4
<1>5. QED
  BY <1>1, <1>2, <1>3, <1>4

(* How far a request is stays the same when another one moves.             *)
LEMMA SameCourse ==
  ASSUME NEW q \in Requests, Course(q), caller'[q] = caller[q], thread'[q] = thread[q],
         api'[q] = api[q]
  PROVE  Course(q)'
  BY DEF Course, Before, Ended

(* Call and thread, and the object, go on together.                        *)
LEMMA CourseStep ==
  ASSUME TypeOK, ItoaInv, CourseInv, [Next]_vars PROVE CourseInv'
<1>0. /\ caller \in [Requests -> Callers] /\ thread \in [Requests -> Places]
      /\ api \in [Requests -> Apis]
      /\ -1 \notin Sockets /\ Unset \notin Sockets /\ Unset # -1
  BY Types, SocketsAssumption DEF Unset
<1>1. ASSUME NEW r \in Requests, Next, Caller(r) PROVE Course(r)'
  <2>0. Course(r) /\ r \in Requests
    BY DEF CourseInv
  <2>1. CASE Call(r)
    <3>1. /\ caller[r] = "idle" /\ caller'[r] \in {"built", "itoa"}
      BY <1>0, <2>1 DEF Call, Goes
    <3>2. ~CreateThread(r) /\ ~DeleteApi(r)
      BY <3>1 DEF CreateThread, DeleteApi, Goes
    <3>3. QED
      BY <1>1, <2>0, <3>1, <3>2, CallerFrame DEF Course, Before, Ended
  <2>2. CASE itoa(r) \/ BuildHeader(r)
    <3>1. caller[r] = "itoa" /\ caller'[r] \in {"itoa", "built"}
      BY <1>0, <2>2 DEF itoa, BuildHeader, Goes
    <3>2. ~CreateThread(r) /\ ~DeleteApi(r) /\ ~Call(r)
      BY <3>1 DEF CreateThread, DeleteApi, Goes, Call
    <3>3. QED
      BY <1>1, <2>0, <3>1, <3>2, CallerFrame DEF Course, Before, Ended
  <2>3. CASE CreateThread(r)
    <3>1. /\ caller[r] = "built" /\ caller'[r] = "created" /\ thread'[r] = "begun"
          /\ api'[r].m_thread \in Pthreads
      BY <1>0, <2>3 DEF CreateThread, Goes, Apis
    <3>2. ~DeleteApi(r) /\ ~Call(r)
      BY <3>1 DEF DeleteApi, Goes, Call
    <3>3. QED
      BY <1>1, <2>0, <3>1, <3>2, CallerFrame DEF Course, Before, Ended
  <2>4. CASE ~(Call(r) \/ itoa(r) \/ BuildHeader(r) \/ CreateThread(r))
    <3>1. /\ caller[r] \notin {"idle", "itoa", "built"}
          /\ caller'[r] \notin {"idle", "itoa", "built"}
          /\ caller'[r] = "detaching" => api[r].m_cbfunc
          /\ caller'[r] \in {"joining", "joined", "rejoining", "deleting"} => ~api[r].m_cbfunc
          /\ DeleteApi(r) => caller[r] = "deleting"
      BY <1>0, <1>1, <2>0, <2>4 DEF Caller, AssignThread, Detach, JoinFails, JoinWaits,
            JoinReturns, CloseSocket, DeleteApi, Goes, Course, JoinState, AfterJoin, callVars
    <3>2. QED
      BY <1>1, <2>0, <2>4, <3>1, CallerFrame DEF Course, Before, Ended
  <2>5. QED
    BY <2>1, <2>2, <2>3, <2>4
<1>2. ASSUME NEW r \in Requests, Run(r) PROVE Course(r)'
  <2>0. /\ Course(r) /\ caller' = caller
        /\ api'[r].m_cbfunc = api[r].m_cbfunc /\ api'[r].m_thread = api[r].m_thread
        /\ End(r) \in {"ending", "over"} /\ (End(r) = "ending" <=> api[r].m_cbfunc)
        /\ api[r].m_status \in Statuses \cup {"unset"}
        /\ "unset" \notin Statuses
    BY <1>0, <1>2, ThreadSteps DEF CourseInv, End, Apis, Statuses
  <2>1. CASE NoSocket(r)
    BY <1>0, <2>0, <2>1 DEF NoSocket, Course, Before, Ended
  <2>2. CASE Opens(r)
    BY <1>0, <2>0, <2>2 DEF Opens, Course, Before, Ended
  <2>3. CASE GoesOn(r)
    BY <1>0, <2>0, <2>3 DEF GoesOn, Course, Before, Ended, InRun
  <2>4. CASE RunEnds(r)
    BY <1>0, <2>0, <2>4 DEF RunEnds, Course, Before, Ended, InRun, SameObject
  <2>5. CASE Deletes(r)
    BY <1>0, <2>0, <2>5 DEF Deletes, Course, Before, Ended
  <2>6. QED
    BY <1>2, <2>1, <2>2, <2>3, <2>4, <2>5, ThreadSteps
<1>3. ASSUME NEW r \in Requests, Next, Caller(r) \/ Run(r), NEW q \in Requests, q # r
      PROVE  Course(q)'
  <2>1. caller'[q] = caller[q] /\ thread'[q] = thread[q] /\ api'[q] = api[q]
    BY <1>3, CallerFrame, ThreadSteps DEF Other
  <2>2. QED
    BY <2>1, SameCourse DEF CourseInv
<1>4. CASE UNCHANGED <<caller, thread, api>>
  BY <1>4, SameCourse DEF CourseInv
<1>5. ASSUME NEW r \in Requests, Server(r) PROVE UNCHANGED <<caller, thread, api>>
  BY <1>5 DEF Server, callVars
<1>6. ASSUME Fault \/ UNCHANGED vars PROVE UNCHANGED <<caller, thread, api>>
  BY <1>6 DEF Fault, vars, callVars
<1>7. CASE \E r \in Requests : Next /\ (Caller(r) \/ Run(r))
  BY <1>1, <1>2, <1>3, <1>7 DEF CourseInv
<1>8. QED
  BY <1>4, <1>5, <1>6, <1>7 DEF Next

-----------------------------------------------------------------------------
(* After close nothing has come on the connection, and the server has done *)
(* what it had done; what was sent stays as it is, or goes.                *)
LEMMA ClosedLeaves ==
  ASSUME TypeOK, NEW s, Closed(s), NEW q \in Requests
  PROVE  \/ conn'[q] = conn[q]
         \/ /\ s \in Sockets /\ fd[s] = q
            /\ conn'[q].arrived = 0 /\ conn'[q].processed = conn[q].processed
            /\ conn'[q].parts = 0 /\ conn'[q].got \in {<<>>, Text(q)}
<1>0. conn \in [Requests -> Conns] /\ fd \in [Sockets -> Requests \cup {None}]
  BY Types
<1>1. CASE s \in Sockets /\ fd[s] = q
  <2> DEFINE g == IF conn[q].got = Text(q) THEN Text(q) ELSE <<>>
             left == [NoData EXCEPT !.got = g, !.processed = conn[q].processed]
  <2>1. conn' = [conn EXCEPT ![q] = left]
    BY <1>1, NoneAssumption DEF Closed
  <2>2. g \in {<<>>, Text(q)}
    OBVIOUS
  <2> HIDE DEF g
  <2>3. /\ left.got = g /\ left.processed = conn[q].processed
        /\ left.arrived = 0 /\ left.parts = 0
    BY DEF NoData
  <2> HIDE DEF left
  <2>4. conn'[q] = left
    BY <1>0, <2>1
  <2>5. QED
    BY <1>1, <2>2, <2>3, <2>4
<1>2. CASE ~(s \in Sockets /\ fd[s] = q)
  BY <1>0, <1>2 DEF Closed
<1>3. QED
  BY <1>1, <1>2

(* What a call, that is its close, and a thread do to what the server has  *)
(* done and answered: no more than close does.                             *)
LEMMA AnswersKept ==
  ASSUME TypeOK, NEW r \in Requests, Caller(r) \/ Run(r), NEW q \in Requests
  PROVE  /\ conn'[q].processed = conn[q].processed
         /\ \/ conn'[q].arrived = 0
            \/ conn'[q].arrived = conn[q].arrived /\ conn'[q].ok = conn[q].ok
<1>1. CASE Caller(r)
  <2>1. conn' = conn \/ \E s : Closed(s)
    BY <1>1 DEF Caller, Call, itoa, BuildHeader, CreateThread, AssignThread, Detach, JoinFails,
                JoinWaits, JoinReturns, CloseSocket, DeleteApi, systemVars
  <2>2. QED
    BY <2>1, ClosedLeaves
<1>2. CASE Run(r)
  <2>1. CASE Deletes(r)
    BY <2>1, ClosedLeaves DEF Deletes
  <2>2. CASE OnlyTakes(r)
    BY <2>2 DEF OnlyTakes, SameData
  <2>3. ASSUME NEW n \in 1 .. sending[r].left, SendsPart(r, n)
        PROVE  conn'[q].processed = conn[q].processed /\ conn'[q].arrived = conn[q].arrived
               /\ conn'[q].ok = conn[q].ok
    <3>1. CASE q = Peer(r)
      BY <2>3, <3>1 DEF SendsPart
    <3>2. CASE q # Peer(r)
      BY <2>3, <3>2 DEF SendsPart
    <3>3. QED
      BY <3>1, <3>2
  <2>4. QED
    BY <1>2, <2>1, <2>2, <2>3, DataSteps
<1>3. QED
  BY <1>1, <1>2

(* The server answers what it has carried out, and nobody else answers.    *)
LEMMA AnswerStep == ASSUME TypeOK, AnswerInv, [Next]_vars PROVE AnswerInv'
<1> SUFFICES ASSUME NEW q \in Requests
             PROVE  /\ conn'[q].arrived >= 1 /\ conn'[q].ok => conn'[q].processed
                    /\ conn'[q].arrived > 1 => conn'[q].ok
  BY DEF AnswerInv
<1>0. /\ conn[q].arrived >= 1 /\ conn[q].ok => conn[q].processed
      /\ conn[q].arrived > 1 => conn[q].ok
  BY DEF AnswerInv
<1>1. CASE \E r \in Requests : Caller(r) \/ Run(r)
  BY <1>0, <1>1, AnswersKept
<1>2. ASSUME NEW c \in Requests, Server(c)
      PROVE  /\ conn'[q].arrived >= 1 /\ conn'[q].ok => conn'[q].processed
             /\ conn'[q].arrived > 1 => conn'[q].ok
  BY <1>0, <1>2, ServerSteps
<1>3. CASE conn' = conn
  BY <1>0, <1>3
<1>4. QED
  BY <1>1, <1>2, <1>3 DEF Next, Fault, vars, systemVars

-----------------------------------------------------------------------------
(* History is not forgotten: only the creation of a thread writes it.      *)
LEMMA ReusedGrows == ASSUME TypeOK, [Next]_vars PROVE reused \subseteq reused'
<1>1. ASSUME NEW r \in Requests, Caller(r) PROVE reused \subseteq reused'
  BY <1>1 DEF Caller, Call, itoa, BuildHeader, CreateThread, AssignThread, Detach, JoinFails,
              JoinWaits, JoinReturns, CloseSocket, DeleteApi
<1>2. ASSUME NEW r \in Requests, Run(r) \/ Server(r) PROVE reused' = reused
  BY <1>2, ThreadSteps DEF Server
<1>3. QED
  BY <1>1, <1>2 DEF Next, Fault, vars

(* What is promised no more is never promised again: the history of mixed  *)
(* up identities only grows, and a status that has been set stays.         *)
LEMMA SoundBack ==
  ASSUME TypeOK, ItoaInv, CourseInv, [Next]_vars, Sound' PROVE Sound
<1>1. reused \subseteq reused'
  BY ReusedGrows
<1>2. ASSUME NEW q \in Requests, api[q].m_status = "fcntl" PROVE api'[q].m_status = "fcntl"
  <2>1. thread[q] \in {"ending", "over"}
    BY <1>2 DEF CourseInv, Course, Ended
  <2>2. ASSUME NEW r \in Requests, Next, Caller(r) PROVE api'[q].m_status = api[q].m_status
    BY <2>2, CallerFrame
  <2>3. ASSUME NEW r \in Requests, Run(r) PROVE api'[q].m_status = api[q].m_status
    <3>1. CASE q = r
      BY <2>1, <2>3, <3>1, ThreadSteps DEF NoSocket, Opens, GoesOn, RunEnds, Deletes, InRun
    <3>2. CASE q # r
      BY <2>3, <3>2, ThreadSteps DEF Other
    <3>3. QED
      BY <3>1, <3>2
  <2>4. ASSUME NEW r \in Requests, Server(r) PROVE api' = api
    BY <2>4 DEF Server
  <2>5. QED
    BY <1>2, <2>2, <2>3, <2>4 DEF Next, Fault, vars
<1>3. QED
  BY <1>1, <1>2 DEF Sound

(* A request whose thread runs has a call that has created it, and still   *)
(* waits for it unless it has a callback.                                  *)
LEMMA WhileItRuns ==
  ASSUME TypeOK, NEW r \in Requests, Course(r), Identity(r), thread[r] \notin {"none", "over"}
  PROVE  /\ ~api[r].m_cbfunc => caller[r] \in {"created", "joining"}
         /\ api[r].m_cbfunc => caller[r] \in {"created", "detaching", "returned"}
         /\ api[r].m_thread \in Pthreads /\ tid[api[r].m_thread].owner = r
<1>1. caller[r] \in Callers
  BY Types
<1>2. QED
  BY <1>1 DEF Course, Identity, Before, Callers

(* Its own connection is the one that it sends on and reads from.          *)
LEMMA OwnPeer ==
  ASSUME TypeOK, SocketInv, NEW r \in Requests, Course(r), Identity(r), thread[r] \in InRun
  PROVE  Peer(r) = r
<1>1. api[r].m_sock \in Sockets /\ thread[r] \notin {"none", "over"}
  BY DEF Course, InRun
<1>2. Open(r)
  BY <1>1, WhileItRuns DEF Open
<1>3. QED
  BY <1>1, <1>2 DEF SocketInv, Peer

(* A close by a call or a thread, or the end of a thread, is of its own.   *)
LEMMA OwnClose ==
  ASSUME TypeOK, SocketInv, NEW r \in Requests, Course(r), Identity(r), Deletes(r)
  PROVE  \A s \in Sockets : api[r].m_sock = s => fd[s] = r
  BY WhileItRuns DEF Deletes, SocketInv, Open

(* ~WebApi of a synchronous request closes what run has opened.            *)
LEMMA OwnCloseSocket ==
  ASSUME TypeOK, SocketInv, NEW r \in Requests, Course(r), Identity(r), CloseSocket(r)
  PROVE  /\ Closed(api[r].m_sock) /\ thread[r] = "over" /\ caller[r] = "joined"
         /\ \A s \in Sockets : api[r].m_sock = s => fd[s] = r
<1>1. caller[r] = "joined" /\ thread[r] = "over" /\ ~api[r].m_cbfunc
  BY DEF CloseSocket, Goes, Identity, Course
<1>2. api[r].m_sock # Unset
  BY <1>1 DEF Course, Ended
<1>3. Closed(api[r].m_sock)
  BY <1>2 DEF CloseSocket
<1>4. QED
  BY <1>1, <1>3 DEF SocketInv, Open

-----------------------------------------------------------------------------
(* While a request holds a thread's identity, no other one does; so what   *)
(* happens to that identity is nothing to the others.                      *)
LEMMA OthersIdentity ==
  ASSUME TypeOK, NEW r \in Requests, NEW p \in Pthreads, tid[p].owner = r,
         \A o \in Pthreads \ {p} : tid'[o] = tid[o],
         NEW q \in Requests, q # r, Course(q), Identity(q),
         caller'[q] = caller[q], thread'[q] = thread[q], api'[q] = api[q]
  PROVE  Identity(q)'
<1>1. CASE api[q].m_thread = p
  BY <1>1, NoneAssumption DEF Identity, FreeThread
<1>2. CASE api[q].m_thread # p /\ ~Before(q)
  BY <1>2 DEF Identity, Course
<1>3. CASE Before(q)
  BY <1>3 DEF Identity, Before
<1>4. QED
  BY <1>1, <1>2, <1>3

(* While nobody joins or detaches a thread, it stays whose it is.          *)
LEMMA SameIdentity ==
  ASSUME NEW q \in Requests, Identity(q), tid' = tid,
         caller'[q] = caller[q], thread'[q] = thread[q], api'[q] = api[q]
  PROVE  Identity(q)'
  BY DEF Identity

(* A thread that is created gets an identity that no unfinished call holds:*)
(* on that Sound depends.                                                  *)
LEMMA CreateIdentity ==
  ASSUME TypeOK, ItoaInv, Next, CourseInv, Sound', NEW r \in Requests, CreateThread(r),
         \A q \in Requests : Identity(q)
  PROVE  \A q \in Requests : Identity(q)'
<1>0. tid \in [Pthreads -> Tids] /\ Caller(r)
  BY Types DEF Caller
<1>1. PICK p \in Pthreads :
        /\ tid[p] = FreeThread
        /\ tid' = [tid EXCEPT ![p].owner = r]
        /\ api' = [api EXCEPT ![r].m_thread = p]
        /\ reused' = IF \E q \in Requests : api[q].m_thread = p /\ caller[q] # "returned"
                     THEN reused \cup {r} ELSE reused
  BY DEF CreateThread
<1>own. api'[r].m_thread = p
  BY <1>1, Types DEF Apis
<1>2. \A q \in Requests : api[q].m_thread = p => caller[q] = "returned"
  BY <1>1 DEF Sound
<1>3. /\ tid'[p].owner = r /\ tid'[p].joiner = None /\ ~tid'[p].detached
      /\ \A o \in Pthreads \ {p} : tid'[o] = tid[o]
  BY <1>0, <1>1 DEF Tids, FreeThread
<1>4. Identity(r)'
  <2>1. caller'[r] = "created" /\ thread'[r] = "begun"
    BY Types DEF CreateThread, Goes
  <2>2. QED
    BY <1>own, <1>3, <2>1 DEF Identity
<1>5. ASSUME NEW q \in Requests, q # r PROVE Identity(q)'
  <2>1. caller'[q] = caller[q] /\ thread'[q] = thread[q] /\ api'[q] = api[q]
    BY <1>0, <1>5, CallerFrame
  <2>2. CASE Before(q)
    BY <2>1, <2>2 DEF Identity, Before
  <2>3. CASE ~Before(q) /\ api[q].m_thread # p
    BY <1>3, <2>1, <2>3 DEF Identity, CourseInv, Course
  <2>4. CASE api[q].m_thread = p
    <3>1. caller[q] = "returned"
      BY <1>2, <2>4
    <3>2. thread[q] = "over"
      <4>1. tid[p].owner = None
        BY <1>1 DEF FreeThread
      <4>2. QED
        BY <2>4, <3>1, <4>1, NoneAssumption DEF Identity
    <3>3. QED
      BY <2>1, <3>1, <3>2 DEF Identity
  <2>5. QED
    BY <2>2, <2>3, <2>4
<1>6. QED
  BY <1>4, <1>5

(* The call: only a join that waits, one that returns and a detachment do  *)
(* something to a thread's identity, and that is the call's own.           *)
LEMMA CallerIdentity ==
  ASSUME TypeOK, ItoaInv, Next, CourseInv, Sound, Sound', NEW r \in Requests, Caller(r),
         \A q \in Requests : Identity(q) /\ Outcome(q)
  PROVE  \A q \in Requests : Identity(q)'
<1>0. /\ tid \in [Pthreads -> Tids] /\ caller \in [Requests -> Callers]
      /\ Course(r) /\ Identity(r) /\ Outcome(r)
      /\ result[r] # "fcntl" /\ None \notin Requests
  BY Types, NoneAssumption DEF CourseInv, Outcome, Sound
<1> DEFINE p == api[r].m_thread
<1>1. \A q \in Requests \ {r} : caller'[q] = caller[q] /\ thread'[q] = thread[q]
                               /\ api'[q] = api[q]
  BY CallerFrame
<1>2. ASSUME tid[p].owner = r, p \in Pthreads, \A o \in Pthreads \ {p} : tid'[o] = tid[o],
             Identity(r)'
      PROVE  \A q \in Requests : Identity(q)'
  BY <1>1, <1>2, OthersIdentity DEF CourseInv
<1>3. ASSUME tid' = tid, Identity(r)' PROVE \A q \in Requests : Identity(q)'
  BY <1>1, <1>3, SameIdentity
<1>4. CASE Call(r) \/ itoa(r) \/ BuildHeader(r)
  <2>1. tid' = tid /\ caller'[r] \in {"itoa", "built"}
    BY <1>0, <1>4 DEF Call, itoa, BuildHeader, Goes, systemVars
  <2>2. Identity(r)'
    BY <2>1 DEF Identity
  <2>3. QED
    BY <1>3, <2>1, <2>2
<1>5. CASE CreateThread(r)
  BY <1>5, CreateIdentity
<1>6. CASE AssignThread(r)
  <2>1. tid' = tid /\ caller[r] = "created" /\ caller'[r] \in {"detaching", "joining"}
        /\ api' = api /\ thread' = thread
    BY <1>0, <1>6 DEF AssignThread, Goes, systemVars
  <2>2. Identity(r)'
    BY <1>0, <2>1 DEF Identity
  <2>3. QED
    BY <1>3, <2>1, <2>2
<1>7. CASE Detach(r)
  <2>1. /\ caller[r] = "detaching" /\ caller'[r] = "returned" /\ p \in Pthreads
        /\ tid[p].owner = r /\ tid[p].joiner = None
        /\ api[r].m_cbfunc /\ api' = api /\ thread' = thread
    BY <1>0, <1>7 DEF Detach, Goes, Identity, Course, Before
  <2>2. tid' = [tid EXCEPT ![p] = IF thread[r] = "over" THEN FreeThread
                                  ELSE [tid[p] EXCEPT !.detached = TRUE]]
    BY <1>7, <2>1 DEF Detach
  <2>3. thread[r] # "over" =>
          tid'[p].owner = r /\ tid'[p].joiner = None /\ tid'[p].detached
    BY <1>0, <2>1, <2>2 DEF Tids
  <2>4. Identity(r)'
    BY <2>1, <2>3 DEF Identity
  <2>5. \A o \in Pthreads \ {p} : tid'[o] = tid[o]
    BY <1>0, <2>2
  <2>6. QED
    BY <1>2, <2>1, <2>4, <2>5
<1>8. CASE JoinFails(r)
  <2>1. /\ caller[r] = "rejoining" /\ caller'[r] = "deleting"
        /\ tid' = tid /\ api' = api /\ thread' = thread
    BY <1>0, <1>8 DEF JoinFails, JoinState, AfterJoin, Identity, systemVars
  <2>2. Identity(r)'
    BY <1>0, <2>1 DEF Identity
  <2>3. QED
    BY <1>3, <2>1, <2>2
<1>9. CASE JoinWaits(r)
  <2>1. /\ caller[r] = "joining" /\ caller' = caller /\ p \in Pthreads
        /\ tid[p].owner = r /\ tid[p].joiner = None /\ ~tid[p].detached
        /\ api' = api /\ thread' = thread
    BY <1>0, <1>9 DEF JoinWaits, JoinState, Identity, Course, Before, FreeThread, callVars
  <2>2. tid' = [tid EXCEPT ![p] = [tid[p] EXCEPT !.joiner = r]]
    BY <1>9 DEF JoinWaits
  <2>3. tid'[p].owner = r /\ tid'[p].joiner = r /\ ~tid'[p].detached
    BY <1>0, <2>1, <2>2 DEF Tids
  <2>4. Identity(r)'
    BY <2>1, <2>3 DEF Identity
  <2>5. \A o \in Pthreads \ {p} : tid'[o] = tid[o]
    BY <1>0, <2>2
  <2>6. QED
    BY <1>2, <2>1, <2>4, <2>5
<1>10. CASE JoinReturns(r)
  <2>1. /\ caller[r] = "joining" /\ caller'[r] = "joined" /\ p \in Pthreads
        /\ tid[p].owner = r /\ thread[r] = "over"
        /\ tid' = [tid EXCEPT ![p] = FreeThread]
        /\ api' = api /\ thread' = thread
    BY <1>0, <1>10 DEF JoinReturns, JoinState, AfterJoin, Identity, Course, Before, FreeThread
  <2>2. Identity(r)'
    BY <1>0, <2>1 DEF Identity
  <2>3. \A o \in Pthreads \ {p} : tid'[o] = tid[o]
    BY <1>0, <2>1
  <2>4. QED
    BY <1>2, <2>1, <2>2, <2>3
<1>11. CASE CloseSocket(r)
  <2>1. /\ caller[r] = "joined" /\ caller'[r] = "rejoining"
        /\ tid' = tid /\ api' = api /\ thread' = thread
    BY <1>0, <1>11 DEF CloseSocket, Goes
  <2>2. Identity(r)'
    BY <1>0, <2>1 DEF Identity
  <2>3. QED
    BY <1>3, <2>1, <2>2
<1>12. CASE DeleteApi(r)
  <2>1. /\ caller[r] = "deleting" /\ caller'[r] = "returned" /\ tid' = tid /\ thread' = thread
    BY <1>0, <1>12 DEF DeleteApi, systemVars
  <2>2. Identity(r)'
    BY <1>0, <2>1 DEF Identity
  <2>3. QED
    BY <1>3, <2>1, <2>2
<1>13. QED
  BY <1>4, <1>5, <1>6, <1>7, <1>8, <1>9, <1>10, <1>11, <1>12 DEF Caller

(* The thread: only its end gives its identity back, if it is detached.    *)
LEMMA RunIdentity ==
  ASSUME TypeOK, CourseInv, NEW r \in Requests, Run(r), \A q \in Requests : Identity(q)
  PROVE  \A q \in Requests : Identity(q)'
<1> DEFINE p == api[r].m_thread
<1>0. /\ tid \in [Pthreads -> Tids] /\ Course(r) /\ Identity(r)
      /\ caller' = caller /\ Other(r)
      /\ api'[r].m_cbfunc = api[r].m_cbfunc /\ api'[r].m_thread = p
      /\ thread[r] \notin {"none", "over"}
  BY Types, ThreadSteps DEF CourseInv, NoSocket, Opens, GoesOn, RunEnds, Deletes, InRun
<1>1. p \in Pthreads /\ tid[p].owner = r
  BY <1>0, WhileItRuns
<1>2. \A q \in Requests \ {r} : /\ caller'[q] = caller[q] /\ thread'[q] = thread[q]
                                /\ api'[q] = api[q]
  BY <1>0 DEF Other
<1>3. tid' = tid \/ (Deletes(r) /\ tid[p].detached /\ tid' = [tid EXCEPT ![p] = FreeThread])
  BY ThreadSteps DEF NoSocket, Opens, GoesOn, RunEnds, Deletes
<1>4. \A o \in Pthreads \ {p} : tid'[o] = tid[o]
  BY <1>0, <1>3
<1>5. Identity(r)'
  <2>1. CASE tid' = tid
    BY <1>0, <2>1 DEF Identity
  <2>2. CASE Deletes(r) /\ tid[p].detached
    <3>1. thread'[r] = "over" /\ caller[r] \in {"created", "detaching", "returned"}
      BY <1>0, <2>2, WhileItRuns DEF Deletes, Course
    <3>2. caller[r] = "returned"
      BY <1>0, <2>2, <3>1 DEF Identity
    <3>3. QED
      BY <1>0, <3>1, <3>2 DEF Identity
  <2>3. QED
    BY <1>3, <2>1, <2>2
<1>6. QED
  BY <1>0, <1>1, <1>2, <1>4, <1>5, OthersIdentity DEF CourseInv

(* Every step keeps whose the identities are.                              *)
LEMMA IdentityStep ==
  ASSUME TypeOK, ItoaInv, CourseInv, Sound, Sound', [Next]_vars,
         \A q \in Requests : Identity(q) /\ Outcome(q)
  PROVE  \A q \in Requests : Identity(q)'
<1>1. CASE UNCHANGED <<caller, thread, api, tid>>
  BY <1>1, SameIdentity
<1>2. ASSUME NEW c \in Requests, Server(c) PROVE UNCHANGED <<caller, thread, api, tid>>
  BY <1>2 DEF Server, callVars
<1>3. ASSUME Fault \/ UNCHANGED vars PROVE UNCHANGED <<caller, thread, api, tid>>
  BY <1>3 DEF Fault, vars, callVars, systemVars
<1>4. CASE \E r \in Requests : Next /\ (Caller(r) \/ Run(r))
  BY <1>4, CallerIdentity, RunIdentity
<1>5. QED
  BY <1>1, <1>2, <1>3, <1>4 DEF Next

-----------------------------------------------------------------------------
(* A status is success, and content is received, only after an answer that *)
(* the peer has carried the request out.                                   *)
LEMMA SuccessStep ==
  ASSUME TypeOK, AnswerInv, NEW r \in Requests, Run(r)
  PROVE  \/ thread'[r] # "receiving" /\ api'[r].m_status \in {api[r].m_status, "failure", "fcntl"}
         \/ thread[r] = "receiving"
         \/ thread[r] \in InRun /\ Peer(r) \in Requests /\ conn[Peer(r)].processed
<1>0. /\ thread \in [Requests -> Places] /\ api \in [Requests -> Apis]
      /\ conn \in [Requests -> Conns] /\ Peer(r) \in Requests \cup {None}
      /\ api[r] \in Apis /\ End(r) # "receiving"
  BY Types, PeerTyped DEF End
<1> DEFINE Wanted == \/ /\ thread'[r] # "receiving"
                        /\ api'[r].m_status \in {api[r].m_status, "failure", "fcntl"}
                     \/ thread[r] = "receiving"
                     \/ /\ thread[r] \in InRun
                        /\ Peer(r) \in Requests /\ conn[Peer(r)].processed
<1>1. ASSUME NEW from, NEW status \in {"failure", "fcntl"}, Gives(r, from, status) PROVE Wanted
  <2>1. thread'[r] = End(r) /\ api' = [api EXCEPT ![r] = [api[r] EXCEPT !.m_status = status]]
    BY <1>0, <1>1 DEF Gives, Step
  <2>2. api'[r].m_status = status
    BY <1>0, <2>1 DEF Apis
  <2>3. QED
    BY <1>0, <2>1, <2>2
<1>2. ASSUME Socket(r) \/ DeleteThis(r) PROVE Wanted
  <2>1. NoSocket(r) \/ Opens(r) \/ Deletes(r)
    BY <1>2, ThreadSteps DEF Run, Socket, DeleteThis, Step, GoesOn, RunEnds, InRun
  <2>2. QED
    BY <1>0, <2>1 DEF NoSocket, Opens, Deletes
<1>3. ASSUME NEW to \in {"sending", "waiting", "parsing"}, NEW from, Step(r, from, to), api' = api
      PROVE  Wanted
  BY <1>0, <1>3 DEF Step
<1> HIDE DEF Wanted
<1>4. ASSUME Connect(r) PROVE Wanted
  BY <1>1, <1>3, <1>4 DEF Connect
<1>5. ASSUME Send(r) PROVE Wanted
  BY <1>1, <1>3, <1>5 DEF Send
<1>6. ASSUME PollIn(r) PROVE Wanted
  BY <1>1, <1>3, <1>6 DEF PollIn
<1>7. ASSUME Receive(r) PROVE Wanted
  BY <1>7 DEF Receive, Step, Wanted
<1>8. ASSUME Parse(r) PROVE Wanted
  <2>1. CASE Gives(r, "parsing", "failure")
    BY <1>1, <2>1
  <2>2. CASE ~Gives(r, "parsing", "failure")
    <3>1. PICK k \in 1 .. Available(Peer(r)) :
            \/ Step(r, "parsing", End(r)) /\ api' = [api EXCEPT ![r].m_status = "failure"]
            \/ conn[Peer(r)].taken + 1 = 1 /\ conn[Peer(r)].ok /\ thread[r] = "parsing"
            \/ Step(r, "parsing", "parsing") /\ api' = api
      BY <1>8, <2>2 DEF Parse
    <3>2. CASE Step(r, "parsing", End(r)) /\ api' = [api EXCEPT ![r].m_status = "failure"]
      <4>1. thread'[r] = End(r)
            /\ api' = [api EXCEPT ![r] = [api[r] EXCEPT !.m_status = "failure"]]
        BY <1>0, <3>2 DEF Step
      <4>2. api'[r].m_status = "failure"
        BY <1>0, <4>1 DEF Apis
      <4>3. QED
        BY <1>0, <4>1, <4>2 DEF Wanted
    <3>3. CASE conn[Peer(r)].taken + 1 = 1 /\ conn[Peer(r)].ok /\ thread[r] = "parsing"
      <4>1. Peer(r) \in Requests
        BY <1>0, <3>1 DEF Available
      <4>2. Available(Peer(r)) = conn[Peer(r)].arrived - conn[Peer(r)].taken
        BY <4>1, NoneAssumption DEF Available
      <4>3. conn[Peer(r)].arrived \in 0 .. 3 /\ conn[Peer(r)].taken \in 0 .. 3
        BY <1>0, <4>1 DEF Conns, AnswerLen
      <4>4. conn[Peer(r)].arrived >= 1
        BY <3>1, <3>3, <4>2, <4>3
      <4>5. conn[Peer(r)].processed
        BY <3>3, <4>1, <4>4 DEF AnswerInv
      <4>6. QED
        BY <3>3, <4>1, <4>5 DEF Wanted, InRun
    <3>4. QED
      BY <1>3, <3>1, <3>2, <3>3
  <2>3. QED
    BY <2>1, <2>2
<1>9. Wanted
  BY <1>2, <1>4, <1>5, <1>6, <1>7, <1>8 DEF Run
<1>10. QED
  BY <1>9 DEF Wanted

(* A call deletes the object and leaves for good: THROW_EXCEPTION knows    *)
(* every status but RET_FCNTL_FAIL.  What it takes for the status is what  *)
(* run has set.                                                            *)
LEMMA CallerOutcome ==
  ASSUME TypeOK, ItoaInv, CourseInv, Next, Sound, NEW r \in Requests, Caller(r),
         \A q \in Requests : Identity(q) /\ Outcome(q)
  PROVE  \A q \in Requests : Outcome(q)'
<1>0. /\ caller \in [Requests -> Callers] /\ result \in [Requests -> Statuses \cup {"none"}]
      /\ Course(r) /\ Identity(r) /\ Outcome(r) /\ result[r] # "fcntl"
  BY Types DEF CourseInv, Outcome, Sound
<1>1. \A q \in Requests : conn'[q].processed = conn[q].processed
  BY AnswersKept
<1>2. ASSUME NEW q \in Requests, q # r PROVE Outcome(q)'
  <2>1. /\ caller'[q] = caller[q] /\ thread'[q] = thread[q] /\ api'[q] = api[q]
        /\ result'[q] = result[q]
    BY <1>2, CallerFrame
  <2>2. QED
    BY <1>1, <2>1 DEF Outcome
<1>3. api'[r].m_status = api[r].m_status /\ (thread'[r] = "receiving" => thread[r] = "receiving")
  BY CallerFrame
<1>4. CASE Call(r)
  <2>1. caller[r] = "idle" /\ thread[r] = "none" /\ ~api[r].deleted /\ result'[r] = result[r]
    BY <1>0, <1>4 DEF Call, Goes, Course, Before
  <2>2. ~DeleteApi(r)
    BY <2>1 DEF DeleteApi
  <2>3. ~api'[r].deleted
    BY <2>1, <2>2, CallerFrame
  <2>4. result'[r] = "none"
    BY <1>0, <2>1 DEF Outcome
  <2>5. Outcome(r)'
    BY <1>0, <1>1, <1>3, <2>3, <2>4 DEF Outcome
  <2>6. QED
    BY <1>2, <2>5
<1>5. CASE CloseSocket(r)
  <2>1. /\ caller[r] = "joined" /\ caller'[r] = "rejoining" /\ thread[r] = "over"
        /\ ~api[r].m_cbfunc /\ api' = api /\ thread' = thread
    BY <1>0, <1>5 DEF CloseSocket, Goes, Identity, Course
  <2>2. api[r].m_status # "unset"
    BY <1>0, <2>1 DEF Course, Ended
  <2>3. result'[r] = api[r].m_status
    BY <1>0, <1>5, <2>2 DEF CloseSocket, Outcome
  <2>4. ~api[r].deleted
    BY <1>0, <2>1 DEF Outcome
  <2>5. Outcome(r)'
    BY <1>0, <1>1, <2>1, <2>3, <2>4 DEF Outcome
  <2>6. QED
    BY <1>2, <2>5
<1>6. CASE DeleteApi(r)
  <2>1. caller[r] = "deleting" /\ caller'[r] = "returned" /\ thread' = thread /\ result' = result
    BY <1>0, <1>6 DEF DeleteApi
  <2>2. Outcome(r)'
    BY <1>0, <1>1, <1>3, <2>1 DEF Outcome
  <2>3. QED
    BY <1>2, <2>2
<1>7. CASE ~(Call(r) \/ CloseSocket(r) \/ DeleteApi(r))
  <2>1. /\ caller[r] # "returned" /\ result'[r] = result[r]
        /\ caller[r] \in {"rejoining", "deleting"} => caller'[r] \in {"rejoining", "deleting"}
    BY <1>0, <1>7 DEF Caller, itoa, BuildHeader, CreateThread, AssignThread, Detach, JoinFails,
                      JoinWaits, JoinReturns, Goes, JoinState, AfterJoin, callVars
  <2>2. /\ api'[r].m_cbfunc = api[r].m_cbfunc /\ api'[r].deleted = api[r].deleted
        /\ thread[r] = "over" => thread'[r] = "over" \/ CreateThread(r)
    BY <1>7, CallerFrame
  <2>3. CreateThread(r) => thread[r] = "none"
    BY <1>0 DEF CreateThread, Goes, Course, Before
  <2>4. Outcome(r)'
    BY <1>0, <1>1, <1>3, <2>1, <2>2, <2>3 DEF Outcome
  <2>5. QED
    BY <1>2, <2>4
<1>8. QED
  BY <1>4, <1>5, <1>6, <1>7

(* A thread's status is success only when its own request has been carried *)
(* out, since it reads its own connection.                                 *)
LEMMA RunOutcome ==
  ASSUME TypeOK, CourseInv, AnswerInv, SocketInv, NEW r \in Requests, Run(r),
         \A q \in Requests : Identity(q) /\ Outcome(q)
  PROVE  \A q \in Requests : Outcome(q)'
<1>0. /\ Course(r) /\ Identity(r) /\ Outcome(r)
      /\ caller' = caller /\ result' = result /\ Other(r)
      /\ api'[r].m_cbfunc = api[r].m_cbfunc
      /\ thread[r] \notin {"none", "over"}
  BY ThreadSteps DEF CourseInv, NoSocket, Opens, GoesOn, RunEnds, Deletes, InRun
<1>1. \A q \in Requests : conn'[q].processed = conn[q].processed
  BY AnswersKept
<1>2. ASSUME NEW q \in Requests, q # r PROVE Outcome(q)'
  <2>1. thread'[q] = thread[q] /\ api'[q] = api[q]
    BY <1>0, <1>2 DEF Other
  <2>2. QED
    BY <1>0, <1>1, <1>2, <2>1 DEF Outcome
<1>3. result[r] = "none"
  BY <1>0 DEF Outcome
<1>4. api'[r].deleted => api[r].deleted \/ (thread[r] = "ending" /\ api[r].m_cbfunc)
  BY <1>0, ThreadSteps DEF NoSocket, Opens, GoesOn, RunEnds, Deletes, SameObject, Course
<1>5. api'[r].m_status = "success" \/ thread'[r] = "receiving" => conn[r].processed
  BY <1>0, SuccessStep, OwnPeer DEF Outcome
<1>6. Outcome(r)'
  BY <1>0, <1>1, <1>3, <1>4, <1>5 DEF Outcome
<1>7. QED
  BY <1>2, <1>6

(* Every step keeps how requests end.                                      *)
LEMMA OutcomeStep ==
  ASSUME TypeOK, ItoaInv, CourseInv, AnswerInv, SocketInv, Sound, [Next]_vars,
         \A q \in Requests : Identity(q) /\ Outcome(q)
  PROVE  \A q \in Requests : Outcome(q)'
<1>1. ASSUME UNCHANGED <<caller, thread, api, result>>,
             \A q \in Requests : conn[q].processed => conn'[q].processed
      PROVE  \A q \in Requests : Outcome(q)'
  BY <1>1 DEF Outcome
<1>2. ASSUME NEW c \in Requests, Server(c) PROVE \A q \in Requests : Outcome(q)'
  <2>1. \A q \in Requests : conn[q].processed => conn'[q].processed
    BY <1>2, ServerSteps
  <2>2. UNCHANGED <<caller, thread, api, result>>
    BY <1>2 DEF Server, callVars
  <2>3. QED
    BY <1>1, <2>1, <2>2
<1>3. ASSUME Fault \/ UNCHANGED vars PROVE \A q \in Requests : Outcome(q)'
  BY <1>1, <1>3 DEF Fault, vars, callVars, systemVars
<1>4. CASE \E r \in Requests : Next /\ (Caller(r) \/ Run(r))
  BY <1>4, CallerOutcome, RunOutcome
<1>5. QED
  BY <1>2, <1>3, <1>4 DEF Next

-----------------------------------------------------------------------------
(* The descriptor that a request closes, if it has one, is free then, and  *)
(* the others are as they were.                                            *)
LEMMA ClosedDescriptor ==
  ASSUME TypeOK, NEW s, NEW r \in Requests, Closed(s), \A t \in Sockets : s = t => fd[t] = r
  PROVE  \A t \in Sockets : fd'[t] = IF t = s THEN None ELSE fd[t]
<1>1. fd \in [Sockets -> Requests \cup {None}]
  BY Types
<1>2. CASE s \in Sockets
  <2>1. fd[s] = r /\ fd[s] # None
    BY <1>2, NoneAssumption
  <2>2. fd' = [fd EXCEPT ![s] = None]
    BY <1>2, <2>1 DEF Closed
  <2>3. QED
    BY <1>1, <2>2
<1>3. CASE s \notin Sockets
  BY <1>3 DEF Closed
<1>4. QED
  BY <1>2, <1>3

(* A call closes its own descriptor, once, and else changes neither who    *)
(* has a descriptor nor who has one open.                                  *)
LEMMA CallerSocket ==
  ASSUME TypeOK, ItoaInv, CourseInv, SocketInv, Sound, Next, NEW r \in Requests, Caller(r),
         \A q \in Requests : Identity(q) /\ Outcome(q)
  PROVE  SocketInv'
<1>0. /\ caller \in [Requests -> Callers] /\ fd \in [Sockets -> Requests \cup {None}]
      /\ Course(r) /\ Identity(r) /\ Outcome(r) /\ result[r] # "fcntl"
      /\ Unset \notin Sockets /\ None \notin Requests
  BY Types, SocketsAssumption, NoneAssumption DEF CourseInv, Outcome, Sound, Unset
<1>1. api'[r].m_sock = api[r].m_sock
  BY CallerFrame
<1>2. ASSUME NEW q \in Requests, q # r
      PROVE  (Open(q)' <=> Open(q)) /\ api'[q].m_sock = api[q].m_sock
  BY <1>2, CallerFrame DEF Open
<1>3. CASE CloseSocket(r)
  <2>1. /\ Closed(api[r].m_sock) /\ caller'[r] = "rejoining" /\ api' = api
        /\ \A s \in Sockets : api[r].m_sock = s => fd[s] = r
        /\ ~api[r].m_cbfunc
    BY <1>0, <1>3, OwnCloseSocket DEF CloseSocket, Goes, Course
  <2>2. \A t \in Sockets : fd'[t] = IF t = api[r].m_sock THEN None ELSE fd[t]
    BY <2>1, ClosedDescriptor
  <2>3. ~Open(r)'
    BY <2>1 DEF Open
  <2>4. QED
    BY <1>0, <1>1, <1>2, <2>1, <2>2, <2>3 DEF SocketInv
<1>4. CASE ~CloseSocket(r)
  <2>1. fd' = fd
    BY <1>4 DEF Caller, Call, itoa, BuildHeader, CreateThread, AssignThread, Detach, JoinFails,
                JoinWaits, JoinReturns, DeleteApi, systemVars
  <2>2. api[r].m_sock \in Sockets => (Open(r)' <=> Open(r))
    <3> SUFFICES ASSUME api[r].m_sock \in Sockets PROVE Open(r)' <=> Open(r)
      OBVIOUS
    <3>1. thread[r] \notin {"none", "begun"} /\ ~Before(r)
      BY <1>0 DEF Course
    <3>2. ~Call(r) /\ ~CreateThread(r)
      BY <3>1 DEF Call, CreateThread, Goes, Before
    <3>3. api'[r].m_cbfunc = api[r].m_cbfunc /\ thread'[r] = thread[r]
      BY <3>2, CallerFrame
    <3>4. ~api[r].m_cbfunc => (caller'[r] \in {"created", "joining", "joined"}
                                 <=> caller[r] \in {"created", "joining", "joined"})
      BY <1>0, <1>4, <3>1, <3>2 DEF Caller, itoa, BuildHeader, AssignThread, Detach, JoinFails,
           JoinWaits, JoinReturns, DeleteApi, Goes, JoinState, AfterJoin, callVars, Course, Before
    <3>5. QED
      BY <1>1, <3>3, <3>4 DEF Open
  <2>3. QED
    BY <1>1, <1>2, <2>1, <2>2 DEF SocketInv, Open
<1>5. QED
  BY <1>3, <1>4

(* A thread opens a descriptor that nobody has, and closes its own at the  *)
(* end of an asynchronous request.                                         *)
LEMMA RunSocket ==
  ASSUME TypeOK, CourseInv, SocketInv, NEW r \in Requests, Run(r),
         \A q \in Requests : Identity(q)
  PROVE  SocketInv'
<1>0. /\ fd \in [Sockets -> Requests \cup {None}]
      /\ Course(r) /\ Identity(r) /\ caller' = caller /\ Other(r)
      /\ api'[r].m_cbfunc = api[r].m_cbfunc
      /\ Unset \notin Sockets /\ -1 \notin Sockets /\ None \notin Requests
  BY Types, ThreadSteps, SocketsAssumption, NoneAssumption DEF CourseInv, Unset
<1>1. ASSUME NEW q \in Requests, q # r
      PROVE  (Open(q)' <=> Open(q)) /\ api'[q].m_sock = api[q].m_sock
  BY <1>0, <1>1 DEF Open, Other
<1>2. CASE NoSocket(r)
  <2>1. ~Open(r)' /\ ~Open(r) /\ fd' = fd
    BY <1>0, <1>2 DEF NoSocket, Open, Course
  <2>2. QED
    BY <1>1, <2>1 DEF SocketInv
<1>3. CASE Opens(r)
  <2> DEFINE s == api'[r].m_sock
  <2>1. s \in Sockets /\ fd[s] = None /\ fd' = [fd EXCEPT ![s] = r]
        /\ thread'[r] = "opened" /\ thread[r] = "begun"
    BY <1>3 DEF Opens
  <2>2. Open(r)' /\ ~Open(r)
    BY <1>0, <2>1, WhileItRuns DEF Open, Course
  <2>3. \A t \in Sockets : fd'[t] = IF t = s THEN r ELSE fd[t]
    BY <1>0, <2>1
  <2> HIDE DEF s
  <2>4. ASSUME NEW t \in Sockets, NEW q \in Requests, q # r
        PROVE  fd'[t] = q <=> Open(q)' /\ api'[q].m_sock = t
    BY <1>0, <1>1, <2>1, <2>3, <2>4 DEF SocketInv
  <2>5. ASSUME NEW t \in Sockets PROVE fd'[t] = r <=> Open(r)' /\ api'[r].m_sock = t
    BY <2>2, <2>3 DEF SocketInv, s
  <2>6. QED
    BY <2>4, <2>5 DEF SocketInv
<1>4. CASE GoesOn(r) \/ RunEnds(r)
  <2>1. api'[r].m_sock = api[r].m_sock /\ fd' = fd /\ thread[r] # "over"
        /\ (api[r].m_cbfunc => thread'[r] # "over")
    BY <1>4 DEF GoesOn, RunEnds, SameObject, InRun, End
  <2>2. Open(r)' <=> Open(r)
    BY <1>0, <2>1 DEF Open
  <2>3. QED
    BY <1>1, <2>1, <2>2 DEF SocketInv
<1>5. CASE Deletes(r)
  <2>1. /\ Closed(api[r].m_sock) /\ thread'[r] = "over" /\ api[r].m_cbfunc
        /\ \A s \in Sockets : api[r].m_sock = s => fd[s] = r
        /\ api'[r].m_sock = api[r].m_sock
    BY <1>0, <1>5, OwnClose DEF Deletes, Course
  <2>2. \A t \in Sockets : fd'[t] = IF t = api[r].m_sock THEN None ELSE fd[t]
    BY <2>1, ClosedDescriptor
  <2>3. ~Open(r)'
    BY <1>0, <2>1 DEF Open
  <2>4. QED
    BY <1>0, <1>1, <2>1, <2>2, <2>3 DEF SocketInv
<1>6. QED
  BY <1>2, <1>3, <1>4, <1>5, ThreadSteps

(* Every step keeps whose the descriptors are.                             *)
LEMMA SocketStep ==
  ASSUME TypeOK, ItoaInv, CourseInv, SocketInv, Sound, [Next]_vars,
         \A q \in Requests : Identity(q) /\ Outcome(q)
  PROVE  SocketInv'
<1>1. CASE UNCHANGED <<caller, thread, api, fd>>
  BY <1>1 DEF SocketInv, Open
<1>2. ASSUME NEW c \in Requests, Server(c) PROVE UNCHANGED <<caller, thread, api, fd>>
  BY <1>2 DEF Server, callVars
<1>3. ASSUME Fault \/ UNCHANGED vars PROVE UNCHANGED <<caller, thread, api, fd>>
  BY <1>3 DEF Fault, vars, callVars, systemVars
<1>4. CASE \E r \in Requests : Next /\ (Caller(r) \/ Run(r))
  BY <1>4, CallerSocket, RunSocket
<1>5. QED
  BY <1>1, <1>2, <1>3, <1>4 DEF Next

-----------------------------------------------------------------------------
(* What is sent next continues a text that has been sent up to there.      *)
LEMMA PrefixGrows ==
  ASSUME NEW r \in Requests, NEW got \in Seq(Requests \X Nat), NEW n \in Nat,
         got = SubSeq(Text(r), 1, Len(got)), Len(got) + n <= Pieces[r]
  PROVE  LET part == [i \in 1 .. n |-> <<r, Len(got) + i>>]
         IN /\ Len(got \o part) = Len(got) + n
            /\ got \o part = SubSeq(Text(r), 1, Len(got \o part))
<1> DEFINE k == Len(got)
           part == [i \in 1 .. n |-> <<r, k + i>>]
           whole == got \o part
<1>0. k \in Nat /\ Pieces[r] \in Nat /\ k + n \in Nat /\ k <= Pieces[r]
  BY PiecesAssumption
<1>1. part \in Seq(Requests \X Nat) /\ Len(part) = n
  <2>1. part \in [1 .. n -> Requests \X Nat]
    BY <1>0
  <2>2. QED
    BY <2>1
<1>2. whole \in Seq(Requests \X Nat) /\ Len(whole) = k + n
  BY <1>0, <1>1
<1>3. /\ Text(r) \in Seq(Requests \X Nat) /\ Len(Text(r)) = Pieces[r]
      /\ \A i \in 1 .. Pieces[r] : Text(r)[i] = <<r, i>>
  BY TextTyped DEF Text
<1>4. \A i \in 1 .. k : got[i] = <<r, i>>
  <2> SUFFICES ASSUME NEW i \in 1 .. k PROVE got[i] = <<r, i>>
    OBVIOUS
  <2>1. SubSeq(Text(r), 1, k)[i] = Text(r)[i]
    BY <1>0, <1>3
  <2>2. Text(r)[i] = <<r, i>>
    BY <1>0, <1>3
  <2>3. QED
    BY <2>1, <2>2
<1>5. \A i \in 1 .. k + n : whole[i] = <<r, i>>
  <2> SUFFICES ASSUME NEW i \in 1 .. k + n PROVE whole[i] = <<r, i>>
    OBVIOUS
  <2>1. CASE i <= k
    <3>1. whole[i] = got[i] /\ i \in 1 .. k
      BY <1>0, <1>1, <2>1
    <3>2. QED
      BY <1>4, <3>1
  <2>2. CASE i > k
    <3>1. i - k \in 1 .. n /\ k + (i - k) = i
      BY <1>0, <2>2
    <3>2. whole[i] = part[i - k]
      BY <1>0, <1>1, <2>2
    <3>3. part[i - k] = <<r, k + (i - k)>>
      BY <3>1
    <3>4. QED
      BY <3>1, <3>2, <3>3
  <2>3. QED
    BY <1>0, <2>1, <2>2
<1>6. /\ SubSeq(Text(r), 1, k + n) \in Seq(Requests \X Nat)
      /\ Len(SubSeq(Text(r), 1, k + n)) = k + n
      /\ \A i \in 1 .. k + n : SubSeq(Text(r), 1, k + n)[i] = Text(r)[i]
  BY <1>0, <1>3
<1> HIDE DEF whole
<1>7. \A i \in 1 .. k + n : whole[i] = SubSeq(Text(r), 1, k + n)[i]
  <2> SUFFICES ASSUME NEW i \in 1 .. k + n
               PROVE  whole[i] = SubSeq(Text(r), 1, k + n)[i]
    OBVIOUS
  <2>1. i \in 1 .. Pieces[r]
    BY <1>0
  <2>2. Text(r)[i] = <<r, i>>
    BY <1>3, <2>1
  <2>3. QED
    BY <1>5, <1>6, <2>2
<1>8. whole = SubSeq(Text(r), 1, k + n)
  BY ONLY <1>0, <1>2, <1>6, <1>7, SeqEqual
<1>9. QED
  BY <1>2, <1>8 DEF whole

(* A text that has gone, or come whole, has come as far as it has come.    *)
LEMMA PrefixEnds ==
  ASSUME NEW r \in Requests
  PROVE  /\ <<>> = SubSeq(Text(r), 1, Len(<<>>))
         /\ Text(r) = SubSeq(Text(r), 1, Len(Text(r)))
<1>1. Text(r) \in Seq(Requests \X Nat)
  BY TextTyped
<1>2. <<>> = SubSeq(Text(r), 1, Len(<<>>))
  BY <1>1
<1>3. Text(r) = SubSeq(Text(r), 1, Len(Text(r)))
  <2> DEFINE t == Text(r)
  <2>0. t \in Seq(Requests \X Nat) /\ Len(t) \in Nat
    BY <1>1
  <2> HIDE DEF t
  <2>1. /\ SubSeq(t, 1, Len(t)) \in Seq(Requests \X Nat)
        /\ Len(SubSeq(t, 1, Len(t))) = Len(t)
        /\ \A i \in 1 .. Len(t) : t[i] = SubSeq(t, 1, Len(t))[i]
    BY <2>0
  <2>2. t = SubSeq(t, 1, Len(t))
    BY ONLY <2>0, <2>1, SeqEqual
  <2>3. QED
    BY <2>2 DEF t
<1>4. QED
  BY <1>2, <1>3

(* What has been sent of a text stays right when its connection is closed. *)
LEMMA ClosedSent ==
  ASSUME TypeOK, NEW s, Closed(s), NEW q \in Requests, Sent(q),
         thread'[q] = "over" \/ \A t \in Sockets : s = t => fd[t] # q,
         UNCHANGED sending, thread'[q] \in {thread[q], "over"}
  PROVE  Sent(q)'
<1>1. CASE conn'[q] = conn[q]
  BY <1>1 DEF Sent, Prefix, Text
<1>2. CASE conn'[q] # conn[q]
  <2>1. conn'[q].got \in {<<>>, Text(q)} /\ thread'[q] = "over"
    BY <1>2, ClosedLeaves
  <2>2. Prefix(q)'
    BY <2>1, PrefixEnds DEF Prefix, Text
  <2>3. QED
    BY <2>1, <2>2 DEF Sent
<1>3. QED
  BY <1>1, <1>2

(* A call sends nothing.                                                   *)
LEMMA CallerSent ==
  ASSUME TypeOK, ItoaInv, CourseInv, SocketInv, Next, NEW r \in Requests, Caller(r),
         \A q \in Requests : Identity(q) /\ Sent(q)
  PROVE  \A q \in Requests : Sent(q)'
<1>0. /\ Course(r) /\ Identity(r) /\ sending' = sending
      /\ \A q \in Requests \ {r} : thread'[q] = thread[q]
  BY CallerFrame DEF CourseInv
<1> SUFFICES ASSUME NEW q \in Requests PROVE Sent(q)'
  OBVIOUS
<1>1. CASE CloseSocket(r)
  <2>1. /\ Closed(api[r].m_sock) /\ thread[r] = "over" /\ thread' = thread
        /\ \A s \in Sockets : api[r].m_sock = s => fd[s] = r
    BY <1>0, <1>1, OwnCloseSocket DEF CloseSocket
  <2>2. QED
    BY <1>0, <2>1, ClosedSent
<1>2. CASE CreateThread(r)
  <2>1. conn' = conn /\ thread[r] = "none" /\ thread'[r] = "begun"
    BY <1>0, <1>2, Types DEF CreateThread, Goes, Course, Before
  <2>2. QED
    BY <1>0, <2>1 DEF Sent, Prefix, Text
<1>3. CASE ~(CloseSocket(r) \/ CreateThread(r))
  <2>1. conn' = conn /\ thread' = thread
    BY <1>3 DEF Caller, Call, itoa, BuildHeader, AssignThread, Detach, JoinFails, JoinWaits,
                JoinReturns, DeleteApi, systemVars
  <2>2. QED
    BY <1>0, <2>1 DEF Sent, Prefix, Text
<1>4. QED
  BY <1>1, <1>2, <1>3

(* A thread's first two parts continue its text, each where the one before *)
(* has ended; it sends them on its own connection.                         *)
LEMMA OwnPart ==
  ASSUME TypeOK, NEW r \in Requests, NEW n \in 1 .. sending[r].left, SendsPart(r, n),
         Peer(r) = r, Sent(r)
  PROVE  Sent(r)'
<1>0. /\ conn[r].got \in Seq(Requests \X Nat) /\ conn[r].parts \in Nat
      /\ sending[r].left \in Nat /\ sending[r].len \in Nat
      /\ n \in Nat /\ n <= sending[r].left
  BY DEF TypeOK
<1> DEFINE part == [i \in 1 .. n |-> <<r, sending[r].len + i>>]
<1>1. /\ thread[r] = "sending"
      /\ thread'[r] = IF n = sending[r].left THEN "waiting" ELSE "sending"
      /\ conn'[r].got = conn[r].got \o part /\ conn'[r].parts = conn[r].parts + 1
      /\ sending'[r].len = n /\ sending'[r].left = sending[r].left - n
  BY DEF SendsPart
<1>2. CASE conn[r].parts <= 1
  <2>1. /\ Prefix(r) /\ sending[r].len = Len(conn[r].got)
        /\ Len(conn[r].got) + sending[r].left = Pieces[r]
        /\ conn[r].parts = 0 => Len(conn[r].got) = 0
    <3>1. CASE conn[r].parts = 0
      BY <1>1, <3>1 DEF Sent
    <3>2. CASE conn[r].parts = 1
      BY <1>1, <3>2 DEF Sent
    <3>3. QED
      BY <1>0, <1>2, <3>1, <3>2
  <2>2. Len(conn[r].got) \in Nat /\ Pieces[r] \in Nat /\ Len(conn[r].got) + n <= Pieces[r]
    BY <1>0, <2>1, PiecesAssumption
  <2>3. /\ Len(conn'[r].got) = Len(conn[r].got) + n
        /\ conn'[r].got = SubSeq(Text(r), 1, Len(conn'[r].got))
    <3> DEFINE got == conn[r].got
    <3>1. got \in Seq(Requests \X Nat) /\ got = SubSeq(Text(r), 1, Len(got))
      BY <1>0, <2>1 DEF Prefix
    <3>2. conn'[r].got = got \o [i \in 1 .. n |-> <<r, Len(got) + i>>]
      BY <1>1, <2>1
    <3> HIDE DEF got
    <3>3. Len(got) + n <= Pieces[r]
      BY <2>2 DEF got
    <3>4. /\ Len(conn'[r].got) = Len(got) + n
          /\ conn'[r].got = SubSeq(Text(r), 1, Len(conn'[r].got))
      <4>1. r \in Requests /\ n \in Nat
        BY <1>0
      <4>2. LET p == [i \in 1 .. n |-> <<r, Len(got) + i>>]
            IN Len(got \o p) = Len(got) + n /\ got \o p = SubSeq(Text(r), 1, Len(got \o p))
        BY ONLY <3>1, <3>3, <4>1, PrefixGrows
      <4>3. QED
        BY ONLY <3>2, <4>2
    <3>5. QED
      BY <3>4 DEF got
  <2>4. Prefix(r)'
    BY <2>3 DEF Prefix, Text
  <2>5. Len(conn'[r].got) + sending'[r].left = Pieces[r]
    BY <1>0, <1>1, <2>1, <2>2, <2>3
  <2>6. conn'[r].parts # 0
        /\ (conn'[r].parts = 1 => sending'[r].len = Len(conn'[r].got))
    <3>1. conn[r].parts = 0 \/ conn[r].parts = 1
      BY <1>0, <1>2
    <3>2. CASE conn[r].parts = 0
      <4>1. Len(conn'[r].got) = n /\ conn'[r].parts = 1
        BY <1>0, <1>1, <2>1, <2>3, <3>2
      <4>2. QED
        BY <1>1, <4>1
    <3>3. CASE conn[r].parts = 1
      BY <1>1, <3>3
    <3>4. QED
      BY <3>1, <3>2, <3>3
  <2>7. QED
    BY <1>1, <2>4, <2>5, <2>6 DEF Sent
<1>3. CASE conn[r].parts > 1
  <2>1. conn'[r].parts > 1 /\ conn'[r].parts # 0 /\ conn'[r].parts # 1
    BY <1>0, <1>1, <1>3
  <2>2. CASE conn[r].parts = 2
    BY <1>0, <1>1, <2>2 DEF Sent
  <2>3. CASE conn[r].parts > 2
    BY <1>0, <1>1, <2>3 DEF Sent
  <2>4. QED
    BY <1>0, <1>3, <2>2, <2>3
<1>4. QED
  BY <1>0, <1>2, <1>3

(* A thread sends on and closes no connection but its own.                 *)
LEMMA RunSent ==
  ASSUME TypeOK, CourseInv, SocketInv, NEW r \in Requests, Run(r),
         \A q \in Requests : Identity(q) /\ Sent(q)
  PROVE  \A q \in Requests : Sent(q)'
<1>0. /\ Course(r) /\ Identity(r) /\ Sent(r) /\ Other(r)
      /\ thread[r] \notin {"none", "over"} /\ thread'[r] # "none"
      /\ thread'[r] = "begun" => thread[r] = "begun"
  BY ThreadSteps DEF CourseInv, NoSocket, Opens, GoesOn, RunEnds, Deletes, InRun, End
<1>1. CASE Deletes(r)
  <2>1. /\ Closed(api[r].m_sock) /\ thread'[r] = "over" /\ sending' = sending
        /\ \A s \in Sockets : api[r].m_sock = s => fd[s] = r
    BY <1>0, <1>1, OwnClose DEF Deletes
  <2>2. ASSUME NEW q \in Requests PROVE Sent(q)'
    <3>1. \A t \in Sockets : api[r].m_sock = t /\ q # r => fd[t] # q
      BY <2>1
    <3>2. thread'[q] \in {thread[q], "over"}
      BY <1>0, <2>1 DEF Other
    <3>3. thread'[q] = "over" \/ \A t \in Sockets : api[r].m_sock = t => fd[t] # q
      BY <2>1, <3>1
    <3>4. QED
      BY <2>1, <3>2, <3>3, ClosedSent
  <2>3. QED
    BY <2>2
<1>2. CASE OnlyTakes(r)
  <2>1. ASSUME NEW q \in Requests, q # r PROVE Sent(q)'
    <3>1. /\ thread'[q] = thread[q] /\ sending'[q] = sending[q]
          /\ conn'[q].got = conn[q].got /\ conn'[q].parts = conn[q].parts
      BY <1>0, <1>2, <2>1 DEF Other, OnlyTakes, SameData
    <3>2. QED
      BY <3>1 DEF Sent, Prefix, Text
  <2>2. Sent(r)'
    <3>1. conn'[r].got = conn[r].got /\ conn'[r].parts = conn[r].parts
      BY <1>2 DEF OnlyTakes, SameData
    <3>2. thread'[r] = "begun" => sending' = sending
      BY <1>0, ThreadSteps DEF NoSocket, Opens, GoesOn, RunEnds, Deletes, InRun, End
    <3>3. CASE thread'[r] = "sending"
      <4>1. thread[r] = "opened" /\ sending' = sending
        BY <1>2, <3>3 DEF OnlyTakes
      <4>2. /\ conn[r].got = <<>> /\ conn[r].parts = 0
            /\ sending[r].len = 0 /\ sending[r].left = Pieces[r]
        BY <1>0, <4>1 DEF Sent
      <4>3. Len(conn[r].got) + sending[r].left = Pieces[r]
        BY <4>2, PiecesAssumption
      <4>4. QED
        BY <1>0, <3>1, <3>3, <4>1, <4>2, <4>3 DEF Sent, Prefix, Text
    <3>4. CASE thread'[r] # "sending"
      BY <1>0, <1>2, <3>1, <3>2, <3>4 DEF Sent, Prefix, Text, OnlyTakes
    <3>5. QED
      BY <3>3, <3>4
  <2>3. QED
    BY <2>1, <2>2
<1>3. ASSUME NEW n \in 1 .. sending[r].left, SendsPart(r, n) PROVE \A q \in Requests : Sent(q)'
  <2>1. Peer(r) = r
    BY <1>0, <1>3, OwnPeer DEF SendsPart, InRun
  <2>2. Sent(r)'
    BY <1>0, <1>3, <2>1, OwnPart
  <2>3. ASSUME NEW q \in Requests, q # r PROVE Sent(q)'
    <3>1. thread'[q] = thread[q] /\ sending'[q] = sending[q] /\ conn'[q] = conn[q]
      BY <1>0, <1>3, <2>1, <2>3 DEF Other, SendsPart
    <3>2. QED
      BY <3>1 DEF Sent, Prefix, Text
  <2>4. QED
    BY <2>2, <2>3
<1>4. QED
  BY <1>1, <1>2, <1>3, DataSteps

(* Every step keeps what has been sent of the texts right.                 *)
LEMMA SentStep ==
  ASSUME TypeOK, ItoaInv, CourseInv, SocketInv, [Next]_vars,
         \A q \in Requests : Identity(q) /\ Sent(q)
  PROVE  \A q \in Requests : Sent(q)'
<1>1. ASSUME UNCHANGED <<thread, sending>>,
             \A q \in Requests : conn'[q].got = conn[q].got /\ conn'[q].parts = conn[q].parts
      PROVE  \A q \in Requests : Sent(q)'
  BY <1>1 DEF Sent, Prefix, Text
<1>2. ASSUME NEW c \in Requests, Server(c) PROVE \A q \in Requests : Sent(q)'
  <2>1. \A q \in Requests : conn'[q].got = conn[q].got /\ conn'[q].parts = conn[q].parts
    BY <1>2, ServerSteps
  <2>2. UNCHANGED <<thread, sending>>
    BY <1>2 DEF Server
  <2>3. QED
    BY <1>1, <2>1, <2>2
<1>3. ASSUME Fault \/ UNCHANGED vars PROVE \A q \in Requests : Sent(q)'
  BY <1>1, <1>3 DEF Fault, vars, systemVars
<1>4. CASE \E r \in Requests : Next /\ (Caller(r) \/ Run(r))
  BY <1>4, CallerSent, RunSent
<1>5. QED
  BY <1>2, <1>3, <1>4 DEF Next

-----------------------------------------------------------------------------
(* A status that a call has taken stays, although it may read it again.    *)
LEMMA ResultKept ==
  ASSUME TypeOK, [Next]_vars, NEW q \in Requests, result[q] = "fcntl"
  PROVE  result'[q] = "fcntl"
<1>1. ASSUME NEW r \in Requests, Caller(r) PROVE result'[q] = "fcntl"
  <2>1. result \in [Requests -> Statuses \cup {"none"}]
    BY Types
  <2>2. CASE CloseSocket(r)
    BY <2>1, <2>2 DEF CloseSocket
  <2>3. CASE ~CloseSocket(r)
    BY <1>1, <2>3 DEF Caller, Call, itoa, BuildHeader, CreateThread, AssignThread, Detach,
                      JoinFails, JoinWaits, JoinReturns, DeleteApi, callVars
  <2>4. QED
    BY <2>2, <2>3
<1>2. ASSUME NEW r \in Requests, Run(r) \/ Server(r) PROVE result' = result
  BY <1>2, ThreadSteps DEF Server, callVars
<1>3. QED
  BY <1>1, <1>2 DEF Next, Fault, vars, callVars

(* The object of a synchronous request is deleted by its call alone, which *)
(* then returns or has the status fcntl.                                   *)
LEMMA DeletedStep ==
  ASSUME TypeOK, ItoaInv, CourseInv, DeletedInv, [Next]_vars PROVE DeletedInv'
<1> SUFFICES ASSUME NEW q \in Requests, api'[q].deleted, ~api'[q].m_cbfunc
             PROVE  caller'[q] = "returned" \/ result'[q] = "fcntl"
  BY DEF DeletedInv
<1>1. ASSUME api[q].deleted, ~api[q].m_cbfunc, caller'[q] = caller[q]
      PROVE  caller'[q] = "returned" \/ result'[q] = "fcntl"
  BY <1>1, ResultKept DEF DeletedInv
<1>2. ASSUME NEW r \in Requests, Next, Caller(r)
      PROVE  caller'[q] = "returned" \/ result'[q] = "fcntl"
  <2>1. CASE q # r
    BY <1>1, <1>2, <2>1, CallerFrame
  <2>2. CASE q = r /\ DeleteApi(r)
    <3>1. caller \in [Requests -> Callers] /\ result' = result
      BY <2>2, Types DEF DeleteApi
    <3>2. QED
      BY <2>2, <3>1 DEF DeleteApi
  <2>3. CASE q = r /\ ~DeleteApi(r)
    <3>1. api[r].deleted /\ ~Call(r)
      <4>1. api[r].deleted
        BY <1>2, <2>3, CallerFrame
      <4>2. thread[r] # "none"
        BY <4>1 DEF CourseInv, Course
      <4>3. ~Before(r)
        BY <4>2 DEF CourseInv, Course
      <4>4. QED
        BY <4>1, <4>3 DEF Call, Goes, Before
    <3>2. ~api[r].m_cbfunc
      BY <1>2, <2>3, <3>1, CallerFrame
    <3>3. caller[r] # "returned"
      BY <1>2 DEF Caller, Call, itoa, BuildHeader, CreateThread, AssignThread, Detach, JoinFails,
                  JoinWaits, JoinReturns, CloseSocket, DeleteApi, Goes, JoinState
    <3>4. result[r] = "fcntl"
      BY <3>1, <3>2, <3>3 DEF DeletedInv
    <3>5. QED
      BY <2>3, <3>4, ResultKept
  <2>4. QED
    BY <2>1, <2>2, <2>3
<1>3. ASSUME NEW r \in Requests, Run(r)
      PROVE  caller'[q] = "returned" \/ result'[q] = "fcntl"
  <2>1. /\ caller' = caller /\ api'[q].m_cbfunc = api[q].m_cbfunc
        /\ q # r => api'[q] = api[q]
    BY <1>3, ThreadSteps DEF Other
  <2>2. ~Deletes(r) \/ q # r
    BY <2>1 DEF Deletes, CourseInv, Course
  <2>3. api'[q].deleted = api[q].deleted
    BY <1>3, <2>1, <2>2, ThreadSteps DEF NoSocket, Opens, GoesOn, RunEnds, SameObject
  <2>4. QED
    BY <1>1, <2>1, <2>3
<1>4. ASSUME NEW r \in Requests, Server(r) PROVE UNCHANGED <<caller, api>>
  BY <1>4 DEF Server, callVars
<1>5. ASSUME Fault \/ UNCHANGED vars PROVE UNCHANGED <<caller, api>>
  BY <1>5 DEF Fault, vars, callVars
<1>6. QED
  BY <1>1, <1>2, <1>3, <1>4, <1>5 DEF Next

(* What a call does to thread identities: it only ever touches the one in  *)
(* its object, and gives one back only after the end of its thread.        *)
LEMMA CallerTids ==
  ASSUME TypeOK, NEW r \in Requests, Caller(r), ~CreateThread(r)
  PROVE  /\ \A p \in Pthreads : tid'[p].owner = tid[p].owner \/ thread[tid[p].owner] = "over"
         /\ \/ tid' = tid
            \/ /\ caller[r] \in {"detaching", "joining", "rejoining"}
               /\ \A o \in Pthreads \ {api[r].m_thread} : tid'[o] = tid[o]
<1>0. tid \in [Pthreads -> Tids]
  BY Types
<1> DEFINE m == api[r].m_thread
<1>1. CASE Detach(r)
  <2>1. \/ tid' = tid
        \/ tid[m].owner = r /\ thread[r] = "over" /\ tid' = [tid EXCEPT ![m] = FreeThread]
        \/ tid' = [tid EXCEPT ![m] = [tid[m] EXCEPT !.detached = TRUE]]
    BY <1>1 DEF Detach
  <2>2. caller[r] = "detaching"
    BY <1>1 DEF Detach, Goes
  <2>3. \A p \in Pthreads : tid'[p].owner = tid[p].owner \/ thread[tid[p].owner] = "over"
    BY <1>0, <2>1 DEF Tids
  <2>4. QED
    BY <1>0, <2>1, <2>2, <2>3
<1>2. CASE JoinWaits(r)
  <2>1. tid' = [tid EXCEPT ![m] = [tid[m] EXCEPT !.joiner = r]]
    BY <1>2 DEF JoinWaits
  <2>2. QED
    BY <1>0, <1>2, <2>1 DEF JoinWaits, JoinState, Tids
<1>3. CASE JoinReturns(r)
  BY <1>0, <1>3 DEF JoinReturns, JoinState
<1>4. CASE ~(Detach(r) \/ JoinWaits(r) \/ JoinReturns(r))
  BY <1>4 DEF Caller, Call, itoa, BuildHeader, AssignThread, JoinFails, CloseSocket, DeleteApi,
              systemVars
<1>5. QED
  BY <1>1, <1>2, <1>3, <1>4

(* A thread that runs has its identity, whatever was done with others.     *)
LEMMA OwnerStep ==
  ASSUME TypeOK, ItoaInv, CourseInv, OwnerInv, [Next]_vars PROVE OwnerInv'
<1> SUFFICES ASSUME NEW q \in Requests, thread'[q] \notin {"none", "over"}
             PROVE  tid'[api'[q].m_thread].owner = q
  BY DEF OwnerInv
<1>0. tid \in [Pthreads -> Tids] /\ thread \in [Requests -> Places]
  BY Types
<1>1. ASSUME thread[q] \notin {"none", "over"}
      PROVE  tid[api[q].m_thread].owner = q /\ api[q].m_thread \in Pthreads
  BY <1>1 DEF OwnerInv, CourseInv, Course
<1>2. ASSUME NEW r \in Requests, Next, Caller(r) PROVE tid'[api'[q].m_thread].owner = q
  <2>1. CASE CreateThread(r)
    <3>1. PICK p \in Pthreads : /\ tid[p] = FreeThread
                                /\ tid' = [tid EXCEPT ![p] = [tid[p] EXCEPT !.owner = r]]
                                /\ api' = [api EXCEPT ![r].m_thread = p]
      BY <2>1 DEF CreateThread
    <3>2. tid'[p].owner = r /\ tid[p].owner = None
          /\ \A o \in Pthreads \ {p} : tid'[o] = tid[o]
      BY <1>0, <3>1 DEF Tids, FreeThread
    <3>3. CASE q = r
      <4>1. api'[q].m_thread = p
        BY <3>1, <3>3, Types DEF Apis
      <4>2. QED
        BY <3>2, <3>3, <4>1
    <3>4. CASE q # r
      <4>1. thread'[q] = thread[q] /\ api'[q] = api[q]
        BY <1>2, <3>4, CallerFrame
      <4>2. tid[api[q].m_thread].owner = q /\ api[q].m_thread \in Pthreads
        BY <1>1, <4>1
      <4>3. QED
        BY <3>2, <4>1, <4>2, NoneAssumption
    <3>5. QED
      BY <3>3, <3>4
  <2>2. CASE ~CreateThread(r)
    <3>1. thread'[q] = thread[q] /\ api'[q].m_thread = api[q].m_thread
      BY <1>2, <2>2, CallerFrame
    <3>2. tid[api[q].m_thread].owner = q /\ api[q].m_thread \in Pthreads
      BY <1>1, <3>1
    <3>3. QED
      BY <1>2, <2>2, <3>1, <3>2, CallerTids
  <2>3. QED
    BY <2>1, <2>2
<1>3. ASSUME NEW r \in Requests, Run(r) PROVE tid'[api'[q].m_thread].owner = q
  <2>1. /\ api'[q].m_thread = api[q].m_thread
        /\ q # r => thread'[q] = thread[q]
        /\ thread[r] \notin {"none", "over"}
    BY <1>3, ThreadSteps DEF Other, NoSocket, Opens, GoesOn, RunEnds, Deletes, InRun
  <2>2. tid[api[q].m_thread].owner = q /\ api[q].m_thread \in Pthreads
    BY <1>1, <2>1
  <2>3. CASE Deletes(r)
    <3>1. q # r
      BY <2>3 DEF Deletes
    <3>2. tid[api[r].m_thread].owner = r
      BY <2>1 DEF OwnerInv
    <3>3. api[q].m_thread # api[r].m_thread
      BY <2>2, <3>1, <3>2
    <3>4. QED
      BY <1>0, <2>1, <2>2, <2>3, <3>3 DEF Deletes
  <2>4. CASE ~Deletes(r)
    <3>1. tid' = tid
      BY <1>3, <2>4, ThreadSteps DEF NoSocket, Opens, GoesOn, RunEnds
    <3>2. QED
      BY <2>1, <2>2, <3>1
  <2>5. QED
    BY <2>3, <2>4
<1>4. ASSUME NEW r \in Requests, Server(r) PROVE UNCHANGED <<thread, api, tid>>
  BY <1>4 DEF Server
<1>5. ASSUME Fault \/ UNCHANGED vars PROVE UNCHANGED <<thread, api, tid>>
  BY <1>5 DEF Fault, vars, systemVars
<1>6. QED
  BY <1>1, <1>2, <1>3, <1>4, <1>5 DEF Next

-----------------------------------------------------------------------------
(* What another request does leaves a pthread_t alone that a request has   *)
(* to itself: a new thread gets a free one, a call touches its own, and a  *)
(* thread that ends gives back its own.                                    *)
LEMMA AloneOther ==
  ASSUME TypeOK, ItoaInv, CourseInv, OwnerInv, Next, NEW r \in Requests, Caller(r) \/ Run(r),
         NEW q \in Requests, q # r, Alone(q)
  PROVE  Alone(q)'
<1> DEFINE m == api[q].m_thread
<1>0. /\ tid \in [Pthreads -> Tids]
      /\ caller'[q] = caller[q] /\ thread'[q] = thread[q] /\ api'[q] = api[q]
      /\ \A x \in Requests \ {r} : caller'[x] = caller[x] /\ api'[x] = api[x]
  BY Types, CallerFrame, ThreadSteps DEF Other
<1>1. CASE ~Holds(q)
  BY <1>0, <1>1 DEF Alone, Holds
<1>2. CASE Holds(q)
  <2>0. /\ m \in Pthreads /\ tid[m].owner = q /\ tid[m].owner # None
        /\ \A x \in Requests \ {q} : api[x].m_thread = m => caller[x] = "returned"
    BY <1>2, NoneAssumption DEF Alone, Holds, CourseInv, Course, Before
  <2>1. /\ tid'[m] = tid[m]
        /\ api'[r].m_thread = m => caller'[r] = "returned"
    <3>1. CASE CreateThread(r)
      <4>1. PICK p \in Pthreads : /\ tid[p] = FreeThread
                                  /\ tid' = [tid EXCEPT ![p] = [tid[p] EXCEPT !.owner = r]]
                                  /\ api' = [api EXCEPT ![r].m_thread = p]
        BY <3>1 DEF CreateThread
      <4>2. p # m /\ api'[r].m_thread = p
        BY <2>0, <4>1, Types DEF FreeThread, Apis
      <4>3. QED
        BY <1>0, <4>1, <4>2, <2>0
    <3>2. CASE Caller(r) /\ ~CreateThread(r)
      <4>1. api'[r].m_thread = api[r].m_thread
        BY <3>2, CallerFrame
      <4>2. caller[r] # "returned"
        BY <3>2 DEF Caller, Call, itoa, BuildHeader, AssignThread, Detach, JoinFails, JoinWaits,
                    JoinReturns, CloseSocket, DeleteApi, Goes, JoinState
      <4>3. api[r].m_thread # m
        BY <2>0, <4>2
      <4>4. QED
        BY <2>0, <3>2, <4>1, <4>3, CallerTids
    <3>3. CASE Run(r)
      <4>1. /\ caller' = caller /\ api'[r].m_thread = api[r].m_thread
            /\ thread[r] \notin {"none", "over"}
        BY <3>3, ThreadSteps DEF NoSocket, Opens, GoesOn, RunEnds, Deletes, InRun
      <4>2. tid[api[r].m_thread].owner = r
        BY <4>1 DEF OwnerInv
      <4>3. tid' = tid \/ tid' = [tid EXCEPT ![api[r].m_thread] = FreeThread]
        BY <3>3, ThreadSteps DEF NoSocket, Opens, GoesOn, RunEnds, Deletes
      <4>4. QED
        BY <1>0, <2>0, <4>1, <4>2, <4>3
    <3>4. QED
      BY <3>1, <3>2, <3>3
  <2>2. \A x \in Requests \ {q} : api'[x].m_thread = m => caller'[x] = "returned"
    BY <1>0, <2>0, <2>1
  <2>3. QED
    BY <1>0, <1>2, <2>1, <2>2 DEF Alone, Holds
<1>3. QED
  BY <1>1, <1>2

(* The request's own call joins or detaches its own thread, and is past    *)
(* the join only when that is over.                                        *)
LEMMA AloneCaller ==
  ASSUME TypeOK, ItoaInv, CourseInv, Next, NEW r \in Requests, Caller(r), r \notin reused',
         Alone(r), Past(r)
  PROVE  Alone(r)' /\ Past(r)'
<1> DEFINE m == api[r].m_thread
<1>0. /\ tid \in [Pthreads -> Tids] /\ caller \in [Requests -> Callers]
      /\ Course(r) /\ None \notin Requests
      /\ \A x \in Requests \ {r} : caller'[x] = caller[x] /\ api'[x] = api[x]
      /\ ~CreateThread(r) => api'[r].m_thread = m /\ thread'[r] = thread[r]
      /\ Call(r) \/ api'[r].m_cbfunc = api[r].m_cbfunc
  BY Types, NoneAssumption, CallerFrame DEF CourseInv
<1>1. CASE Call(r) \/ itoa(r) \/ BuildHeader(r)
  <2>1. caller'[r] \in {"itoa", "built"}
    BY <1>0, <1>1 DEF Call, itoa, BuildHeader, Goes
  <2>2. QED
    BY <2>1 DEF Alone, Holds, Past
<1>2. CASE CreateThread(r)
  <2>1. PICK p \in Pthreads :
          /\ tid[p] = FreeThread
          /\ tid' = [tid EXCEPT ![p] = [tid[p] EXCEPT !.owner = r]]
          /\ api' = [api EXCEPT ![r].m_thread = p]
          /\ reused' = IF \E q \in Requests : api[q].m_thread = p /\ caller[q] # "returned"
                       THEN reused \cup {r} ELSE reused
    BY <1>2 DEF CreateThread
  <2>2. api'[r].m_thread = p /\ caller'[r] = "created"
    BY <1>0, <1>2, <2>1, Types DEF Apis, CreateThread, Goes
  <2>3. tid'[p].owner = r /\ tid'[p].joiner = None /\ ~tid'[p].detached
    BY <1>0, <2>1 DEF Tids, FreeThread
  <2>4. \A q \in Requests : api[q].m_thread = p => caller[q] = "returned"
    BY <2>1
  <2>5. QED
    BY <1>0, <2>2, <2>3, <2>4 DEF Alone, Holds, Past
<1>own. ASSUME Holds(r)
        PROVE  /\ m \in Pthreads /\ tid[m].owner = r
               /\ \A q \in Requests \ {r} : api[q].m_thread = m => caller[q] = "returned"
  BY <1>0, <1>own DEF Alone, Holds, Course, Before
<1>3. CASE AssignThread(r)
  <2>1. /\ caller[r] = "created" /\ caller'[r] \in {"detaching", "joining"}
        /\ tid' = tid /\ api' = api
    BY <1>0, <1>3 DEF AssignThread, Goes, systemVars
  <2>2. QED
    BY <1>0, <1>own, <2>1 DEF Alone, Holds, Past
<1>4. CASE Detach(r)
  <2>1. /\ caller[r] = "detaching" /\ caller'[r] = "returned" /\ api' = api
        /\ thread' = thread /\ api[r].m_cbfunc
    BY <1>0, <1>4 DEF Detach, Goes, Course
  <2>2. Holds(r) /\ tid[m].joiner = None
    BY <2>1 DEF Alone, Holds
  <2>3. tid' = [tid EXCEPT ![m] = IF thread[r] = "over" THEN FreeThread
                                  ELSE [tid[m] EXCEPT !.detached = TRUE]]
    BY <1>4, <1>own, <2>2 DEF Detach
  <2>4. thread[r] # "over" => tid'[m].owner = r /\ tid'[m].joiner = None /\ tid'[m].detached
    BY <1>0, <1>own, <2>2, <2>3 DEF Tids
  <2>5. QED
    BY <1>0, <1>own, <2>1, <2>2, <2>4 DEF Alone, Holds, Past
<1>5. CASE JoinFails(r) \/ JoinReturns(r)
  <2>1. CASE caller[r] = "joining"
    <3>1. JoinReturns(r) /\ thread[r] = "over"
      BY <1>0, <1>5, <2>1 DEF JoinFails, JoinReturns, Alone, Holds
    <3>2. caller'[r] = "joined" /\ thread'[r] = "over"
      BY <1>0, <2>1, <3>1 DEF JoinReturns, AfterJoin
    <3>3. QED
      BY <3>2 DEF Alone, Holds, Past
  <2>2. CASE caller[r] = "rejoining"
    <3>1. caller'[r] = "deleting" /\ thread'[r] = "over"
      BY <1>0, <1>5, <2>2 DEF JoinFails, JoinReturns, AfterJoin, Past
    <3>2. QED
      BY <3>1 DEF Alone, Holds, Past
  <2>3. QED
    BY <1>5, <2>1, <2>2 DEF JoinFails, JoinReturns, JoinState
<1>6. CASE JoinWaits(r)
  <2>1. caller' = caller /\ thread' = thread /\ api' = api
        /\ tid' = [tid EXCEPT ![m] = [tid[m] EXCEPT !.joiner = r]]
    BY <1>6 DEF JoinWaits, callVars
  <2>2. CASE caller[r] = "joining"
    <3>1. Holds(r) /\ ~tid[m].detached
      BY <2>2 DEF Alone, Holds
    <3>2. tid'[m].owner = r /\ tid'[m].joiner = r /\ ~tid'[m].detached
      BY <1>0, <1>own, <2>1, <3>1 DEF Tids
    <3>3. QED
      BY <1>own, <2>1, <2>2, <3>1, <3>2 DEF Alone, Holds, Past
  <2>3. CASE caller[r] = "rejoining"
    BY <2>1, <2>3 DEF Alone, Holds, Past
  <2>4. QED
    BY <1>6, <2>2, <2>3 DEF JoinWaits, JoinState
<1>7. CASE CloseSocket(r) \/ DeleteApi(r)
  <2>1. /\ caller[r] \in {"joined", "deleting"} /\ thread' = thread
        /\ caller'[r] \in {"rejoining", "joined", "returned"}
    BY <1>0, <1>7 DEF CloseSocket, DeleteApi, Goes
  <2>2. thread'[r] = "over"
    BY <2>1 DEF Past
  <2>3. QED
    BY <2>1, <2>2 DEF Alone, Holds, Past
<1>8. QED
  BY <1>1, <1>2, <1>3, <1>4, <1>5, <1>6, <1>7 DEF Caller

(* The request's own thread gives its identity back only at its end, when  *)
(* it has been detached and nothing waits for it any more.                 *)
LEMMA AloneRun ==
  ASSUME TypeOK, CourseInv, NEW r \in Requests, Run(r), Alone(r), Past(r)
  PROVE  Alone(r)' /\ Past(r)'
<1>0. /\ tid \in [Pthreads -> Tids] /\ caller' = caller
      /\ thread[r] \notin {"none", "over"}
      /\ \A x \in Requests : api'[x].m_thread = api[x].m_thread
      /\ api'[r].m_cbfunc = api[r].m_cbfunc
  BY Types, ThreadSteps DEF Other, NoSocket, Opens, GoesOn, RunEnds, Deletes, InRun
<1>1. Past(r)'
  BY <1>0 DEF Past
<1>2. CASE tid' = tid
  BY <1>0, <1>1, <1>2 DEF Alone, Holds
<1>3. CASE tid' # tid
  <2>1. thread'[r] = "over" /\ tid[api[r].m_thread].detached
    BY <1>3, ThreadSteps DEF NoSocket, Opens, GoesOn, RunEnds, Deletes
  <2>2. ~Holds(r)'
    BY <1>0, <2>1 DEF Alone, Holds
  <2>3. QED
    BY <1>1, <2>2 DEF Alone
<1>4. QED
  BY <1>2, <1>3

(* close takes descriptors and gives none.                                 *)
LEMMA ClosedOnly ==
  ASSUME TypeOK, NEW s, Closed(s), NEW t \in Sockets
  PROVE  fd'[t] = None \/ (fd'[t] = fd[t] /\ t # s)
<1>1. fd \in [Sockets -> Requests \cup {None}]
  BY Types
<1>2. CASE s \in Sockets /\ fd[s] # None
  BY <1>1, <1>2 DEF Closed
<1>3. CASE ~(s \in Sockets /\ fd[s] # None)
  BY <1>3 DEF Closed
<1>4. QED
  BY <1>2, <1>3

(* A descriptor that a request has is in its object, and the object's end, *)
(* which closes it, is still to come: for what its call does,              *)
LEMMA SocketInCaller ==
  ASSUME TypeOK, ItoaInv, CourseInv, Next, NEW r \in Requests, Caller(r),
         NEW q \in Requests, SocketIn(q)
  PROVE  SocketIn(q)'
<1> SUFFICES ASSUME NEW s \in Sockets, fd'[s] = q
             PROVE  /\ api'[q].m_sock = s
                    /\ IF api'[q].m_cbfunc THEN thread'[q] # "over"
                       ELSE caller'[q] \in {"created", "joining", "joined"}
  BY DEF SocketIn
<1>0. /\ caller \in [Requests -> Callers] /\ Unset \notin Sockets /\ None \notin Requests
  BY Types, SocketsAssumption, NoneAssumption DEF Unset
<1>1. fd[s] = q
  <2>1. CASE CloseSocket(r)
    <3>1. PICK t : Closed(t)
      BY <2>1 DEF CloseSocket
    <3>2. QED
      BY <1>0, <3>1, ClosedOnly
  <2>2. CASE ~CloseSocket(r)
    BY <2>2 DEF Caller, Call, itoa, BuildHeader, CreateThread, AssignThread, Detach, JoinFails,
                JoinWaits, JoinReturns, DeleteApi, systemVars
  <2>3. QED
    BY <2>1, <2>2
<1>2. /\ api[q].m_sock = s
      /\ IF api[q].m_cbfunc THEN thread[q] # "over"
         ELSE caller[q] \in {"created", "joining", "joined"}
  BY <1>1 DEF SocketIn
<1>3. CASE q # r
  BY <1>2, <1>3, CallerFrame
<1>4. CASE q = r
  <2>1. thread[r] \notin {"none", "begun"} /\ ~Before(r)
    BY <1>0, <1>2, <1>4 DEF CourseInv, Course
  <2>2. ~Call(r) /\ ~CreateThread(r) /\ ~itoa(r) /\ ~BuildHeader(r)
    BY <2>1 DEF Call, CreateThread, itoa, BuildHeader, Goes, Before
  <2>3. /\ api'[r].m_cbfunc = api[r].m_cbfunc /\ thread'[r] = thread[r]
        /\ api'[r].m_sock = api[r].m_sock
    BY <2>2, CallerFrame
  <2>4. ~CloseSocket(r)
    <3>1. SUFFICES ASSUME CloseSocket(r) PROVE FALSE
      OBVIOUS
    <3>2. Closed(s)
      BY <1>0, <1>2, <1>4, <3>1 DEF CloseSocket
    <3>3. QED
      BY <1>0, <3>2, ClosedOnly
  <2>5. ~api[r].m_cbfunc => caller'[r] \in {"created", "joining", "joined"}
    BY <1>0, <1>2, <1>4, <2>2, <2>4 DEF Caller, AssignThread, Detach, JoinFails, JoinWaits,
       JoinReturns, DeleteApi, Goes, JoinState, AfterJoin, callVars
  <2>6. QED
    BY <1>2, <1>4, <2>3, <2>5
<1>5. QED
  BY <1>3, <1>4

(* and for what its thread does: the call of a synchronous request waits,  *)
(* or its pthread_t is another's too.                                      *)
LEMMA SocketInRun ==
  ASSUME TypeOK, CourseInv, NEW r \in Requests, Run(r), NEW q \in Requests,
         Alone(q), Past(q), SocketIn(q)
  PROVE  SocketIn(q)'
<1> SUFFICES ASSUME NEW s \in Sockets, fd'[s] = q
             PROVE  /\ api'[q].m_sock = s
                    /\ IF api'[q].m_cbfunc THEN thread'[q] # "over"
                       ELSE caller'[q] \in {"created", "joining", "joined"}
  BY DEF SocketIn
<1>0. /\ fd \in [Sockets -> Requests \cup {None}] /\ caller \in [Requests -> Callers]
      /\ Unset \notin Sockets /\ None \notin Requests
      /\ caller' = caller /\ Other(r) /\ api'[r].m_cbfunc = api[r].m_cbfunc
      /\ Course(q)
  BY Types, ThreadSteps, SocketsAssumption, NoneAssumption DEF Unset, CourseInv
<1>1. ASSUME fd[s] = q
      PROVE  /\ api[q].m_sock = s
             /\ IF api[q].m_cbfunc THEN thread[q] # "over"
                ELSE caller[q] \in {"created", "joining", "joined"}
  BY <1>1 DEF SocketIn
<1>2. CASE q # r
  <2>1. fd[s] = q
    <3>1. CASE Opens(r)
      BY <1>0, <1>2, <3>1 DEF Opens
    <3>2. CASE Deletes(r)
      BY <1>0, <3>2, ClosedOnly DEF Deletes
    <3>3. CASE ~Opens(r) /\ ~Deletes(r)
      BY <3>3, ThreadSteps DEF NoSocket, GoesOn, RunEnds
    <3>4. QED
      BY <3>1, <3>2, <3>3
  <2>2. QED
    BY <1>0, <1>1, <1>2, <2>1 DEF Other
<1>3. CASE q = r
  <2>1. CASE NoSocket(r)
    <3>1. thread[r] = "begun" /\ fd[s] = r
      BY <1>3, <2>1 DEF NoSocket
    <3>2. QED
      BY <1>0, <1>1, <1>3, <3>1 DEF Course
  <2>2. CASE Opens(r)
    <3>1. thread[r] = "begun" /\ thread'[r] = "opened"
          /\ fd' = [fd EXCEPT ![api'[r].m_sock] = r]
      BY <2>2 DEF Opens
    <3>2. fd[s] # r
      BY <1>0, <1>1, <1>3, <3>1 DEF Course
    <3>3. api'[r].m_sock = s
      BY <1>0, <1>3, <3>1, <3>2
    <3>4. ~api[r].m_cbfunc => caller[r] \in {"created", "joining"}
      BY <1>0, <1>3, <3>1 DEF Course, Alone, Past, Holds, Before, Callers
    <3>5. QED
      BY <1>0, <1>3, <3>1, <3>3, <3>4
  <2>3. CASE GoesOn(r) \/ RunEnds(r)
    <3>1. /\ fd' = fd /\ api'[r].m_sock = api[r].m_sock
          /\ api[r].m_cbfunc => thread'[r] # "over"
      BY <2>3 DEF GoesOn, RunEnds, SameObject, InRun, End
    <3>2. QED
      BY <1>0, <1>1, <1>3, <3>1
  <2>4. CASE Deletes(r)
    <3>1. fd[s] = r /\ s # api[r].m_sock
      BY <1>0, <1>3, <2>4, ClosedOnly DEF Deletes
    <3>2. QED
      BY <1>1, <1>3, <3>1
  <2>5. QED
    BY <2>1, <2>2, <2>3, <2>4, ThreadSteps
<1>4. QED
  BY <1>2, <1>3

(* Every step keeps what a request has to itself.                          *)
LEMMA FreshStep ==
  ASSUME TypeOK, ItoaInv, CourseInv, OwnerInv, FreshInv, [Next]_vars PROVE FreshInv'
<1> SUFFICES ASSUME NEW q \in Requests \ reused' PROVE Alone(q)' /\ Past(q)' /\ SocketIn(q)'
  BY DEF FreshInv
<1>0. Alone(q) /\ Past(q) /\ SocketIn(q)
  BY ReusedGrows DEF FreshInv
<1>1. ASSUME NEW r \in Requests, Next, Caller(r) PROVE Alone(q)' /\ Past(q)' /\ SocketIn(q)'
  <2>1. SocketIn(q)'
    BY <1>0, <1>1, SocketInCaller
  <2>2. CASE q = r
    BY <1>0, <1>1, <2>1, <2>2, AloneCaller
  <2>3. CASE q # r
    <3>1. Past(q)'
      BY <1>0, <1>1, <2>3, CallerFrame DEF Past
    <3>2. Alone(q)'
      BY <1>0, <1>1, <2>3, AloneOther
    <3>3. QED
      BY <2>1, <3>1, <3>2
  <2>4. QED
    BY <2>2, <2>3
<1>2. ASSUME NEW r \in Requests, Next, Run(r) PROVE Alone(q)' /\ Past(q)' /\ SocketIn(q)'
  <2>1. SocketIn(q)'
    BY <1>0, <1>2, SocketInRun
  <2>2. CASE q = r
    BY <1>0, <1>2, <2>1, <2>2, AloneRun
  <2>3. CASE q # r
    <3>1. Past(q)'
      BY <1>0, <1>2, <2>3, ThreadSteps DEF Past, Other
    <3>2. Alone(q)'
      BY <1>0, <1>2, <2>3, AloneOther
    <3>3. QED
      BY <2>1, <3>1, <3>2
  <2>4. QED
    BY <2>2, <2>3
<1>3. ASSUME UNCHANGED <<caller, thread, api, tid, fd>>
      PROVE  Alone(q)' /\ Past(q)' /\ SocketIn(q)'
  BY <1>0, <1>3 DEF Alone, Holds, Past, SocketIn
<1>4. ASSUME NEW c \in Requests, Server(c) PROVE UNCHANGED <<caller, thread, api, tid, fd>>
  BY <1>4 DEF Server, callVars
<1>5. ASSUME Fault \/ UNCHANGED vars PROVE UNCHANGED <<caller, thread, api, tid, fd>>
  BY <1>5 DEF Fault, vars, callVars, systemVars
<1>6. QED
  BY <1>1, <1>2, <1>3, <1>4, <1>5 DEF Next

-----------------------------------------------------------------------------
(* Who uses an object that has been deleted: one of the three of UsedAlive.*)
LEMMA MisusedStep ==
  ASSUME TypeOK, ItoaInv, CourseInv, FreshInv, DeletedInv, MisusedInv, UsedAlive, [Next]_vars
  PROVE  MisusedInv' /\ UsedAlive'
<1> DEFINE Excused(r) == api[r].m_cbfunc \/ result[r] = "fcntl" \/ r \in reused
<1>1. ASSUME NEW r \in Requests, ~Before(r)
      PROVE  ~Before(r)' /\ (Excused(r) => Excused(r)')
  <2>0. Course(r) /\ thread[r] # "none"
    BY <1>1 DEF CourseInv, Course
  <2>1. ASSUME NEW q \in Requests, Next, Caller(q)
        PROVE  thread'[r] # "none" /\ api'[r].m_cbfunc = api[r].m_cbfunc
    <3>1. ~Call(r)
      BY <1>1 DEF Call, Goes, Before
    <3>2. QED
      BY <2>0, <2>1, <3>1, CallerFrame
  <2>2. ASSUME NEW q \in Requests, Run(q)
        PROVE  thread'[r] # "none" /\ api'[r].m_cbfunc = api[r].m_cbfunc
    <3>1. CASE q = r
      BY <2>2, <3>1, ThreadSteps DEF NoSocket, Opens, GoesOn, RunEnds, Deletes, InRun, End
    <3>2. CASE q # r
      BY <2>0, <2>2, <3>2, ThreadSteps DEF Other
    <3>3. QED
      BY <3>1, <3>2
  <2>3. ASSUME NEW q \in Requests, Server(q) PROVE UNCHANGED <<thread, api>>
    BY <2>3 DEF Server
  <2>4. thread'[r] # "none" /\ api'[r].m_cbfunc = api[r].m_cbfunc
    BY <2>0, <2>1, <2>2, <2>3 DEF Next, Fault, vars
  <2>5. ~Before(r)'
    BY <2>4, CourseStep DEF CourseInv, Course
  <2>6. result[r] = "fcntl" => result'[r] = "fcntl"
    BY ResultKept
  <2>7. reused \subseteq reused'
    BY ReusedGrows
  <2>8. QED
    BY <2>4, <2>5, <2>6, <2>7
<1>2. ASSUME NEW r \in misused', r \notin misused
      PROVE  r \in Requests /\ ~Before(r) /\ Excused(r)
  <2>1. ASSUME NEW q \in Requests, Next, Caller(q)
        PROVE  /\ r = q /\ api[r].deleted
               /\ caller[r] \in {"created", "detaching", "joined"}
    BY <1>2, <2>1 DEF Caller, Call, itoa, BuildHeader, CreateThread, AssignThread, Detach,
                      JoinFails, JoinWaits, JoinReturns, CloseSocket, DeleteApi, Goes, Touch
  <2>2. ASSUME NEW q \in Requests, Run(q)
        PROVE  r = q /\ api[r].deleted /\ thread[r] \notin {"none", "over"}
    BY <1>2, <2>2, ThreadSteps DEF Touch, NoSocket, Opens, GoesOn, RunEnds, Deletes, InRun
  <2>3. ASSUME NEW q \in Requests, Server(q) PROVE misused' = misused
    BY <2>3 DEF Server
  <2>4. ASSUME Fault \/ UNCHANGED vars PROVE misused' = misused
    BY <2>4 DEF Fault, vars
  <2>5. \/ \E q \in Requests : Next /\ Caller(q)
        \/ \E q \in Requests : Run(q)
    BY <1>2, <2>3, <2>4 DEF Next
  <2>6. r \in Requests /\ api[r].deleted
    BY <2>1, <2>2, <2>5
  <2>7. ~Before(r)
    BY <2>6 DEF CourseInv, Course
  <2>8. SUFFICES ASSUME ~api[r].m_cbfunc, result[r] # "fcntl", r \notin reused PROVE FALSE
    BY <2>6, <2>7
  <2>9. caller[r] = "returned"
    BY <2>6, <2>8 DEF DeletedInv
  <2>10. thread[r] = "over"
    BY <2>6, <2>8, <2>9 DEF FreshInv, Alone, Holds
  <2>11. QED
    BY <2>1, <2>2, <2>5, <2>9, <2>10
<1>3. ASSUME NEW r \in misused' PROVE r \in Requests /\ ~Before(r) /\ Excused(r)
  <2>1. CASE r \in misused
    BY <2>1, Types DEF MisusedInv, UsedAlive
  <2>2. CASE r \notin misused
    BY <1>2, <2>2
  <2>3. QED
    BY <2>1, <2>2
<1>4. ASSUME NEW r \in misused' PROVE ~Before(r)' /\ Excused(r)'
  BY <1>1, <1>3
<1>5. QED
  BY <1>4 DEF MisusedInv, UsedAlive

-----------------------------------------------------------------------------
(* The invariant is inductive.                                             *)
LEMMA IInvStep == ASSUME IInv, [Next]_vars PROVE IInv'
<1>0. /\ TypeOK /\ CourseInv /\ ItoaInv /\ AnswerInv /\ SoundInv
      /\ OwnerInv /\ FreshInv /\ DeletedInv /\ MisusedInv /\ UsedAlive
  BY DEF IInv
<1>1. TypeOK' /\ CourseInv' /\ ItoaInv' /\ AnswerInv'
  BY <1>0, TypeStep, CourseStep, ItoaStep, AnswerStep
<1>2. OwnerInv' /\ FreshInv' /\ DeletedInv' /\ MisusedInv' /\ UsedAlive'
  BY <1>0, OwnerStep, FreshStep, DeletedStep, MisusedStep
<1>3. SoundInv'
  <2> SUFFICES ASSUME Sound'
               PROVE  (\A r \in Requests : Identity(r) /\ Outcome(r) /\ Sent(r))' /\ SocketInv'
    BY DEF SoundInv
  <2>1. Sound
    BY <1>0, SoundBack
  <2>2. (\A r \in Requests : Identity(r) /\ Outcome(r) /\ Sent(r)) /\ SocketInv
    BY <1>0, <2>1 DEF SoundInv
  <2>3. \A r \in Requests : Identity(r)'
    BY <1>0, <2>1, <2>2, IdentityStep
  <2>4. \A r \in Requests : Outcome(r)'
    BY <1>0, <2>1, <2>2, OutcomeStep
  <2>5. \A r \in Requests : Sent(r)'
    BY <1>0, <2>2, SentStep
  <2>6. SocketInv'
    BY <1>0, <2>1, <2>2, SocketStep
  <2>7. QED
    BY <2>3, <2>4, <2>5, <2>6
<1>4. QED
  BY <1>1, <1>2, <1>3 DEF IInv

(* The invariant holds in every state of WebApi.                           *)
LEMMA Invariance == Spec => []IInv
<1>1. Init => IInv
  BY InitIInv
<1>2. IInv /\ [Next]_vars => IInv'
  BY IInvStep
<1>3. QED
  BY <1>1, <1>2, PTL DEF Spec

(* Every variable keeps its type: among others a text is sent and an       *)
(* answer taken within their lengths, and itoa writes as many digits as it *)
(* has (webservice.cpp:393, 499, 627-637).                                *)
THEOREM Typing == Spec => []TypeOK
<1>1. IInv => TypeOK
  BY DEF IInv
<1>2. QED
  BY <1>1, Invariance, PTL

(* A deleted WebApi is used by nobody but the call of an asynchronous      *)
(* request, between the creation of its thread and detach; a call whose    *)
(* status is RET_FCNTL_FAIL, which deletes it twice; and a request whose   *)
(* pthread_t another unfinished call held (webservice.cpp:668 against      *)
(* 676-683; 250-263; thread.h:99).                                         *)
THEOREM UsedWhileAlive == Spec => []UsedAlive
<1>1. IInv => UsedAlive
  BY DEF IInv
<1>2. QED
  BY <1>1, Invariance, PTL

(* The server gets a prefix of each text that is sent in one or two parts, *)
(* and the length in its header is its own, whoever else is in itoa        *)
(* (webservice.cpp:629, 393, 499).                                         *)
THEOREM TextsAreSentWhole == Spec => []SentWhole
<1>1. ASSUME IInv PROVE SentWhole
  <2>1. \A r \in Requests : \/ conn[r].got = SubSeq(Text(r), 1, Len(conn[r].got))
                            \/ conn[r].parts > 2 \/ ~Sound
    BY <1>1 DEF IInv, SoundInv, Sent, Prefix
  <2>2. \A r \in Requests : caller[r] \notin {"idle", "itoa"} => itoaPos[r] = Digits[r]
    BY <1>1 DEF IInv, ItoaInv
  <2>3. QED
    BY <2>1, <2>2 DEF SentWhole
<1>2. QED
  BY <1>1, Invariance, PTL

(* A request whose call has returned and whose thread is over has closed   *)
(* its descriptor, by ~WebApi, whatever status it ended with and whatever  *)
(* became of the others, unless its thread was given a pthread_t that an   *)
(* unfinished call still held (webservice.cpp:45-52, 664-669; thread.h:99).*)
THEOREM NothingIsLeftOpen == Spec => []NoLeak
<1>1. ASSUME IInv PROVE NoLeak
  <2> SUFFICES ASSUME NEW s \in Sockets, NEW r \in Requests, fd[s] = r,
                      caller[r] = "returned", thread[r] = "over", r \notin reused
               PROVE  FALSE
    BY <1>1 DEF NoLeak, IInv, TypeOK
  <2>1. SocketIn(r)
    BY <1>1 DEF IInv, FreshInv
  <2>2. QED
    BY <2>1 DEF SocketIn
<1>2. QED
  BY <1>1, Invariance, PTL

(* A descriptor is taken from a request only by its own object's end, when *)
(* its thread has stopped using it (~WebApi, webservice.cpp:48).           *)
THEOREM DescriptorsAreOwn == Spec => OwnDescriptor
<1> DEFINE Keeps == \A s \in Sockets : fd[s] # None /\ fd'[s] # fd[s]
                                         => thread'[fd[s]] = "over" \/ ~Sound
<1>1. ASSUME IInv, [Next]_vars PROVE Keeps
  <2> SUFFICES ASSUME Sound, NEW s \in Sockets, fd[s] # None, fd'[s] # fd[s]
               PROVE  thread'[fd[s]] = "over"
    OBVIOUS
  <2>0. /\ TypeOK /\ CourseInv /\ ItoaInv /\ SocketInv
        /\ \A r \in Requests : Identity(r) /\ Course(r)
        /\ fd \in [Sockets -> Requests \cup {None}]
    BY <1>1, Types DEF IInv, SoundInv, CourseInv
  <2>1. ASSUME NEW r \in Requests, Next, Caller(r) PROVE thread'[fd[s]] = "over"
    <3>1. CloseSocket(r)
      BY <2>1 DEF Caller, Call, itoa, BuildHeader, CreateThread, AssignThread, Detach,
                  JoinFails, JoinWaits, JoinReturns, DeleteApi, systemVars
    <3>2. /\ Closed(api[r].m_sock) /\ thread[r] = "over" /\ thread' = thread
          /\ \A t \in Sockets : api[r].m_sock = t => fd[t] = r
      BY <2>0, <3>1, OwnCloseSocket DEF CloseSocket
    <3>3. s = api[r].m_sock
      BY <2>0, <3>2, ClosedDescriptor
    <3>4. QED
      BY <3>2, <3>3
  <2>2. ASSUME NEW r \in Requests, Run(r) PROVE thread'[fd[s]] = "over"
    <3>1. Opens(r) \/ Deletes(r)
      BY <2>0, <2>2, ThreadSteps DEF NoSocket, GoesOn, RunEnds
    <3>2. ~Opens(r)
      BY <2>0 DEF Opens
    <3>3. /\ Closed(api[r].m_sock) /\ thread'[r] = "over"
          /\ \A t \in Sockets : api[r].m_sock = t => fd[t] = r
      BY <2>0, <3>1, <3>2, OwnClose DEF Deletes
    <3>4. s = api[r].m_sock
      BY <2>0, <3>3, ClosedDescriptor
    <3>5. QED
      BY <3>3, <3>4
  <2>3. ASSUME NEW r \in Requests, Server(r) PROVE FALSE
    BY <2>3 DEF Server
  <2>4. QED
    BY <1>1, <2>1, <2>2, <2>3 DEF Next, Fault, vars, systemVars
<1>2. QED
  BY <1>1, Invariance, PTL DEF Spec, OwnDescriptor

(* What a call is to its caller: nothing before it is made, then pending   *)
(* until it takes the status.                                              *)
Result(r) == IF caller[r] = "idle" THEN "none"
             ELSE CASE result[r] = "success" -> "value"
                    [] result[r] = "failure" -> "exception"
                    [] OTHER -> "pending"

(* WebApi implements Request: each of its steps asks, carries out, returns *)
(* or throws once, or changes nothing that the caller or the server knows  *)
(* of; a value is returned only when the server has carried out what was   *)
(* asked for (webservice.cpp:577-684).                                     *)
THEOREM CallsAreRequests == Spec => RequestSpec
<1> DEFINE Outcomes == [r \in Requests |-> Result(r)]
           Processed == {r \in Requests : conn[r].processed}
<1>0. Own!Init <=> /\ Outcomes = [r \in Requests |-> "none"]
                   /\ Processed = {}
                   /\ Sound = TRUE
  BY DEF Own!Init, Result
<1>1. Init => Own!Init
  <2>1. ASSUME Init PROVE Outcomes = [r \in Requests |-> "none"]
    BY <2>1 DEF Init, Result
  <2>2. ASSUME Init PROVE Processed = {}
    BY <2>2 DEF Init, NoData
  <2>3. ASSUME Init PROVE Sound = TRUE
    BY <2>3 DEF Init, Sound
  <2>4. QED
    BY <1>0, <2>1, <2>2, <2>3
<1>2. ASSUME IInv, [Next]_vars PROVE [Own!Next]_(Own!vars)
  <2> SUFFICES ASSUME Sound' PROVE [Own!Next]_(Own!vars)
    BY DEF Own!Next
  <2>0. /\ Sound /\ TypeOK /\ CourseInv /\ ItoaInv
        /\ \A r \in Requests : Course(r) /\ Identity(r) /\ Outcome(r) /\ Sent(r)
    BY <1>2, SoundBack DEF IInv, SoundInv, CourseInv
  <2>1. (Sound' <=> TRUE) /\ (Sound <=> TRUE) /\ Sound' = Sound
    BY <2>0 DEF Sound
  <2>2. ASSUME \A q \in Requests : conn'[q].processed = conn[q].processed
        PROVE  Processed' = Processed
    BY <2>2
  <2>3. ASSUME \A q \in Requests : Result(q)' = Result(q) PROVE Outcomes' = Outcomes
    BY <2>3
  <2>4. ASSUME NEW r \in Requests, NEW x, Result(r)' = x,
               \A q \in Requests \ {r} : Result(q)' = Result(q)
        PROVE  Outcomes' = [Outcomes EXCEPT ![r] = x]
    BY <2>4
  <2>5. \A q \in Requests : Outcomes[q] = Result(q)
    OBVIOUS
  <2>6. Own!vars = <<Outcomes, Processed, Sound>>
    BY DEF Own!vars, Result
  <2>7. \A r \in Requests : \A from, to :
          Own!Ends(r, from, to) <=> /\ Outcomes[r] = from
                                    /\ Outcomes' = [Outcomes EXCEPT ![r] = to]
                                    /\ Processed' = Processed
    BY DEF Own!Ends, Result
  <2>8. \A r \in Requests :
          Own!Process(r) <=> /\ Outcomes[r] # "none" /\ r \notin Processed
                             /\ Processed' = Processed \cup {r}
                             /\ Outcomes' = Outcomes
    BY DEF Own!Process, Result
  <2>9. ASSUME \A q \in Requests : Result(q)' = Result(q),
               \A q \in Requests : conn'[q].processed = conn[q].processed
        PROVE  [Own!Next]_(Own!vars)
    <3>1. Outcomes' = Outcomes /\ Processed' = Processed
      BY <2>2, <2>3, <2>9
    <3>2. UNCHANGED Own!vars
      BY <2>1, <2>6, <3>1 DEF Own!vars, Result
    <3>3. QED
      BY <3>2
  <2>10. ASSUME NEW r \in Requests,
                Own!Ask(r) \/ Own!Process(r) \/ Own!ReturnValue(r) \/ Own!Throw(r)
         PROVE  [Own!Next]_(Own!vars)
    BY <2>1, <2>10 DEF Own!Next
  <2> HIDE DEF Outcomes
  <2>11. ASSUME NEW r \in Requests, Next, Caller(r) PROVE [Own!Next]_(Own!vars)
    <3>0. /\ \A q \in Requests : conn'[q].processed = conn[q].processed
          /\ \A q \in Requests \ {r} : caller'[q] = caller[q] /\ result'[q] = result[q]
          /\ Course(r) /\ Identity(r) /\ Outcome(r)
          /\ caller \in [Requests -> Callers]
          /\ result \in [Requests -> Statuses \cup {"none"}]
      BY <2>0, <2>11, AnswersKept, CallerFrame, Types
    <3>1. \A q \in Requests \ {r} : Result(q)' = Result(q)
      BY <3>0 DEF Result
    <3>2. CASE Call(r)
      <4>1. caller[r] = "idle" /\ caller'[r] # "idle" /\ result'[r] = result[r]
        BY <3>0, <3>2 DEF Call, Goes
      <4>2. Result(r) = "none" /\ Result(r)' = "pending"
        BY <3>0, <4>1 DEF Result, Outcome
      <4>3. Outcomes[r] = "none" /\ Outcomes' = [Outcomes EXCEPT ![r] = "pending"]
        BY <2>4, <2>5, <3>1, <4>2
      <4>4. Own!Ask(r)
        BY <2>2, <2>7, <3>0, <4>3 DEF Own!Ask
      <4>5. QED
        BY <2>10, <4>4
    <3>3. CASE CloseSocket(r) /\ result[r] = "none"
      <4>1. caller[r] = "joined" /\ caller'[r] = "rejoining" /\ thread[r] = "over"
        BY <3>0, <3>3 DEF CloseSocket, Goes, Identity
      <4>2. result'[r] = api[r].m_status /\ api[r].m_status \in {"success", "failure"}
        <5>1. api[r].m_status \in Statuses
          BY <2>0, <3>0, <4>1, Types DEF Course, Ended, Apis
        <5>2. api[r].m_status # "unset" /\ api[r].m_status # "fcntl"
          BY <2>0, <5>1 DEF Sound, Statuses
        <5>3. QED
          BY <3>0, <3>3, <5>1, <5>2 DEF CloseSocket, Statuses
      <4>3. Result(r) = "pending"
        BY <3>3, <4>1 DEF Result
      <4>4. Outcomes[r] = "pending"
        BY <2>5, <4>3
      <4>5. CASE api[r].m_status = "success"
        <5>1. Result(r)' = "value"
          BY <4>1, <4>2, <4>5 DEF Result
        <5>2. Outcomes' = [Outcomes EXCEPT ![r] = "value"]
          BY <2>4, <3>1, <5>1
        <5>3. r \in Processed
          BY <3>0, <4>5 DEF Outcome
        <5>4. Own!ReturnValue(r)
          BY <2>2, <2>7, <3>0, <4>4, <5>2, <5>3 DEF Own!ReturnValue
        <5>5. QED
          BY <2>10, <5>4
      <4>6. CASE api[r].m_status = "failure"
        <5>1. Result(r)' = "exception"
          BY <4>1, <4>2, <4>6 DEF Result
        <5>2. Outcomes' = [Outcomes EXCEPT ![r] = "exception"]
          BY <2>4, <3>1, <5>1
        <5>3. Own!Throw(r)
          BY <2>2, <2>7, <3>0, <4>4, <5>2 DEF Own!Throw
        <5>4. QED
          BY <2>10, <5>3
      <4>7. QED
        BY <4>2, <4>5, <4>6
    <3>4. CASE ~Call(r) /\ ~(CloseSocket(r) /\ result[r] = "none")
      <4>1. /\ caller[r] # "idle" /\ caller'[r] # "idle" /\ result'[r] = result[r]
        BY <2>11, <3>0, <3>4 DEF Caller, itoa, BuildHeader, CreateThread, AssignThread, Detach,
             JoinFails, JoinWaits, JoinReturns, CloseSocket, DeleteApi, Goes, JoinState,
             AfterJoin, callVars
      <4>2. Result(r)' = Result(r)
        BY <4>1 DEF Result
      <4>3. QED
        BY <2>9, <3>0, <3>1, <4>2
    <3>5. QED
      BY <3>2, <3>3, <3>4
  <2>12. ASSUME NEW r \in Requests, Run(r) PROVE [Own!Next]_(Own!vars)
    <3>1. caller' = caller /\ result' = result
      BY <2>0, <2>12, ThreadSteps
    <3>2. \A q \in Requests : conn'[q].processed = conn[q].processed
      BY <2>0, <2>12, AnswersKept
    <3>3. QED
      BY <2>9, <3>1, <3>2 DEF Result
  <2>13. ASSUME NEW r \in Requests, Server(r) PROVE [Own!Next]_(Own!vars)
    <3>1. /\ caller' = caller /\ result' = result
          /\ \A q \in Requests \ {r} : conn'[q] = conn[q]
          /\ \/ conn[r].got = Text(r) /\ conn'[r].processed
             \/ conn'[r].processed = conn[r].processed
      BY <2>0, <2>13, ServerSteps DEF callVars
    <3>2. \A q \in Requests : Result(q)' = Result(q)
      BY <3>1 DEF Result
    <3>3. CASE ~conn[r].processed /\ conn[r].got = Text(r) /\ conn'[r].processed
      <4>1. caller[r] # "idle"
        BY <2>0, <3>3, TextTyped DEF Sent, Course, Before
      <4>2. result[r] \in Statuses \cup {"none"}
        BY <2>0, Types
      <4>3. Outcomes[r] # "none"
        BY <2>5, <4>1 DEF Result
      <4>4. Processed' = Processed \cup {r}
        BY <3>1, <3>3
      <4>5. Own!Process(r)
        BY <2>3, <2>8, <3>2, <3>3, <4>3, <4>4
      <4>6. QED
        BY <2>10, <4>5
    <3>4. CASE conn'[r].processed = conn[r].processed
      BY <2>9, <3>1, <3>2, <3>4
    <3>5. QED
      <4>1. conn[r].processed \in BOOLEAN /\ conn'[r].processed \in BOOLEAN
        BY <2>0, <2>13, ServerSteps, Types DEF Conns
      <4>2. QED
        BY <3>1, <3>3, <3>4, <4>1
  <2>14. ASSUME Fault \/ UNCHANGED vars PROVE [Own!Next]_(Own!vars)
    BY <2>9, <2>14 DEF Fault, vars, callVars, systemVars, Result
  <2>15. QED
    BY <1>2, <2>11, <2>12, <2>13, <2>14 DEF Next
<1>3. QED
  BY <1>1, <1>2, Invariance, PTL DEF Spec, RequestSpec, Own!Spec
=============================================================================
