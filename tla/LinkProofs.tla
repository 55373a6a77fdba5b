----------------------------- MODULE LinkProofs -----------------------------
(***************************************************************************)
(* Proofs about the link, for every time-out of the watchdog and of the    *)
(* driver, as long as answers are not late and the status of the watchdog  *)
(* starts as FALSE.                                                        *)
(***************************************************************************)
EXTENDS Link, TLAPS

-----------------------------------------------------------------------------
(***************************************************************************)
(* Queues of at most one datagram.                                         *)
(***************************************************************************)
LEMMA EmptyConcat ==
    ASSUME NEW S, NEW s \in Seq(S), NEW t \in Seq(S), s \o t = <<>>
    PROVE  s = <<>> /\ t = <<>>
<1>1. Len(s \o t) = Len(s) + Len(t) /\ Len(s) \in Nat /\ Len(t) \in Nat
  OBVIOUS
<1>2. Len(s) = 0 /\ Len(t) = 0
  BY <1>1
<1> QED
  BY <1>2

LEMMA RemoveOnly ==
    ASSUME NEW d, NEW i \in DOMAIN <<d>>
    PROVE  RemoveAt(<<d>>, i) = <<>>
<1>1. i = 1
  OBVIOUS
<1>2. SubSeq(<<d>>, 1, 0) = <<>> /\ SubSeq(<<d>>, 2, 1) = <<>>
  OBVIOUS
<1> QED
  BY <1>1, <1>2 DEF RemoveAt

LEMMA OnlyOne ==
    ASSUME NEW d \in Datagram
    PROVE  /\ <<d>> # <<>> /\ Head(<<d>>) = d /\ Tail(<<d>>) = <<>>
           /\ Append(<<>>, d) = <<d>> /\ <<d>> \in Seq(Datagram)
  OBVIOUS

LEMMA EmptySeq == <<>> \in Seq(Datagram)
  OBVIOUS

LEMMA AgedEmpty == Aged(<<>>) = <<>>
  BY DEF Aged

-----------------------------------------------------------------------------
(***************************************************************************)
(* The inductive invariant.                                                *)
(***************************************************************************)
(* Nothing is under way, or the request of this transfer or its answer.    *)
Quiet == requests = <<>> /\ replies = <<>> /\ socket = <<>>
UnderWay(d) ==
    \/ requests = <<d>> /\ replies = <<>> /\ socket = <<>>
    \/ requests = <<>> /\ replies = <<d>> /\ socket = <<>>
    \/ requests = <<>> /\ replies = <<>> /\ socket = <<d>>
Queues ==
    \/ Quiet
    \/ pc = "readWait" /\ \E d \in Datagram : d.kind = "data" /\ UnderWay(d)
    \/ pc = "writeWait" /\ \E d \in Datagram : d.kind = "ack" /\ UnderWay(d)

(* The status of the watchdog means recent data.                           *)
Watched ==
    /\ up => noDataCount = silent /\ silent <= DataErrMax
    /\ ~up => silent > DataErrMax

(* Nothing comes while the driver waits in vain.                           *)
Silence ==
    waited > 0 => Quiet /\ ~data /\ (silent >= waited - 1 \/ silent = MaxSilent)

(* The machine moves while the watchdog is fed.                            *)
Moving == command = "move" => up \/ data

(* The command is as old as the last datagram, unless that was a read; then *)
(* the driver sends a write next, or waits.                                *)
SinceFed == IF data THEN 0 ELSE silent + 1
ReadLast ==
    \/ pc = "readWait" /\ requests = <<>>
    \/ pc = "write" /\ status
    \/ pc = "writeWait" /\ replies = <<>> /\ socket = <<>>
Ages ==
    command = "move" =>
        \/ age = SinceFed
        \/ ReadLast /\ age <= DataErrMax + 1 + SinceFed

(* The errors of the driver are the transfers without an answer, and its   *)
(* status has come from data.                                              *)
Errors == errCount = misses /\ (status => header # "none")

IInv == LinkTypeOK /\ Queues /\ Watched /\ Silence /\ Moving /\ Ages /\ Errors

LEMMA Sizes ==
    /\ DataErrMax \in Nat /\ CountMod \in Nat /\ MaxSilent \in Nat
    /\ Timeout \in Nat /\ ErrMax \in Nat
    /\ DataErrMax + 1 < CountMod /\ DataErrMax < MaxSilent
    /\ Timeout > 2 * DataErrMax + 2
  BY LinkAssumption, HostAssumption

LEMMA InitInv == ASSUME PowerUpStatus = {FALSE} PROVE LinkInit => IInv
<1> SUFFICES ASSUME PowerUpStatus = {FALSE}, LinkInit PROVE IInv
  OBVIOUS
<1>1. LinkTypeOK
  <2>1. TypeOK
    <3>1. 0 \in 0..ErrMax + 1
      BY Sizes
    <3> QED
      BY <3>1, EmptySeq DEF LinkInit, Init, TypeOK
  <2>2. Board!CommsTypeOK
    <3>1. 0 \in 0..DataErrMax /\ MaxSilent \in 0..MaxSilent
      BY Sizes
    <3> QED
      BY <3>1 DEF LinkInit, Board!CommsInit, Board!CommsTypeOK
  <2>3. 0 \in 0..Timeout
    BY Sizes
  <2> QED
    BY <2>1, <2>2, <2>3 DEF LinkInit, LinkTypeOK
<1>2. Queues /\ Watched /\ Silence /\ Moving /\ Ages /\ Errors
  BY Sizes DEF LinkInit, Init, Board!CommsInit, Queues, Quiet, Watched, Silence,
     Moving, Ages, Errors
<1> QED
  BY <1>1, <1>2 DEF IInv

-----------------------------------------------------------------------------
(***************************************************************************)
(* What follows from the invariant in one state.                           *)
(***************************************************************************)
(* A moving machine got its command in time.                               *)
LEMMA AgeBound == IInv => CommandFresh
<1> SUFFICES ASSUME IInv, command = "move" PROVE age <= 2 * DataErrMax + 2
  BY DEF CommandFresh
<1>1. silent \in Nat /\ data \in BOOLEAN /\ age \in Nat
  BY Sizes DEF IInv, LinkTypeOK, Board!CommsTypeOK
<1>2. data \/ silent <= DataErrMax
  BY DEF IInv, Moving, Watched
<1>3. SinceFed \in Nat /\ SinceFed <= DataErrMax + 1
  BY <1>1, <1>2, Sizes DEF SinceFed
<1>4. age = SinceFed \/ age <= DataErrMax + 1 + SinceFed
  BY DEF IInv, Ages
<1> QED
  BY <1>1, <1>3, <1>4, Sizes

(* A machine has stopped when the driver's time-out comes.                 *)
LEMMA TimedOutAtRest == IInv /\ waited = Timeout => command = "zero" /\ ~up
<1> SUFFICES ASSUME IInv, waited = Timeout PROVE command = "zero" /\ ~up
  OBVIOUS
<1>1. silent \in Nat /\ up \in BOOLEAN /\ command \in {"zero", "move"}
  BY Sizes DEF IInv, LinkTypeOK, Board!CommsTypeOK
<1>2. ~data /\ (silent >= Timeout - 1 \/ silent = MaxSilent)
  BY Sizes DEF IInv, Silence
<1>3. ~(silent <= DataErrMax)
  BY <1>1, <1>2, Sizes
<1>4. ~up
  BY <1>3 DEF IInv, Watched
<1> QED
  BY <1>1, <1>2, <1>4 DEF IInv, Moving

-----------------------------------------------------------------------------
(***************************************************************************)
(* Every step preserves it.                                                *)
(***************************************************************************)
LEMMA BeginInv == ASSUME IInv, Begin PROVE IInv'
<1> USE DEF IInv, Begin
<1>q. pc = "read" /\ Quiet /\ (command = "move" => age = SinceFed)
  BY DEF ReadSkip, ReadSend, Queues, Ages, ReadLast, LinkTypeOK, TypeOK
<1>s. UNCHANGED boardVars /\ waited' = 0 /\ UNCHANGED cycled
  OBVIOUS
<1>1. CASE ReadSkip
  <2>1. UNCHANGED <<requests, replies, socket, errCount, header, fed, misses, enable,
                    reset, net>>
    BY <1>1 DEF ReadSkip, netVars, pins
  <2>2. LinkTypeOK'
    BY <1>1, <1>s, <2>1, Sizes DEF ReadSkip, LinkTypeOK, TypeOK, boardVars,
       Board!CommsTypeOK
  <2>3. Queues'
    BY <1>q, <2>1 DEF Queues, Quiet
  <2>4. Watched' /\ Moving' /\ Silence'
    BY <1>s DEF Watched, Moving, Silence, boardVars
  <2>5. Ages'
    BY <1>q, <1>s DEF Ages, SinceFed, boardVars
  <2>6. Errors'
    BY <1>1, <2>1 DEF Errors, ReadSkip
  <2> QED
    BY <2>2, <2>3, <2>4, <2>5, <2>6
<1>2. CASE ReadSend
  <2>1. UNCHANGED <<resetOld, status, errCount, header, fed, misses, enable, reset>>
    BY <1>2 DEF ReadSend, pins
  <2>2. pc' = "readWait" /\ Send("data")
    BY <1>2 DEF ReadSend
  <2>3. replies' = <<>> /\ socket' = <<>> /\ net' = net
    BY <1>q, <2>2, AgedEmpty DEF Quiet, Send
  <2>4. PICK d \in Datagram : d.kind = "data" /\ requests' \in {<<>>, <<d>>}
    <3> DEFINE d == [kind |-> "data", old |-> FALSE]
    <3>1. d \in Datagram /\ d.kind = "data"
      BY DEF Datagram, Kinds
    <3>2. requests' \in {<<>>, <<d>>}
      BY <1>q, <2>2, <3>1, AgedEmpty, OnlyOne DEF Quiet, Send
    <3> QED
      BY <3>1, <3>2
  <2>5. Queues'
    BY <2>2, <2>3, <2>4 DEF Queues, Quiet, UnderWay
  <2>6. LinkTypeOK'
    <3>1. requests' \in Seq(Datagram)
      BY <2>4, OnlyOne, EmptySeq
    <3>2. replies' \in Seq(Datagram) /\ socket' \in Seq(Datagram)
      BY <2>3, EmptySeq
    <3> QED
      BY <1>s, <2>1, <2>2, <2>3, <3>1, <3>2, Sizes DEF LinkTypeOK, TypeOK, boardVars,
         Board!CommsTypeOK
  <2>7. Watched' /\ Moving' /\ Silence'
    BY <1>s DEF Watched, Moving, Silence, boardVars
  <2>8. Ages'
    BY <1>q, <1>s DEF Ages, SinceFed, boardVars
  <2>9. Errors'
    BY <2>1 DEF Errors
  <2> QED
    BY <2>5, <2>6, <2>7, <2>8, <2>9
<1> QED
  BY <1>1, <1>2

LEMMA WriteInv == ASSUME IInv, Write PROVE IInv'
<1> USE DEF IInv, Write
<1>q. pc = "write" /\ Quiet
  BY DEF WriteSkip, WriteSend, Queues, LinkTypeOK, TypeOK
<1>s. UNCHANGED boardVars /\ waited' = 0 /\ cycled' \in BOOLEAN
  BY DEF WriteSkip, WriteSend
<1>w. Watched' /\ Moving' /\ Silence'
  BY <1>s DEF Watched, Moving, Silence, boardVars
<1>1. CASE WriteSkip
  <2>1. /\ UNCHANGED <<resetOld, status, errCount, header, fed, misses, enable, reset>>
        /\ UNCHANGED <<requests, replies, socket, net>>
        /\ pc' = "read" /\ ~status
    BY <1>1 DEF WriteSkip, netVars, pins
  <2>2. LinkTypeOK'
    BY <1>s, <2>1, Sizes DEF LinkTypeOK, TypeOK, boardVars, Board!CommsTypeOK
  <2>3. Queues'
    BY <1>q, <2>1 DEF Queues, Quiet
  <2>4. Ages'
    BY <1>q, <1>s, <2>1 DEF Ages, SinceFed, ReadLast, boardVars
  <2>5. Errors'
    BY <2>1 DEF Errors
  <2> QED
    BY <1>w, <2>2, <2>3, <2>4, <2>5
<1>2. CASE WriteSend
  <2>1. UNCHANGED <<resetOld, status, errCount, header, fed, misses, enable, reset>>
    BY <1>2 DEF WriteSend, pins
  <2>2. pc' = "writeWait" /\ Send("ack")
    BY <1>2 DEF WriteSend
  <2>3. replies' = <<>> /\ socket' = <<>> /\ net' = net
    BY <1>q, <2>2, AgedEmpty DEF Quiet, Send
  <2>4. PICK d \in Datagram : d.kind = "ack" /\ requests' \in {<<>>, <<d>>}
    <3> DEFINE d == [kind |-> "ack", old |-> FALSE]
    <3>1. d \in Datagram /\ d.kind = "ack"
      BY DEF Datagram, Kinds
    <3>2. requests' \in {<<>>, <<d>>}
      BY <1>q, <2>2, <3>1, AgedEmpty, OnlyOne DEF Quiet, Send
    <3> QED
      BY <3>1, <3>2
  <2>5. Queues'
    BY <2>2, <2>3, <2>4 DEF Queues, Quiet, UnderWay
  <2>6. LinkTypeOK'
    <3>1. requests' \in Seq(Datagram)
      BY <2>4, OnlyOne, EmptySeq
    <3>2. replies' \in Seq(Datagram) /\ socket' \in Seq(Datagram)
      BY <2>3, EmptySeq
    <3> QED
      BY <1>s, <2>1, <2>2, <2>3, <3>1, <3>2, Sizes DEF LinkTypeOK, TypeOK, boardVars,
         Board!CommsTypeOK
  <2>8. Ages'
    BY <1>q, <1>s, <2>2, <2>3 DEF Ages, SinceFed, ReadLast, boardVars
  <2>9. Errors'
    BY <2>1 DEF Errors
  <2> QED
    BY <1>w, <2>5, <2>6, <2>8, <2>9
<1> QED
  BY <1>1, <1>2

(* The datagram that is taken is the answer to this transfer.              *)
LEMMA TakenIsAnswer ==
    ASSUME IInv, Taken
    PROVE  /\ UNCHANGED <<requests, replies, net>>
           /\ requests = <<>> /\ replies = <<>> /\ socket' = <<>>
           /\ errCount' = 0 /\ misses' = 0
           /\ pc = "readWait" => Head(socket).kind = "data"
           /\ pc = "writeWait" => Head(socket).kind = "ack"
           /\ waited = 0
           /\ command = "move" /\ pc = "writeWait" => age = SinceFed
<1>1. PICK d \in Datagram :
        /\ requests = <<>> /\ replies = <<>> /\ socket = <<d>>
        /\ pc = "readWait" => d.kind = "data"
        /\ pc = "writeWait" => d.kind = "ack"
  BY DEF IInv, Taken, Queues, Quiet, UnderWay
<1>2. socket' = <<>> /\ Head(socket) = d
  BY <1>1, OnlyOne DEF Taken
<1>3. socket # <<>>
  BY DEF Taken
<1>4. ~(waited > 0)
  BY <1>3 DEF IInv, Silence, Quiet
<1>5. waited = 0
  BY <1>4, Sizes DEF IInv, LinkTypeOK
<1>6. command = "move" /\ pc = "writeWait" => age = SinceFed
  BY <1>3 DEF IInv, Ages, ReadLast
<1> QED
  BY <1>1, <1>2, <1>5, <1>6 DEF Taken

LEMMA AnsweredInv == ASSUME IInv, Answered PROVE IInv'
<1> USE DEF IInv
<1>0. Taken /\ pc \in {"readWait", "writeWait"}
  BY DEF Answered, ReadAnswer, WriteAnswer
<1>t. /\ UNCHANGED <<requests, replies, net>>
      /\ requests = <<>> /\ replies = <<>> /\ socket' = <<>>
      /\ errCount' = 0 /\ misses' = 0
      /\ pc = "readWait" => Head(socket).kind = "data"
      /\ pc = "writeWait" => Head(socket).kind = "ack"
      /\ waited = 0
      /\ command = "move" /\ pc = "writeWait" => age = SinceFed
  BY <1>0, TakenIsAnswer
<1>s. UNCHANGED boardVars /\ UNCHANGED waited /\ cycled' \in BOOLEAN
  BY DEF Answered
<1>d. ~Dropped
  BY <1>t, Sizes DEF Dropped
<1>w. Watched' /\ Moving' /\ Silence' /\ Queues'
  BY <1>s, <1>t DEF Watched, Moving, Silence, Queues, Quiet, boardVars
<1>e. 0 \in 0..ErrMax + 1
  BY Sizes
<1>1. CASE ReadAnswer
  <2>1. /\ UNCHANGED <<enable, reset>> /\ pc = "readWait" /\ pc' = "write"
        /\ header' = "data" /\ status' = TRUE /\ resetOld' = reset
        /\ fed' \in {"fresh", "stale", "nothing"}
    BY <1>1, <1>t DEF ReadAnswer, ReadHeader, pins
  <2>2. LinkTypeOK'
    BY <1>s, <1>t, <1>e, <2>1, EmptySeq DEF LinkTypeOK, TypeOK, boardVars,
       Board!CommsTypeOK, Kinds
  <2>3. Ages'
    BY <1>s, <2>1 DEF Ages, SinceFed, ReadLast, boardVars
  <2>4. Errors'
    BY <1>t, <2>1 DEF Errors
  <2> QED
    BY <1>w, <2>2, <2>3, <2>4
<1>2. CASE WriteAnswer
  <2>1. /\ UNCHANGED <<enable, reset, resetOld, fed>> /\ pc = "writeWait" /\ pc' = "read"
        /\ header' = "ack" /\ status' = status
    BY <1>2, <1>t, <1>d DEF WriteAnswer, WriteHeader, pins, Kinds, LinkTypeOK, TypeOK
  <2>2. LinkTypeOK'
    BY <1>s, <1>t, <1>e, <2>1, EmptySeq DEF LinkTypeOK, TypeOK, boardVars,
       Board!CommsTypeOK, Kinds
  <2>3. Ages'
    BY <1>s, <1>t, <2>1 DEF Ages, SinceFed, ReadLast, boardVars
  <2>4. Errors'
    BY <1>t, <2>1 DEF Errors
  <2> QED
    BY <1>w, <2>2, <2>3, <2>4
<1> QED
  BY <1>1, <1>2 DEF Answered

LEMMA TimedOutInv == ASSUME MayBeLate = FALSE, IInv, TimedOut PROVE IInv'
<1> USE DEF IInv
<1>0. GivenUp /\ waited = Timeout /\ pc \in {"readWait", "writeWait"}
  BY DEF TimedOut, ReadTimeout, WriteTimeout
<1>r. command = "zero" /\ ~up
  BY <1>0, TimedOutAtRest
<1>q. Quiet /\ UNCHANGED <<requests, replies, socket, net>>
  <2>1. requests \in Seq(Datagram) /\ replies \in Seq(Datagram)
    BY DEF LinkTypeOK, TypeOK
  <2>2. socket = <<>> /\ InFlight = <<>>
    BY <1>0 DEF GivenUp
  <2>3. requests = <<>> /\ replies = <<>>
    BY <2>1, <2>2, EmptyConcat DEF InFlight
  <2> QED
    BY <1>0, <2>2, <2>3 DEF Quiet, GivenUp, netVars
<1>e. errCount' = misses' /\ errCount' \in 0..ErrMax + 1 /\ misses' \in 0..ErrMax + 1
  <2>1. errCount = misses /\ errCount \in 0..ErrMax + 1
    BY DEF Errors, LinkTypeOK, TypeOK
  <2>2. Saturated(errCount) \in 0..ErrMax + 1
    BY <2>1, Sizes DEF Saturated
  <2> QED
    BY <1>0, <2>1, <2>2 DEF GivenUp
<1>s. UNCHANGED boardVars /\ UNCHANGED waited /\ cycled' \in BOOLEAN
  BY DEF TimedOut
<1>w. Watched' /\ Moving' /\ Silence' /\ Queues'
  BY <1>s, <1>q DEF Watched, Moving, Silence, Queues, Quiet, boardVars
<1>a. Ages'
  BY <1>r, <1>s DEF Ages, boardVars
<1>p. /\ UNCHANGED <<enable, reset, header>>
      /\ pc' \in {"read", "write"} /\ resetOld' \in BOOLEAN /\ status' \in BOOLEAN
      /\ fed' \in {"fresh", "stale", "nothing"}
      /\ status' => header # "none"
  <2>1. header \in {"data", "ack", "none"} /\ status \in BOOLEAN /\ reset \in BOOLEAN
        /\ resetOld \in BOOLEAN /\ fed \in {"fresh", "stale", "nothing"}
    BY DEF LinkTypeOK, TypeOK, Kinds
  <2>2. CASE ReadTimeout
    BY <2>1, <2>2 DEF ReadTimeout, ReadHeader, pins
  <2>3. CASE WriteTimeout
    BY <2>1, <2>3 DEF WriteTimeout, WriteHeader, pins, Kinds
  <2> QED
    BY <2>2, <2>3 DEF TimedOut
<1>2. LinkTypeOK'
  BY <1>s, <1>q, <1>e, <1>p DEF LinkTypeOK, TypeOK, boardVars, Board!CommsTypeOK
<1>3. Errors'
  BY <1>e, <1>p DEF Errors
<1> QED
  BY <1>w, <1>a, <1>2, <1>3

LEMMA RequestInv == ASSUME IInv, Request PROVE IInv'
<1> USE DEF IInv
<1>1. PICK d \in Datagram :
        /\ requests = <<d>> /\ replies = <<>> /\ socket = <<>>
        /\ \/ pc = "readWait" /\ d.kind = "data"
           \/ pc = "writeWait" /\ d.kind = "ack"
  BY DEF Request, Answer, Queues, Quiet, UnderWay
<1>2. requests' = <<>> /\ replies' = <<d>> /\ Head(requests) = d /\ socket' = <<>>
  BY <1>1, OnlyOne DEF Request, Answer
<1>3. UNCHANGED <<net, pc, resetOld, status, errCount, header, fed, misses, enable, reset>>
  BY DEF Request, Answer, hostVars, pins
<1>4. data' = TRUE /\ UNCHANGED <<up, noDataCount, silent, waited, cycled>>
  BY DEF Request, Board!DataReceived, timeVars
<1>5. IF d.kind = "ack" THEN command' = "move" /\ age' = 0
      ELSE UNCHANGED <<command, age>>
  BY <1>2 DEF Request
<1>6. Queues'
  BY <1>1, <1>2, <1>3 DEF Queues, UnderWay
<1>7. LinkTypeOK'
  BY <1>2, <1>3, <1>4, <1>5, OnlyOne, EmptySeq, Sizes DEF LinkTypeOK, TypeOK,
     Board!CommsTypeOK
<1>8. Watched' /\ Moving' /\ Errors'
  BY <1>3, <1>4 DEF Watched, Moving, Errors
<1>9. Silence'
  BY <1>1, <1>4, OnlyOne DEF Silence, Quiet
<1>10. Ages'
  <2>1. CASE d.kind = "ack"
    BY <2>1, <1>4, <1>5 DEF Ages, SinceFed
  <2>2. CASE d.kind # "ack" /\ command = "move"
    <3>1. pc = "readWait" /\ age = SinceFed
      BY <1>1, <2>2, OnlyOne DEF Ages, ReadLast
    <3>2. data \/ silent <= DataErrMax
      BY <2>2 DEF Moving, Watched
    <3>3. age <= DataErrMax + 1
      BY <3>1, <3>2, Sizes DEF SinceFed, LinkTypeOK, Board!CommsTypeOK
    <3>4. SinceFed' = 0 /\ ReadLast' /\ age' = age
      BY <3>1, <1>2, <1>3, <1>4, <1>5, <2>2 DEF SinceFed, ReadLast
    <3> QED
      BY <3>3, <3>4, Sizes DEF Ages, LinkTypeOK
  <2> QED
    BY <2>1, <2>2, <1>5 DEF Ages
<1> QED
  BY <1>6, <1>7, <1>8, <1>9, <1>10

LEMMA AroundInv == ASSUME IInv, Around PROVE IInv'
<1> USE DEF IInv
<1>s. UNCHANGED <<pc, resetOld, status, errCount, header, fed, misses>>
      /\ UNCHANGED boardVars /\ UNCHANGED timeVars
      /\ enable' \in BOOLEAN /\ reset' \in BOOLEAN
  BY DEF Around, Arrive, Lose, Repaired, Dies, SetPins, hostVars, pins, LinkTypeOK, TypeOK
<1>q. /\ Quiet => Quiet'
      /\ \A d \in Datagram : UnderWay(d) => Quiet' \/ UnderWay(d)'
      /\ requests = <<>> => requests' = <<>>
      /\ replies = <<>> /\ socket = <<>> => replies' = <<>> /\ socket' = <<>>
      /\ net' \in {"lossy", "good", "dead"}
  <2>1. CASE Arrive
    BY <2>1, OnlyOne DEF Arrive, Quiet, UnderWay, LinkTypeOK, TypeOK
  <2>2. CASE Lose
    <3>1. PICK d \in Datagram : UnderWay(d)
      BY <2>2 DEF Lose, Queues, Quiet
    <3>2. socket' = socket /\ net' = net
      BY <2>2 DEF Lose
    <3>3. \/ requests = <<d>> /\ requests' = <<>> /\ replies = <<>> /\ replies' = <<>>
          \/ replies = <<d>> /\ replies' = <<>> /\ requests = <<>> /\ requests' = <<>>
      BY <2>2, <3>1, RemoveOnly, OnlyOne DEF Lose, UnderWay
    <3> QED
      BY <3>1, <3>2, <3>3, OnlyOne DEF Quiet, UnderWay, LinkTypeOK, TypeOK
  <2>3. CASE Repaired
    BY <2>3 DEF Repaired, Quiet, UnderWay
  <2>4. CASE Dies
    BY <2>4 DEF Dies, Quiet, UnderWay
  <2>5. CASE SetPins
    BY <2>5 DEF SetPins, netVars, Quiet, UnderWay, LinkTypeOK, TypeOK
  <2> QED
    BY <2>1, <2>2, <2>3, <2>4, <2>5 DEF Around
<1>a. command = "move" /\ pc = "writeWait" /\ ~(replies = <<>> /\ socket = <<>>)
        => age = SinceFed
  BY DEF Ages, ReadLast
<1>1. Queues'
  BY <1>s, <1>q DEF Queues
<1>2. LinkTypeOK'
  <2>1. requests' \in Seq(Datagram) /\ replies' \in Seq(Datagram) /\ socket' \in Seq(Datagram)
    BY <1>1, OnlyOne, EmptySeq DEF Queues, Quiet, UnderWay
  <2> QED
    BY <1>s, <1>q, <2>1 DEF LinkTypeOK, TypeOK, boardVars, timeVars, Board!CommsTypeOK
<1>3. Watched' /\ Moving' /\ Errors'
  BY <1>s DEF Watched, Moving, Errors, boardVars
<1>4. Silence'
  BY <1>s, <1>q DEF Silence, boardVars, timeVars
<1>5. Ages'
  BY <1>s, <1>q, <1>a DEF Ages, SinceFed, ReadLast, boardVars
<1> QED
  BY <1>1, <1>2, <1>3, <1>4, <1>5

(* The update of the watchdog: its counter never wraps.                    *)
LEMMA UpdateWatched ==
    ASSUME Board!CommsTypeOK, Watched, Board!CommsUpdate
    PROVE  /\ Board!CommsTypeOK' /\ Watched'
           /\ ~data' /\ (data => silent' = 0)
           /\ ~data => silent' = silent + 1 \/ (silent' = MaxSilent /\ silent = MaxSilent)
           /\ up' => data \/ up
<1> DEFINE m == IF data THEN 0 ELSE noDataCount + 1
<1>t. /\ silent \in Nat /\ silent <= MaxSilent
      /\ noDataCount \in Nat /\ noDataCount <= DataErrMax
      /\ data \in BOOLEAN /\ up \in BOOLEAN
  BY Sizes DEF Board!CommsTypeOK
<1>1. Board!Missed = m
  <2>1. noDataCount + 1 \in 0..CountMod - 1 /\ CountMod \in Nat \ {0}
    BY <1>t, Sizes
  <2>2. (noDataCount + 1) % CountMod = noDataCount + 1
    BY <2>1
  <2> QED
    BY <2>2 DEF Board!Missed
<1>2. /\ noDataCount' = IF m > DataErrMax THEN 0 ELSE m
      /\ up' = IF m > DataErrMax THEN FALSE ELSE IF data THEN TRUE ELSE up
      /\ data' = FALSE
      /\ silent' = IF data THEN 0 ELSE IF silent < MaxSilent THEN silent + 1 ELSE silent
  BY <1>1 DEF Board!CommsUpdate
<1>3. m \in Nat
  BY <1>t
<1>4. noDataCount' \in 0..DataErrMax /\ silent' \in 0..MaxSilent
  BY <1>t, <1>2, <1>3, Sizes
<1>5. up' \in BOOLEAN
  BY <1>t, <1>2, Zenon
<1>6. Board!CommsTypeOK'
  BY <1>2, <1>4, <1>5 DEF Board!CommsTypeOK
<1>7. CASE data
  <2>1. ~(m > DataErrMax) /\ m = 0
    BY <1>7, Sizes
  <2>2. up' = TRUE /\ silent' = 0 /\ noDataCount' = 0
    BY <1>2, <1>7, <2>1, Zenon
  <2> QED
    BY <1>2, <1>6, <1>7, <2>2, Sizes DEF Watched
<1>8. CASE ~data /\ up
  <2>1. m = silent + 1 /\ silent <= DataErrMax /\ silent' = silent + 1
    BY <1>2, <1>8, <1>t, Sizes DEF Watched
  <2>2. CASE m > DataErrMax
    <3>1. ~up'
      BY <1>2, <2>2, Zenon
    <3> QED
      BY <1>2, <1>6, <1>8, <2>1, <2>2, <3>1 DEF Watched
  <2>3. CASE ~(m > DataErrMax)
    <3>1. up' = TRUE /\ noDataCount' = m
      BY <1>2, <1>8, <2>3, Zenon
    <3> QED
      BY <1>2, <1>3, <1>6, <1>8, <2>1, <2>3, <3>1, Sizes DEF Watched
  <2> QED
    BY <2>2, <2>3
<1>9. CASE ~data /\ ~up
  <2>1. ~up'
    BY <1>2, <1>9, Zenon
  <2>2. silent > DataErrMax
    BY <1>9 DEF Watched
  <2>3. silent' = silent + 1 \/ (silent' = MaxSilent /\ silent = MaxSilent)
    BY <1>2, <1>9, <1>t, Sizes
  <2>4. silent' > DataErrMax
    BY <2>2, <2>3, <1>t, Sizes
  <2> QED
    BY <1>2, <1>6, <1>9, <2>1, <2>3, <2>4 DEF Watched
<1> QED
  BY <1>7, <1>8, <1>9

LEMMA TickInv == ASSUME IInv, Tick PROVE IInv'
<1> USE DEF IInv
<1>b. Board!CommsTypeOK /\ Watched /\ Board!CommsUpdate
  BY DEF Tick, LinkTypeOK
<1>u. /\ Board!CommsTypeOK' /\ Watched'
      /\ ~data' /\ (data => silent' = 0)
      /\ ~data => silent' = silent + 1 \/ (silent' = MaxSilent /\ silent = MaxSilent)
      /\ up' => data \/ up
  BY <1>b, UpdateWatched
<1>t. /\ silent \in Nat /\ silent <= MaxSilent /\ silent' \in Nat /\ silent' <= MaxSilent
      /\ age \in Nat /\ age <= Timeout /\ waited \in Nat /\ waited <= Timeout
      /\ command \in {"zero", "move"} /\ data \in BOOLEAN
  BY <1>u, Sizes DEF LinkTypeOK, Board!CommsTypeOK
<1>q. Quiet
  <2>1. requests \in Seq(Datagram) /\ replies \in Seq(Datagram)
    BY DEF LinkTypeOK, TypeOK
  <2>2. socket = <<>> /\ InFlight = <<>>
    BY DEF Tick
  <2> QED
    BY <2>1, <2>2, EmptyConcat DEF InFlight, Quiet
<1>v. /\ UNCHANGED <<pc, resetOld, status, errCount, header, fed, misses>>
      /\ UNCHANGED <<enable, reset, requests, replies, socket, net>>
  BY DEF Tick, vars, hostVars, pins, netVars
<1>c. command' = (IF up' THEN command ELSE "zero") /\ cycled' = FALSE
      /\ age' = (IF age < Timeout THEN age + 1 ELSE age)
      /\ waited' = (IF Waiting THEN waited + 1 ELSE 0)
      /\ (Waiting => waited < Timeout)
  BY DEF Tick, Acted
<1>1. Queues'
  BY <1>q, <1>v DEF Queues, Quiet
<1>2. LinkTypeOK'
  <2>1. age' \in 0..Timeout
    BY <1>c, <1>t, Sizes
  <2>2. waited' \in 0..Timeout
    BY <1>c, <1>t, Sizes
  <2>3. command' \in {"zero", "move"}
    BY <1>c, <1>t
  <2>4. TypeOK'
    BY <1>v DEF LinkTypeOK, TypeOK
  <2> QED
    BY <1>u, <1>c, <2>1, <2>2, <2>3, <2>4 DEF LinkTypeOK
<1>3. Moving' /\ Errors'
  BY <1>c, <1>v DEF Moving, Errors
<1>4. Silence'
  <2>1. SUFFICES ASSUME waited' > 0
                 PROVE  silent' >= waited' - 1 \/ silent' = MaxSilent
    BY <1>q, <1>v, <1>u DEF Silence, Quiet
  <2>2. waited' = waited + 1
    BY <1>c, <2>1
  <2>3. CASE waited = 0
    BY <1>t, <2>2, <2>3
  <2>4. CASE waited > 0
    BY <1>t, <1>u, <2>2, <2>4 DEF Silence
  <2> QED
    BY <1>t, <2>3, <2>4
<1>5. Ages'
  <2>1. SUFFICES ASSUME command' = "move"
                 PROVE  \/ age' = SinceFed'
                        \/ ReadLast' /\ age' <= DataErrMax + 1 + SinceFed'
    BY DEF Ages
  <2>2. command = "move" /\ up' /\ (data \/ up)
    BY <1>c, <1>u, <2>1
  <2>3. data \/ silent <= DataErrMax
    BY <2>2 DEF Watched
  <2>4. SinceFed' = SinceFed + 1 /\ SinceFed \in Nat
    <3>1. CASE data
      BY <1>u, <3>1 DEF SinceFed
    <3>2. CASE ~data
      <4>1. silent' = silent + 1
        BY <1>u, <1>t, <2>3, <3>2, Sizes
      <4> QED
        BY <1>u, <1>t, <3>2, <4>1 DEF SinceFed
    <3> QED
      BY <1>t, <3>1, <3>2
  <2>5. age <= 2 * DataErrMax + 2
    BY <2>2, AgeBound DEF CommandFresh
  <2>6. age' = age + 1
    BY <1>c, <1>t, <2>5, Sizes
  <2>7. CASE age = SinceFed
    BY <2>4, <2>6, <2>7
  <2>8. CASE ReadLast /\ age <= DataErrMax + 1 + SinceFed
    <3>1. ReadLast'
      BY <2>8, <1>v DEF ReadLast
    <3>2. age' <= DataErrMax + 1 + SinceFed'
      BY <1>t, <2>4, <2>6, <2>8, Sizes
    <3> QED
      BY <3>1, <3>2
  <2> QED
    BY <2>2, <2>7, <2>8 DEF Ages
<1> QED
  BY <1>u, <1>1, <1>2, <1>3, <1>4, <1>5

LEMMA Same == IInv /\ UNCHANGED linkVars => IInv'
<1> SUFFICES ASSUME IInv, UNCHANGED linkVars PROVE IInv'
  OBVIOUS
<1>1. /\ UNCHANGED <<pc, resetOld, status, errCount, header, fed, misses>>
      /\ UNCHANGED <<enable, reset, requests, replies, socket, net>>
      /\ UNCHANGED <<data, up, noDataCount, silent, command, age, waited, cycled>>
  BY DEF linkVars, vars, hostVars, pins, netVars, boardVars, timeVars
<1>2. LinkTypeOK'
  BY <1>1 DEF IInv, LinkTypeOK, TypeOK, Board!CommsTypeOK
<1>3. Queues' /\ Watched' /\ Silence'
  BY <1>1 DEF IInv, Queues, Quiet, UnderWay, Watched, Silence
<1>4. Moving' /\ Ages' /\ Errors'
  BY <1>1 DEF IInv, Moving, Ages, SinceFed, ReadLast, Errors
<1> QED
  BY <1>2, <1>3, <1>4 DEF IInv

LEMMA NextInv == ASSUME MayBeLate = FALSE PROVE IInv /\ [LinkNext]_linkVars => IInv'
  BY BeginInv, WriteInv, AnsweredInv, TimedOutInv, RequestInv, AroundInv, TickInv, Same
     DEF LinkNext, Driver

-----------------------------------------------------------------------------
(***************************************************************************)
(* The theorems.                                                           *)
(***************************************************************************)
(* Nothing under way is counted twice and no counter leaves its range: the *)
(* errors of the driver stay below the limit of comms, remora-eth-3.0.c:   *)
(* 835-849, the count of the watchdog within dataErrMax.                   *)
THEOREM TypeCorrect ==
    ASSUME MayBeLate = FALSE, PowerUpStatus = {FALSE}
    PROVE  LinkSpec => []LinkTypeOK
<1>1. LinkInit => IInv
  BY InitInv
<1>2. IInv /\ [LinkNext]_linkVars => IInv'
  BY NextInv
<1>3. IInv => LinkTypeOK
  BY DEF IInv
<1> QED
  BY <1>1, <1>2, <1>3, PTL DEF LinkSpec

(* The command that moves the machine is never older than two time-outs of *)
(* the watchdog, although a read feeds the watchdog without a command.     *)
THEOREM CommandFreshCorrect ==
    ASSUME MayBeLate = FALSE, PowerUpStatus = {FALSE}
    PROVE  LinkSpec => []CommandFresh
<1>1. LinkInit => IInv
  BY InitInv
<1>2. IInv /\ [LinkNext]_linkVars => IInv'
  BY NextInv
<1>3. IInv => CommandFresh
  BY AgeBound
<1> QED
  BY <1>1, <1>2, <1>3, PTL DEF LinkSpec

(* The driver gives an answer up only when the board has stopped itself.   *)
THEOREM FailureStopsCorrect ==
    ASSUME MayBeLate = FALSE, PowerUpStatus = {FALSE}
    PROVE  LinkSpec => FailureStops
<1>1. LinkInit => IInv
  BY InitInv
<1>2. IInv /\ [LinkNext]_linkVars => IInv'
  BY NextInv
<1>3. IInv /\ [LinkNext]_linkVars
        => [TimedOut => command = "zero" /\ ~up]_linkVars
  BY TimedOutAtRest DEF TimedOut
<1> QED
  BY <1>1, <1>2, <1>3, PTL DEF LinkSpec, FailureStops

(* What it takes for the status to fall.                                   *)
LEMMA StatusFalls ==
    ASSUME IInv, LinkNext, status, ~status', enable
    PROVE  misses' > ErrMax
<1> USE DEF IInv
<1>t. /\ header \in {"none"} \cup Kinds /\ header # "none" /\ ~(0 > ErrMax)
      /\ socket # <<>> => Head(socket).kind \in Kinds
      /\ errCount = misses
  <2>1. Queues /\ Errors /\ header \in {"none"} \cup Kinds
    BY DEF LinkTypeOK, TypeOK
  <2>2. socket # <<>> => Head(socket).kind \in Kinds
    BY <2>1, OnlyOne DEF Queues, Quiet, UnderWay, Datagram
  <2> QED
    BY <2>1, <2>2, Sizes DEF Errors
<1>1. ~Begin /\ ~Write /\ ~Request /\ ~Around /\ ~Tick
  <2>1. ~Begin
    BY DEF Begin, ReadSkip, ReadSend
  <2>2. ~Write
    BY DEF Write, WriteSkip, WriteSend
  <2>3. ~Request /\ ~Around
    BY DEF Request, Answer, Around, Arrive, Lose, Repaired, Dies, SetPins, hostVars
  <2>4. ~Tick
    BY DEF Tick, vars, hostVars
  <2> QED
    BY <2>1, <2>2, <2>3, <2>4
<1>2. ~Answered
  <2> SUFFICES ASSUME Answered PROVE FALSE
    OBVIOUS
  <2>1. socket # <<>> /\ errCount' = 0
    BY DEF Answered, ReadAnswer, WriteAnswer, Taken
  <2>2. ~Dropped
    BY <1>t, <2>1 DEF Dropped
  <2>3. CASE ReadAnswer
    BY <1>t, <2>1, <2>2, <2>3 DEF ReadAnswer, ReadHeader, Kinds
  <2>4. CASE WriteAnswer
    BY <1>t, <2>1, <2>2, <2>4 DEF WriteAnswer, WriteHeader
  <2> QED
    BY <2>3, <2>4 DEF Answered
<1>3. TimedOut
  BY <1>1, <1>2 DEF LinkNext, Driver
<1>4. errCount' = misses'
  BY <1>t, <1>3 DEF TimedOut, ReadTimeout, WriteTimeout, GivenUp
<1>5. Dropped
  <2>1. CASE ReadTimeout
    BY <1>t, <2>1 DEF ReadTimeout, ReadHeader, Kinds
  <2>2. CASE WriteTimeout
    BY <1>t, <2>2 DEF WriteTimeout, WriteHeader
  <2> QED
    BY <1>3, <2>1, <2>2 DEF TimedOut
<1> QED
  BY <1>4, <1>5 DEF Dropped

(* The status of an enabled link falls only after more than ErrMax         *)
(* transfers in a row without an answer, remora-eth-3.0.c:791 and :926.    *)
THEOREM ToleratesLossCorrect ==
    ASSUME MayBeLate = FALSE, PowerUpStatus = {FALSE}
    PROVE  LinkSpec => ToleratesLoss
<1>1. LinkInit => IInv
  BY InitInv
<1>2. IInv /\ [LinkNext]_linkVars => IInv'
  BY NextInv
<1>3. IInv /\ [LinkNext]_linkVars
        => [status /\ ~status' => ~enable \/ misses' > ErrMax]_vars
  BY StatusFalls DEF linkVars
<1> QED
  BY <1>1, <1>2, <1>3, PTL DEF LinkSpec, ToleratesLoss
=============================================================================
