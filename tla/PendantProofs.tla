---------------------------- MODULE PendantProofs ----------------------------
(***************************************************************************)
(* Proofs about the pendant, for every length of the display's frame and   *)
(* every distance of the datagrams that is longer.                         *)
(***************************************************************************)
EXTENDS Pendant, TLAPS

(* A datagram is copied at once, and waits for the next tick to be sent;   *)
(* the line is about to be idle by then, and meanwhile has sent the first  *)
(* half of what is in txData.                                              *)
Copying ==
    receiving # "idle" =>
        /\ datagram # None /\ mpgData[1] = datagram
        /\ ~payloadReceived /\ left <= 1
        /\ rest = IF receiving = "half" THEN 0 ELSE 1
Copied == receiving = "idle" => mpgData[1] = mpgData[2]
Waiting == payloadReceived => left <= 1 /\ rest <= 1
Sending ==
    /\ txData[1] = txData[2]
    /\ left \in 1..FrameTime - 1 => first = txData[1]
    /\ left > 0 /\ ~payloadReceived /\ receiving = "idle"
         => rest + left <= FrameTime + 2

IInv == TypeOK /\ WholeFrames /\ Copying /\ Copied /\ Waiting /\ Sending

LEMMA Sizes ==
    /\ FrameTime \in Nat /\ FrameTime > 1
    /\ MinGap \in Nat /\ MinGap > FrameTime
    /\ LastAxis \in Nat /\ LastAxis > 0 /\ MaxEvents \in Nat
  BY PendantAssumption

LEMMA InitInv == Init => IInv
<1> SUFFICES ASSUME Init PROVE IInv
  OBVIOUS
<1>1. TypeOK
  <2>1. /\ Start \in Positions /\ 0 \in 0..LastAxis /\ 0 \in 0..FrameTime
        /\ MinGap \in 0..MinGap /\ 0 \in 0..MaxEvents
    BY Sizes, PendantAssumption
  <2>2. <<None, None>> \in Halves(Contents \cup {None})
    BY DEF Halves
  <2>3. <<>> \in Seq(Buttons \X BOOLEAN)
    OBVIOUS
  <2> QED
    BY <2>1, <2>2, <2>3 DEF Init, TypeOK
<1>2. WholeFrames /\ Copying /\ Copied /\ Waiting /\ Sending
  BY Sizes DEF Init, WholeFrames, Copying, Copied, Waiting, Sending
<1> QED
  BY <1>1, <1>2 DEF IInv

-----------------------------------------------------------------------------
(***************************************************************************)
(* Every step preserves it.                                                *)
(***************************************************************************)
LEMMA SteppedRange ==
    ASSUME selectedAxis \in 0..LastAxis
    PROVE  Stepped \in 0..LastAxis
<1>1. (selectedAxis + 1) % (LastAxis + 1) \in 0..LastAxis
  <2>1. selectedAxis + 1 \in Nat /\ LastAxis + 1 \in Nat \ {0}
    BY Sizes
  <2>2. (selectedAxis + 1) % (LastAxis + 1) \in 0..(LastAxis + 1) - 1
    BY <2>1
  <2> QED
    BY <2>2, Sizes
<1>2. selectedAxis # 0 => selectedAxis - 1 \in 0..LastAxis
  BY Sizes
<1>3. LastAxis \in 0..LastAxis
  BY Sizes
<1> QED
  BY <1>1, <1>2, <1>3 DEF Stepped

LEMMA SampleInv == ASSUME IInv, Sample PROVE IInv'
<1> USE DEF IInv
<1>1. /\ UNCHANGED <<pins, callback, payloadReceived, serial, buttons, events>>
      /\ datagram = None /\ receiving = "idle"
  BY DEF Sample, Copying
<1>2. selectedAxis' \in 0..LastAxis
  BY SteppedRange DEF Sample, TypeOK
<1>3. [position |-> position, axis |-> selectedAxis'] \in Contents
  BY <1>2 DEF TypeOK, Contents
<1>4. datagram' \in Contents \cup {None} /\ lost' \in BOOLEAN
  BY <1>3 DEF Sample, Report, net, TypeOK
<1>5. updateFlag' \in BOOLEAN
  BY DEF Sample, Report, Changed, TypeOK
<1>6. TypeOK'
  BY <1>1, <1>2, <1>4, <1>5 DEF TypeOK, Sample, pins, callback, serial, buttons
<1>7. WholeFrames' /\ Copying' /\ Copied' /\ Waiting' /\ Sending'
  BY <1>1 DEF WholeFrames, Copying, Copied, Waiting, Sending, callback, serial
<1> QED
  BY <1>6, <1>7

LEMMA ReceiveInv == ASSUME IInv, ReceiveHalf \/ ReceiveRest PROVE IInv'
<1> USE DEF IInv
<1>t. /\ mpgData \in Halves(Contents \cup {None}) /\ datagram \in Contents \cup {None}
      /\ left \in 0..FrameTime /\ rest \in 0..MinGap
  BY DEF TypeOK
<1>1. CASE ReceiveHalf
  <2>1. /\ UNCHANGED <<component, pins, net, payloadReceived, serial, buttons, events>>
        /\ receiving' = "half" /\ rest' = 0 /\ mpgData' = <<datagram, mpgData[2]>>
        /\ datagram # None /\ rest = MinGap /\ receiving = "idle"
    BY <1>1 DEF ReceiveHalf
  <2>2. ~payloadReceived
    BY <2>1, Sizes DEF Waiting
  <2>3. left <= 1
    BY <1>t, <2>1, <2>2, Sizes DEF Sending
  <2>4. mpgData' \in Halves(Contents \cup {None}) /\ mpgData'[1] = datagram
    BY <1>t, <2>1 DEF Halves
  <2>5. TypeOK'
    BY <2>1, <2>4, Sizes DEF TypeOK, component, pins, net, serial, buttons
  <2>6. WholeFrames' /\ Copying' /\ Copied' /\ Waiting' /\ Sending'
    BY <2>1, <2>2, <2>3, <2>4 DEF WholeFrames, Copying, Copied, Waiting, Sending,
       net, serial
  <2> QED
    BY <2>5, <2>6
<1>2. CASE ReceiveRest
  <2>1. /\ UNCHANGED <<component, pins, lost, rest, serial, buttons, events>>
        /\ receiving' = "idle" /\ mpgData' = <<mpgData[1], datagram>>
        /\ payloadReceived' = TRUE /\ datagram' = None /\ receiving # "idle"
    BY <1>2 DEF ReceiveRest
  <2>2. mpgData[1] = datagram /\ left <= 1 /\ rest <= 1
    BY <2>1, Sizes DEF Copying
  <2>3. /\ mpgData' \in Halves(Contents \cup {None})
        /\ mpgData'[1] = datagram /\ mpgData'[2] = datagram
    BY <1>t, <2>1, <2>2 DEF Halves
  <2>4. TypeOK'
    BY <2>1, <2>3 DEF TypeOK, component, pins, serial, buttons
  <2>5. WholeFrames' /\ Copying' /\ Copied' /\ Waiting' /\ Sending'
    BY <2>1, <2>2, <2>3 DEF WholeFrames, Copying, Copied, Waiting, Sending, serial
  <2> QED
    BY <2>4, <2>5
<1> QED
  BY <1>1, <1>2

(* What the tick does to the line, which has ended when a payload waits.   *)
LEMMA TickInv == ASSUME IInv, ServoTick PROVE IInv'
<1> USE DEF IInv
<1>t. /\ mpgData \in Halves(Contents \cup {None})
      /\ txData \in Halves(Contents \cup {None})
      /\ shown \in Halves(Contents \cup {None}) /\ first \in Contents \cup {None}
      /\ left \in Nat /\ left <= FrameTime /\ rest \in Nat /\ rest <= MinGap
      /\ payloadReceived \in BOOLEAN /\ receiving \in {"idle", "half", "late"}
  BY Sizes DEF TypeOK
<1>0. /\ UNCHANGED <<component, pins, net, mpgData, held, events>>
      /\ receiving # "late"
      /\ receiving' = (IF receiving = "half" THEN "late" ELSE receiving)
      /\ rest' = (IF rest = MinGap THEN MinGap ELSE rest + 1)
      /\ first' = (IF left = FrameTime THEN txData[1] ELSE first)
      /\ shown' = (IF left = 1 THEN <<first, txData[2]>> ELSE shown)
  BY DEF ServoTick, Line
<1>1. rest' \in 0..MinGap /\ (rest' = rest \/ rest' = rest + 1)
  <2>1. CASE rest = MinGap
    BY <1>0, <1>t, <2>1, Sizes
  <2>2. CASE rest # MinGap
    BY <1>0, <1>t, <2>2, Sizes
  <2> QED
    BY <2>1, <2>2
<1>2. AfterTick \in 0..FrameTime /\ (left > 0 => AfterTick = left - 1)
      /\ (left <= 1 => AfterTick = 0)
  BY <1>t, Sizes DEF AfterTick
<1>3. WholeFrames' /\ shown' \in Halves(Contents \cup {None})
  <2>1. CASE left = 1
    <3>1. first = txData[1] /\ txData[1] = txData[2]
      BY <2>1, Sizes DEF Sending
    <3> QED
      BY <1>0, <1>t, <2>1, <3>1 DEF WholeFrames, Halves
  <2>2. CASE left # 1
    BY <1>0, <1>t, <2>2 DEF WholeFrames
  <2> QED
    BY <2>1, <2>2
<1>4. first' \in Contents \cup {None}
  BY <1>0, <1>t DEF Halves
<1>5. /\ txData' \in Halves(Contents \cup {None}) /\ left' \in 0..FrameTime
      /\ payloadReceived' = FALSE
      /\ Sending'
      /\ receiving' # "idle" => left' <= 1
  <2>1. CASE payloadReceived
    <3>1. receiving = "idle" /\ left <= 1 /\ rest <= 1 /\ mpgData[1] = mpgData[2]
      BY <2>1 DEF Waiting, Copying, Copied
    <3>a. AfterTick = 0
      BY <1>2, <3>1
    <3>b. /\ txData' = mpgData /\ payloadReceived' = FALSE
          /\ left' = IF AfterTick = 0 THEN FrameTime ELSE AfterTick
      BY <2>1, Zenon DEF ServoTick, Forward
    <3>2. txData' = mpgData /\ left' = FrameTime /\ payloadReceived' = FALSE
      BY <3>a, <3>b
    <3>3. rest' + left' <= FrameTime + 2
      <4>1. left' = FrameTime /\ rest \in Nat /\ rest <= 1
        BY <1>t, <3>1, <3>2
      <4>2. CASE rest' = rest
        BY <4>1, <4>2, Sizes
      <4>3. CASE rest' = rest + 1
        BY <4>1, <4>3, Sizes
      <4> QED
        BY <1>1, <4>2, <4>3
    <3>4. receiving' = "idle"
      BY <1>0, <3>1
    <3> QED
      BY <1>t, <3>1, <3>2, <3>3, <3>4, Sizes DEF Sending
  <2>2. CASE ~payloadReceived
    <3>1. txData' = txData /\ left' = AfterTick /\ payloadReceived' = FALSE
      BY <1>t, <2>2 DEF ServoTick, Forward
    <3>2. receiving' # "idle" => left' <= 1
      BY <1>0, <1>2, <1>t, <3>1 DEF Copying
    <3>3. left' \in 1..FrameTime - 1 => first' = txData'[1]
      BY <1>0, <1>2, <1>t, <3>1, Sizes DEF Sending
    <3>4. left' > 0 /\ receiving' = "idle" => rest' + left' <= FrameTime + 2
      BY <1>0, <1>1, <1>2, <1>t, <2>2, <3>1, Sizes DEF Sending
    <3> QED
      BY <1>2, <1>t, <3>1, <3>2, <3>3, <3>4 DEF Sending
  <2> QED
    BY <1>t, <2>1, <2>2
<1>6. TypeOK'
  <2>1. bytes' \in Seq(Buttons \X BOOLEAN) /\ bits' \subseteq Buttons
    <3>1. CASE bytes = <<>>
      BY <3>1 DEF ServoTick, Poll, TypeOK
    <3>2. CASE bytes # <<>>
      <4>1. bytes \in Seq(Buttons \X BOOLEAN)
        BY DEF TypeOK
      <4>2. Head(bytes) \in Buttons \X BOOLEAN /\ Tail(bytes) \in Seq(Buttons \X BOOLEAN)
        BY <3>2, <4>1
      <4> QED
        BY <3>2, <4>2 DEF ServoTick, Poll, TypeOK
    <3> QED
      BY <3>1, <3>2
  <2>2. receiving' \in {"idle", "half", "late"}
    BY <1>0, <1>t
  <2> QED
    BY <1>0, <1>1, <1>3, <1>4, <1>5, <2>1, <2>2 DEF TypeOK, component, pins, net
<1>7. Copying'
  BY <1>0, <1>t, <1>5, Sizes DEF Copying, net
<1>8. Copied' /\ Waiting'
  BY <1>0, <1>5 DEF Copied, Waiting
<1> QED
  BY <1>3, <1>5, <1>6, <1>7, <1>8

LEMMA AroundInv ==
    ASSUME IInv, (\E b \in Buttons : Button(b)) \/ Move \/ Lose \/ Comms \/ Feedback
    PROVE  IInv'
<1> USE DEF IInv
<1>1. /\ UNCHANGED <<component, callback, payloadReceived, serial>>
      /\ receiving # "idle" => datagram' = datagram
  BY DEF Button, Move, Lose, Comms, Feedback, net
<1>2. /\ position' \in Positions /\ comms' \in BOOLEAN /\ seen' \subseteq Buttons
      /\ datagram' \in Contents \cup {None} /\ lost' \in BOOLEAN
      /\ bits' \subseteq Buttons
  BY DEF TypeOK, Button, Move, Lose, Comms, Feedback, net, pins, buttons
<1>3. events' \in 0..MaxEvents
  <2>1. events < MaxEvents => events + 1 \in 0..MaxEvents
    BY Sizes DEF TypeOK
  <2> QED
    BY <2>1 DEF TypeOK, Button, Move, Lose, Comms, Feedback
<1>4. held' \subseteq Buttons /\ bytes' \in Seq(Buttons \X BOOLEAN)
  <2>1. CASE \E b \in Buttons : Button(b)
    <3>1. PICK b \in Buttons : Button(b)
      BY <2>1
    <3>2. bytes \in Seq(Buttons \X BOOLEAN) /\ <<b, b \notin held>> \in Buttons \X BOOLEAN
      BY DEF TypeOK
    <3>3. Append(bytes, <<b, b \notin held>>) \in Seq(Buttons \X BOOLEAN)
      BY <3>2
    <3> QED
      BY <3>1, <3>3 DEF Button, TypeOK
  <2>2. CASE Move \/ Lose \/ Comms \/ Feedback
    BY <2>2 DEF TypeOK, Move, Lose, Comms, Feedback, buttons
  <2> QED
    BY <2>1, <2>2
<1>5. TypeOK'
  BY <1>1, <1>2, <1>3, <1>4 DEF TypeOK, component, callback, serial
<1>6. WholeFrames' /\ Copying' /\ Copied' /\ Waiting' /\ Sending'
  BY <1>1 DEF WholeFrames, Copying, Copied, Waiting, Sending, callback, serial
<1> QED
  BY <1>5, <1>6

LEMMA Same == IInv /\ UNCHANGED vars => IInv'
  BY DEF IInv, TypeOK, WholeFrames, Copying, Copied, Waiting, Sending, vars, component,
     pins, net, callback, serial, buttons

LEMMA NextInv == IInv /\ [Next]_vars => IInv'
  BY SampleInv, ReceiveInv, TickInv, AroundInv, Same DEF Next

-----------------------------------------------------------------------------
(* The bits of the buttons and the axis on the wheel stay within what the  *)
(* component and the display know.                                         *)
THEOREM TypeCorrect == Spec => []TypeOK
<1>1. Init => IInv
  BY InitInv
<1>2. IInv => TypeOK
  BY DEF IInv
<1> QED
  BY <1>1, <1>2, NextInv, PTL DEF Spec

(* No frame on the display is made of two payloads, though neither the     *)
(* copy by the main loop (ethernet.cpp:179) nor the one into the buffer    *)
(* under transfer (nvmpg.cpp:103) is protected from the one before.        *)
THEOREM WholeFramesCorrect == Spec => []WholeFrames
<1>1. Init => IInv
  BY InitInv
<1>2. IInv => WholeFrames
  BY DEF IInv
<1> QED
  BY <1>1, <1>2, NextInv, PTL DEF Spec
=============================================================================
