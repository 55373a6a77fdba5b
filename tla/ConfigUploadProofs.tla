------------------------- MODULE ConfigUploadProofs -------------------------
(***************************************************************************)
(* Proofs about the upload of a configuration, for every set of files,     *)
(* every geometry of the flash, any number of ports, clients, failures and *)
(* datagrams under way.                                                    *)
(***************************************************************************)
EXTENDS ConfigUpload, TLAPS

(* The datagrams under way, and the block that the client sends.           *)
NetOK ==
    \A m \in net :
        /\ m.type = "data" => m.file \in Files /\ m.blk \in 1..LastBlock(m.file)
        /\ m.type = "ack" => m.port \in 0..MaxPort /\ m.blk \in Nat
ClientOK == client.phase = "data" => client.next \in 1..LastBlock(client.file)

(* The move of f: the sectors are erased one by one, then the pages of the *)
(* file are programmed, each of them once.                                 *)
SectorsOf(f) == (Pages[f] + SectorPages - 1) \div SectorPages
PageMoved(f, p) ==
    /\ SectorOf(p) < step /\ step < p + SectorsOf(f) => storage[p] = Erased
    /\ p + SectorsOf(f) <= step => storage[p] = <<f, p>>
Moving ==
    pc = "move" =>
        \E f \in Files :
            /\ Intact(f)
            /\ step < SectorsOf(f) + Pages[f]
            /\ \A p \in 1..Pages[f] : PageMoved(f, p)

(* What the board boots, otherwise.                                        *)
Whole(f) == \A p \in 1..Pages[f] : storage[p] = <<f, p>>
Stored == storage[1] = Erased \/ \E f \in Files : Whole(f)
Kept == pc # "move" /\ ~cut => Stored

IInv == TypeOK /\ NetOK /\ ClientOK /\ Moving /\ Kept

-----------------------------------------------------------------------------
(***************************************************************************)
(* Sizes.                                                                  *)
(***************************************************************************)
LEMMA Geometry ==
    ASSUME NEW f \in Files
    PROVE  /\ Blocks[f] \in Nat \ {0} /\ Pages[f] \in Nat \ {0}
           /\ 1..Blocks[f] \subseteq Area /\ 1..Pages[f] \subseteq Store
           /\ 1 \in 1..Blocks[f] /\ 1 \in 1..Pages[f]
           /\ LastBlock(f) \in Nat /\ LastBlock(f) >= Blocks[f]
<1>1. /\ Blocks[f] \in Nat \ {0} /\ Pages[f] \in Nat \ {0}
      /\ AreaBlocks \in Nat /\ StorePages \in Nat
      /\ Blocks[f] <= AreaBlocks /\ Pages[f] <= StorePages
  BY UploadAssumption
<1>2. LastBlock(f) \in Nat /\ LastBlock(f) >= Blocks[f]
  BY <1>1 DEF LastBlock
<1> QED
  BY <1>1, <1>2 DEF Area, Store

(* The pages of a file lie in the sectors that are erased for it.          *)
LEMMA InSectors ==
    ASSUME NEW f \in Files, NEW p \in 1..Pages[f]
    PROVE  /\ SectorOf(p) \in Nat /\ SectorsOf(f) \in Nat
           /\ SectorOf(p) < SectorsOf(f)
<1> DEFINE n == Pages[f]
<1>1. n \in Nat \ {0} /\ SectorPages \in Nat \ {0} /\ p \in 1..n
  BY Geometry, UploadAssumption
<1> HIDE DEF n
<1>2. /\ (p - 1) \div SectorPages \in Nat
      /\ (n + SectorPages - 1) \div SectorPages \in Nat
      /\ (p - 1) \div SectorPages < (n + SectorPages - 1) \div SectorPages
  BY <1>1
<1> QED
  BY <1>2 DEF SectorOf, SectorsOf, n

LEMMA CellTypes ==
    /\ Erased \in Cells /\ Bad \in Cells
    /\ \A f \in Files, b \in Area \cup Store : <<f, b>> \in Cells
    /\ \A old, new \in Cells : Program(old, new) \in Cells
    /\ \A new \in Cells : Program(Erased, new) = new
  BY DEF Cells, Program

LEMMA InitInv == Init => IInv
<1> SUFFICES ASSUME Init PROVE IInv
  OBVIOUS
<1>1. PICK f \in Files : f = CHOOSE g \in Files : TRUE
  BY UploadAssumption
<1>2. /\ MaxSession \in Nat /\ MaxPort \in Nat /\ MaxFailures \in Nat
      /\ 0 \in 0..MaxSession /\ 0 \in 0..MaxPort /\ 0 \in 0..MaxFailures
  BY UploadAssumption
<1>3. client \in [session : 0..MaxSession, phase : {"off", "wrq", "data"},
                  file : Files, port : 0..MaxPort, next : Nat]
  BY <1>1, <1>2 DEF Init, Idle
<1>4. TypeOK
  <2>1. DOMAIN conns = {} /\ lastPort \in 0..MaxPort
    BY <1>2 DEF Init
  <2>2. upload \in [Area -> Cells] /\ storage \in [Store -> Cells]
    BY CellTypes DEF Init
  <2> QED
    BY <1>2, <1>3, <2>1, <2>2 DEF Init, TypeOK
<1>5. 1 \in Store
  BY <1>1, Geometry
<1>6. NetOK /\ ClientOK /\ Moving /\ Kept
  BY <1>5 DEF Init, Idle, NetOK, ClientOK, Moving, Kept, Stored
<1> QED
  BY <1>4, <1>6 DEF IInv

-----------------------------------------------------------------------------
(***************************************************************************)
(* The client and the network.                                             *)
(***************************************************************************)
(* The board stays as it is.                                               *)
LEMMA BoardKept ==
    ASSUME Moving, Kept, UNCHANGED <<boardVars, cut>>
    PROVE  Moving' /\ Kept'
  BY DEF Moving, Kept, Stored, Whole, Intact, PageMoved, SectorOf, SectorsOf, boardVars

LEMMA ClientInv ==
    ASSUME IInv, Begin \/ Repeat \/ GiveUp \/ TakeAck \/ Lose
    PROVE  IInv'
<1> USE DEF IInv
<1>t. /\ client \in [session : 0..MaxSession, phase : {"off", "wrq", "data"},
                     file : Files, port : 0..MaxPort, next : Nat]
      /\ MaxSession \in Nat /\ MaxPort \in Nat
      /\ \A f \in Files : LastBlock(f) \in Nat /\ LastBlock(f) >= 1
  <2>1. \A f \in Files : LastBlock(f) \in Nat /\ LastBlock(f) >= 1
    BY Geometry
  <2> QED
    BY <2>1, UploadAssumption DEF TypeOK
<1>b. UNCHANGED <<boardVars, cut>>
  BY DEF Begin, Repeat, GiveUp, TakeAck, Lose
<1>1. Moving' /\ Kept'
  BY <1>b, BoardKept
<1>i. \A s \in 0..MaxSession :
        Idle(s) \in [session : 0..MaxSession, phase : {"off", "wrq", "data"},
                     file : Files, port : 0..MaxPort, next : Nat]
        /\ Idle(s).phase = "off"
  <2>1. (CHOOSE f \in Files : TRUE) \in Files
    BY UploadAssumption
  <2>2. 0 \in 0..MaxPort
    BY <1>t
  <2> QED
    BY <2>1, <2>2 DEF Idle
<1>2. /\ client' \in [session : 0..MaxSession, phase : {"off", "wrq", "data"},
                      file : Files, port : 0..MaxPort, next : Nat]
      /\ disturbed' \in BOOLEAN /\ ClientOK' /\ NetOK'
  <2>1. CASE Begin
    <3>1. PICK f \in Files :
            client' = [session |-> client.session + 1, phase |-> "wrq", file |-> f,
                       port |-> 0, next |-> 0]
      BY <2>1 DEF Begin
    <3>2. client.session + 1 \in 0..MaxSession /\ 0 \in 0..MaxPort
      BY <1>t, <2>1 DEF Begin
    <3>3. NetOK'
      BY <2>1 DEF Begin, NetOK, Wrq
    <3> QED
      BY <2>1, <3>1, <3>2, <3>3 DEF Begin, ClientOK
  <2>2. CASE Repeat
    <3>1. NetOK'
      BY <1>t, <2>2 DEF Repeat, NetOK, ClientOK, Request, Wrq, Data
    <3> QED
      BY <1>t, <2>2, <3>1 DEF Repeat, ClientOK, TypeOK
  <2>3. CASE GiveUp
    <3>1. NetOK'
      BY <2>3 DEF GiveUp, NetOK, ToServer
    <3> QED
      BY <1>t, <1>i, <2>3, <3>1 DEF GiveUp, ClientOK
  <2>4. CASE TakeAck
    <3>1. PICK m \in net :
            /\ m.type = "ack"
            /\ IF ~Awaited(m)
                 THEN client' = client /\ net' = net \ {m}
               ELSE IF client.phase = "data" /\ m.blk = LastBlock(client.file)
                 THEN client' = Idle(client.session) /\ net' = ToServer
               ELSE /\ client' = [client EXCEPT !.phase = "data", !.port = m.port,
                                                !.next = m.blk + 1]
                    /\ net' = (net \ {m}) \cup
                              {Data(m.to, m.port, client.file, m.blk + 1)}
      BY <2>4 DEF TakeAck
    <3>2. m.port \in 0..MaxPort /\ m.blk \in Nat
      BY <3>1 DEF NetOK
    <3>3. disturbed' \in BOOLEAN
      BY <2>4 DEF TakeAck, TypeOK
    <3>4. CASE ~Awaited(m)
      BY <1>t, <3>1, <3>3, <3>4 DEF NetOK, ClientOK
    <3>5. CASE Awaited(m) /\ client.phase = "data" /\ m.blk = LastBlock(client.file)
      BY <1>t, <1>i, <3>1, <3>3, <3>5 DEF NetOK, ClientOK, ToServer
    <3>6. CASE Awaited(m) /\ ~(client.phase = "data" /\ m.blk = LastBlock(client.file))
      <4>1. m.blk + 1 \in 1..LastBlock(client.file)
        BY <1>t, <3>2, <3>6 DEF Awaited, ClientOK
      <4>2. /\ client' = [client EXCEPT !.phase = "data", !.port = m.port,
                                        !.next = m.blk + 1]
            /\ net' = (net \ {m}) \cup {Data(m.to, m.port, client.file, m.blk + 1)}
        BY <3>1, <3>6
      <4>3. client'.file = client.file /\ client'.next = m.blk + 1
        BY <1>t, <4>2
      <4>4. NetOK'
        BY <1>t, <4>1, <4>2 DEF NetOK, Data
      <4>5. client' \in [session : 0..MaxSession, phase : {"off", "wrq", "data"},
                         file : Files, port : 0..MaxPort, next : Nat]
        <5>1. client' = [session |-> client.session, phase |-> "data",
                         file |-> client.file, port |-> m.port, next |-> m.blk + 1]
          BY <1>t, <4>2
        <5> QED
          BY <1>t, <3>2, <5>1
      <4> QED
        BY <3>3, <4>1, <4>3, <4>4, <4>5 DEF ClientOK
    <3> QED
      BY <3>4, <3>5, <3>6
  <2>5. CASE Lose
    BY <1>t, <2>5 DEF Lose, NetOK, ClientOK, TypeOK
  <2> QED
    BY <2>1, <2>2, <2>3, <2>4, <2>5
<1>3. TypeOK'
  BY <1>b, <1>2 DEF TypeOK, boardVars
<1> QED
  BY <1>1, <1>2, <1>3

-----------------------------------------------------------------------------
(***************************************************************************)
(* The server: it does not touch the storage area.                         *)
(***************************************************************************)
LEMMA WriteRequestInv ==
    ASSUME IInv, NEW m \in net, pc = "loop", WriteRequest(m),
           UNCHANGED <<storage, step, client, cut>>
    PROVE  IInv'
<1> USE DEF IInv
<1>1. pc' = pc
  BY DEF WriteRequest
<1>2. Moving' /\ Kept'
  BY <1>1 DEF Moving, Kept, Stored, Whole
<1>3. CASE Cardinality(DOMAIN conns) >= Pool
  <2>1. UNCHANGED <<conns, lastPort, upload, disturbed, failures>> /\ net' = net \ {m}
    BY <1>3 DEF WriteRequest
  <2> QED
    BY <1>1, <1>2, <2>1 DEF TypeOK, NetOK, ClientOK
<1>4. CASE ~(Cardinality(DOMAIN conns) >= Pool)
  <2>1. PICK n \in 0..2 :
          /\ lastPort < MaxPort
          /\ lastPort' = lastPort + 1
          /\ conns' = [c \in DOMAIN conns \cup {lastPort'} |->
                         IF c = lastPort' THEN 0 ELSE conns[c]]
          /\ upload' = EraseArea(n)
          /\ IF n = 2 THEN UNCHANGED failures ELSE Failure
          /\ net' = (net \ {m}) \cup
                    (IF n = 2 THEN {Ack(m.from, lastPort', 0)} ELSE {})
          /\ disturbed' = (disturbed \/ client.phase = "data")
    BY <1>4 DEF WriteRequest
  <2>2. lastPort \in Nat /\ lastPort' \in 1..MaxPort /\ MaxPort \in Nat
    BY <2>1, UploadAssumption DEF TypeOK
  <2>3. upload' \in [Area -> Cells]
    BY <2>1, CellTypes DEF EraseArea, TypeOK
  <2>4. failures' \in 0..MaxFailures
    BY <2>1, UploadAssumption DEF Failure, TypeOK
  <2>5. NetOK'
    BY <2>1, <2>2 DEF NetOK, Ack
  <2>6. DOMAIN conns' \subseteq 1..lastPort'
    BY <2>1, <2>2 DEF TypeOK
  <2>7. \A c \in DOMAIN conns' : \E f \in Files : conns'[c] \in 0..LastBlock(f) - 1
    <3> SUFFICES ASSUME NEW c \in DOMAIN conns'
                 PROVE  \E f \in Files : conns'[c] \in 0..LastBlock(f) - 1
      OBVIOUS
    <3>1. PICK g \in Files : TRUE
      BY UploadAssumption
    <3>2. 0 \in 0..LastBlock(g) - 1
      BY Geometry
    <3>3. CASE c = lastPort'
      BY <2>1, <3>2, <3>3
    <3>4. CASE c # lastPort'
      BY <2>1, <3>4 DEF TypeOK
    <3> QED
      BY <3>3, <3>4
  <2>8. disturbed' \in BOOLEAN /\ lastPort' \in 0..MaxPort
    BY <2>1, <2>2 DEF TypeOK
  <2>9. TypeOK'
    BY <1>1, <2>3, <2>4, <2>6, <2>7, <2>8 DEF TypeOK
  <2> QED
    BY <1>2, <2>5, <2>9 DEF ClientOK
<1> QED
  BY <1>3, <1>4

LEMMA DataBlockInv ==
    ASSUME IInv, NEW m \in net, pc = "loop", DataBlock(m),
           UNCHANGED <<storage, step, client, cut>>
    PROVE  IInv'
<1> DEFINE b == conns[m.port] + (IF InOrder(m) THEN 1 ELSE 0)
           good == Program(upload[b], <<m.file, m.blk>>)
<1> USE DEF IInv
<1>1. /\ m.type = "data" /\ m.port \in DOMAIN conns
      /\ IF InOrder(m) /\ Carries(m)
         THEN \E cell \in {good, Bad} :
                /\ IF cell = good THEN UNCHANGED failures ELSE Failure
                /\ upload' = [upload EXCEPT ![b] = cell]
                /\ disturbed' = (disturbed \/ cell # good
                                           \/ m.from # client.session)
         ELSE /\ UNCHANGED <<upload, failures>>
              /\ disturbed' = (disturbed \/ m.from # client.session)
      /\ Closed(m, b) /\ Answer(m, b)
      /\ pc' = IF IsLast(m) THEN "check" ELSE "loop"
      /\ UNCHANGED lastPort
  BY Zenon DEF DataBlock
<1>2. m.file \in Files /\ m.blk \in 1..LastBlock(m.file) /\ LastBlock(m.file) \in Nat
  BY <1>1, Geometry DEF NetOK
<1>3. PICK f \in Files : conns[m.port] \in 0..LastBlock(f) - 1
  BY <1>1 DEF TypeOK
<1>4. b \in Nat /\ (InOrder(m) => b = m.blk) /\ (~InOrder(m) => b = conns[m.port])
  <2>1. conns[m.port] \in Nat
    BY <1>3, Geometry
  <2> QED
    BY <2>1 DEF InOrder
<1> HIDE DEF b
<1>5. upload' \in [Area -> Cells] /\ failures' \in 0..MaxFailures /\ disturbed' \in BOOLEAN
  <2>1. CASE InOrder(m) /\ Carries(m)
    <3>1. PICK cell \in {good, Bad} :
            /\ IF cell = good THEN UNCHANGED failures ELSE Failure
            /\ upload' = [upload EXCEPT ![b] = cell]
            /\ disturbed' = (disturbed \/ cell # good \/ m.from # client.session)
      BY <1>1, <2>1
    <3>2. b \in Area /\ <<m.file, m.blk>> \in Cells
      BY <1>2, <1>4, <2>1, Geometry, CellTypes DEF Carries
    <3>3. good \in Cells
      BY <3>2, CellTypes DEF TypeOK
    <3>4. cell \in Cells
      BY <3>1, <3>3, CellTypes
    <3>5. upload' \in [Area -> Cells]
      BY <3>1, <3>2, <3>4 DEF TypeOK
    <3>6. failures' \in 0..MaxFailures
      BY <3>1, UploadAssumption DEF Failure, TypeOK
    <3> QED
      BY <3>1, <3>5, <3>6
  <2>2. CASE ~(InOrder(m) /\ Carries(m))
    BY <1>1, <2>2 DEF TypeOK
  <2> QED
    BY <2>1, <2>2
<1>6. /\ DOMAIN conns' \subseteq 1..lastPort'
      /\ \A c \in DOMAIN conns' : \E g \in Files : conns'[c] \in 0..LastBlock(g) - 1
  <2>1. CASE IsLast(m)
    BY <1>1, <2>1 DEF Closed, TypeOK
  <2>2. CASE ~IsLast(m)
    <3>1. conns' = [conns EXCEPT ![m.port] = b]
      BY <1>1, <2>2 DEF Closed
    <3>2. \E g \in Files : b \in 0..LastBlock(g) - 1
      BY <1>2, <1>3, <1>4, <2>2 DEF IsLast
    <3> QED
      BY <1>1, <3>1, <3>2 DEF TypeOK
  <2> QED
    BY <2>1, <2>2
<1>7. NetOK'
  <2>1. m.port \in 0..MaxPort
    BY <1>1, UploadAssumption DEF TypeOK
  <2> QED
    BY <1>1, <1>4, <2>1 DEF Answer, NetOK, Ack
<1>8. TypeOK'
  BY <1>1, <1>5, <1>6 DEF TypeOK
<1>9. Moving' /\ Kept'
  BY <1>1 DEF Moving, Kept, Stored, Whole
<1> QED
  BY <1>7, <1>8, <1>9 DEF ClientOK

LEMMA ReceiveInv == ASSUME IInv, Receive PROVE IInv'
<1>1. PICK m \in net : WriteRequest(m) \/ DataBlock(m) \/ NoConnection(m)
  BY DEF Receive
<1>2. pc = "loop" /\ UNCHANGED <<storage, step, client, cut>>
  BY DEF Receive
<1>3. CASE NoConnection(m)
  BY <1>2, <1>3 DEF IInv, NoConnection, TypeOK, NetOK, ClientOK, Moving, Kept, Stored, Whole
<1> QED
  BY <1>1, <1>2, <1>3, WriteRequestInv, DataBlockInv

-----------------------------------------------------------------------------
(***************************************************************************)
(* The main loop.                                                          *)
(***************************************************************************)
LEMMA CheckInv == ASSUME IInv, Check PROVE IInv'
<1> USE DEF IInv
<1>1. /\ UNCHANGED <<conns, lastPort, upload, storage, failures, client, net,
                     disturbed, cut>>
      /\ pc = "check" /\ step' = 0 /\ pc' \in {"move", "loop"}
      /\ pc' = "move" => \E f \in Files : Intact(f)
  BY DEF Check, CrcGood
<1>2. TypeOK' /\ NetOK' /\ ClientOK'
  BY <1>1 DEF TypeOK, NetOK, ClientOK
<1>3. Kept'
  BY <1>1 DEF Kept, Stored, Whole
<1>4. ASSUME pc' = "move" PROVE Moving'
  <2>1. PICK f \in Files : Intact(f)
    BY <1>1, <1>4
  <2>2. Intact(f)'
    BY <1>1, <2>1 DEF Intact
  <2>3. 0 < SectorsOf(f) + Pages[f]
    BY Geometry, InSectors
  <2>4. ASSUME NEW p \in 1..Pages[f] PROVE PageMoved(f, p)'
    <3>1. ~(SectorOf(p) < 0) /\ ~(p + SectorsOf(f) <= 0)
      BY InSectors, Geometry
    <3> QED
      BY <1>1, <3>1 DEF PageMoved, SectorOf, SectorsOf
  <2> QED
    BY <1>1, <2>2, <2>3, <2>4 DEF Moving, SectorsOf
<1> QED
  BY <1>2, <1>3, <1>4 DEF Moving

(* What a step of the move does to one page of the file.                   *)
LEMMA PageStep ==
    ASSUME TypeOK, NEW f \in Files, Intact(f), step \in Nat,
           \A p \in 1..Pages[f] : PageMoved(f, p), MoveStep
    PROVE  /\ Moved = f /\ Sectors = SectorsOf(f)
           /\ storage' \in [Store -> Cells]
           /\ \A p \in 1..Pages[f] :
                /\ SectorOf(p) < step + 1 /\ step + 1 < p + SectorsOf(f)
                     => storage'[p] = Erased
                /\ p + SectorsOf(f) <= step + 1 => storage'[p] = <<f, p>>
<1>1. Moved = f
  BY Geometry DEF Intact, Moved
<1>2. Sectors = SectorsOf(f)
  BY <1>1 DEF Sectors, SectorsOf
<1>3. \A p \in Store : Copied(p) = <<f, p>> /\ Copied(p) \in Cells
  BY <1>1, CellTypes DEF Copied
<1>4. storage' = [p \in Store |->
        IF step < SectorsOf(f) /\ SectorOf(p) = step THEN Erased
        ELSE IF p + SectorsOf(f) = step + 1 THEN Program(storage[p], <<f, p>>)
        ELSE storage[p]]
  BY <1>2, <1>3 DEF MoveStep
<1>5. storage' \in [Store -> Cells]
  BY <1>3, <1>4, CellTypes DEF TypeOK
<1>6. ASSUME NEW p \in 1..Pages[f]
      PROVE  /\ SectorOf(p) < step + 1 /\ step + 1 < p + SectorsOf(f)
                  => storage'[p] = Erased
             /\ p + SectorsOf(f) <= step + 1 => storage'[p] = <<f, p>>
  <2>1. /\ p \in Store /\ p \in Nat \ {0} /\ SectorOf(p) \in Nat
        /\ SectorsOf(f) \in Nat /\ SectorOf(p) < SectorsOf(f)
    BY Geometry, InSectors
  <2>2. storage'[p] = IF step < SectorsOf(f) /\ SectorOf(p) = step THEN Erased
                      ELSE IF p + SectorsOf(f) = step + 1
                      THEN Program(storage[p], <<f, p>>)
                      ELSE storage[p]
    BY <1>4, <2>1
  <2>3. ASSUME SectorOf(p) < step + 1, step + 1 < p + SectorsOf(f)
        PROVE  storage'[p] = Erased
    <3>1. CASE SectorOf(p) = step
      BY <2>1, <2>2, <3>1
    <3>2. CASE SectorOf(p) # step
      <4>1. SectorOf(p) < step /\ step < p + SectorsOf(f)
        BY <2>1, <2>3, <3>2
      <4>2. storage[p] = Erased
        BY <4>1 DEF PageMoved
      <4> QED
        BY <2>1, <2>2, <2>3, <3>2, <4>2
    <3> QED
      BY <3>1, <3>2
  <2>4. ASSUME p + SectorsOf(f) <= step + 1 PROVE storage'[p] = <<f, p>>
    <3>1. ~(step < SectorsOf(f))
      BY <2>1, <2>4
    <3>2. CASE p + SectorsOf(f) = step + 1
      <4>1. SectorOf(p) < step /\ step < p + SectorsOf(f)
        BY <2>1, <3>1, <3>2
      <4>2. storage[p] = Erased
        BY <4>1 DEF PageMoved
      <4>3. Program(storage[p], <<f, p>>) = <<f, p>>
        BY <2>1, <4>2, CellTypes
      <4> QED
        BY <2>2, <3>1, <3>2, <4>3
    <3>3. CASE p + SectorsOf(f) # step + 1
      <4>1. p + SectorsOf(f) <= step
        BY <2>1, <2>4, <3>3
      <4>2. storage[p] = <<f, p>>
        BY <4>1 DEF PageMoved
      <4> QED
        BY <2>2, <3>1, <3>3, <4>2
    <3> QED
      BY <3>2, <3>3
  <2> QED
    BY <2>3, <2>4
<1> QED
  BY <1>1, <1>2, <1>5, <1>6

LEMMA MoveInv == ASSUME IInv, Move PROVE IInv'
<1> USE DEF IInv
<1>1. /\ pc = "move" /\ MoveStep
      /\ UNCHANGED <<upload, client, net, disturbed, failures>>
      /\ step \in Nat
  BY DEF Move, TypeOK
<1>2. PICK f \in Files :
        /\ Intact(f) /\ step < SectorsOf(f) + Pages[f]
        /\ \A p \in 1..Pages[f] : PageMoved(f, p)
  BY <1>1 DEF Moving
<1>3. /\ Moved = f /\ Sectors = SectorsOf(f)
      /\ storage' \in [Store -> Cells]
      /\ \A p \in 1..Pages[f] :
            /\ SectorOf(p) < step + 1 /\ step + 1 < p + SectorsOf(f)
                  => storage'[p] = Erased
            /\ p + SectorsOf(f) <= step + 1 => storage'[p] = <<f, p>>
  BY <1>1, <1>2, PageStep
<1>4. SectorsOf(f) \in Nat /\ Pages[f] \in Nat \ {0}
  BY Geometry, InSectors
<1>5. NetOK' /\ ClientOK'
  BY <1>1 DEF NetOK, ClientOK
<1>6. CASE step + 1 = Sectors + Pages[Moved]
  <2>1. Off /\ cut' = FALSE
    BY <1>6 DEF Move
  <2>2. TypeOK'
    <3>1. DOMAIN conns' = {} /\ lastPort' \in 0..MaxPort
      BY <2>1, UploadAssumption DEF Off
    <3> QED
      BY <1>1, <1>3, <2>1, <3>1 DEF TypeOK, Off
  <2>3. ASSUME NEW p \in 1..Pages[f] PROVE storage'[p] = <<f, p>>
    BY <1>1, <1>3, <1>4, <1>6
  <2> QED
    BY <1>5, <2>1, <2>2, <2>3 DEF Off, Moving, Kept, Stored, Whole
<1>7. CASE step + 1 # Sectors + Pages[Moved]
  <2>1. step' = step + 1 /\ UNCHANGED <<pc, conns, lastPort, cut>>
    BY <1>7 DEF Move
  <2>2. TypeOK'
    BY <1>1, <1>3, <2>1 DEF TypeOK
  <2>3. Intact(f)'
    BY <1>1, <1>2 DEF Intact
  <2>4. step' < SectorsOf(f) + Pages[f]
    BY <1>1, <1>2, <1>3, <1>4, <1>7, <2>1
  <2>5. \A p \in 1..Pages[f] : PageMoved(f, p)'
    BY <1>3, <2>1 DEF PageMoved, SectorOf, SectorsOf
  <2>6. Moving'
    BY <2>3, <2>4, <2>5 DEF Moving, SectorsOf
  <2> QED
    BY <1>1, <1>5, <2>1, <2>2, <2>6 DEF Kept
<1> QED
  BY <1>6, <1>7

LEMMA FailsInv == ASSUME IInv, MoveFails \/ PowerFails \/ Boot PROVE IInv'
<1> USE DEF IInv
<1>1. UNCHANGED <<upload, client, net>> /\ pc' \in {"boot", "loop"}
  BY DEF MoveFails, PowerFails, Boot, Off
<1>2. /\ DOMAIN conns' \subseteq 1..lastPort' /\ lastPort' \in 0..MaxPort
      /\ \A c \in DOMAIN conns' : \E f \in Files : conns'[c] \in 0..LastBlock(f) - 1
  <2>1. CASE MoveFails \/ PowerFails
    <3>1. DOMAIN conns' = {} /\ lastPort' \in 0..MaxPort
      BY <2>1, UploadAssumption DEF MoveFails, PowerFails, Off
    <3> QED
      BY <3>1
  <2>2. CASE Boot
    BY <2>2 DEF Boot, TypeOK
  <2> QED
    BY <2>1, <2>2
<1>3. storage' \in [Store -> Cells]
  BY CellTypes DEF MoveFails, PowerFails, Boot, HalfDone, TypeOK
<1>4. step' \in Nat /\ failures' \in 0..MaxFailures /\ disturbed' \in BOOLEAN
  <2>1. step' \in Nat /\ disturbed' \in BOOLEAN
    <3>1. step \in Nat /\ disturbed \in BOOLEAN
      BY DEF TypeOK
    <3>2. step' \in {0, step}
      BY DEF MoveFails, PowerFails, Boot, Off
    <3>3. disturbed' \in {TRUE, disturbed}
      BY DEF MoveFails, PowerFails, Boot
    <3>4. step' \in Nat
      BY <3>1, <3>2
    <3>5. disturbed' \in BOOLEAN
      BY <3>1, <3>3
    <3> QED
      BY <3>4, <3>5
  <2>2. Failure => failures' \in 0..MaxFailures
    <3>1. failures \in Nat /\ failures <= MaxFailures /\ MaxFailures \in Nat
      BY UploadAssumption DEF TypeOK
    <3>2. ASSUME Failure PROVE failures' \in 0..MaxFailures
      BY <3>1, <3>2 DEF Failure
    <3> QED
      BY <3>2
  <2> QED
    BY <2>1, <2>2 DEF MoveFails, PowerFails, Boot, TypeOK
<1>5. cut' \in BOOLEAN /\ (cut' = TRUE \/ (cut' = cut /\ storage' = storage /\ pc # "move"))
  BY DEF MoveFails, PowerFails, Boot, TypeOK
<1>6. TypeOK'
  BY <1>1, <1>2, <1>3, <1>4, <1>5 DEF TypeOK
<1>7. NetOK' /\ ClientOK' /\ Moving'
  BY <1>1 DEF NetOK, ClientOK, Moving
<1>8. Kept'
  BY <1>5 DEF Kept, Stored, Whole
<1> QED
  BY <1>6, <1>7, <1>8

LEMMA Same == IInv /\ UNCHANGED vars => IInv'
<1> SUFFICES ASSUME IInv, UNCHANGED vars PROVE IInv'
  OBVIOUS
<1>1. UNCHANGED <<boardVars, cut>> /\ UNCHANGED <<client, net, disturbed>>
  BY DEF vars
<1>2. Moving' /\ Kept'
  BY <1>1, BoardKept DEF IInv
<1>3. TypeOK' /\ NetOK' /\ ClientOK'
  BY <1>1 DEF IInv, TypeOK, NetOK, ClientOK, boardVars
<1> QED
  BY <1>2, <1>3 DEF IInv

LEMMA NextInv == IInv /\ [Next]_vars => IInv'
  BY ClientInv, ReceiveInv, CheckInv, MoveInv, FailsInv, Same DEF Next, Pass

(* A board whose storage area is kept does not boot a broken file.         *)
LEMMA Bootable == IInv => BootsWhole
<1> SUFFICES ASSUME Stored PROVE Loaded # "broken"
  BY DEF IInv, Kept, BootsWhole
<1>1. CASE storage[1] = Erased
  BY <1>1 DEF Loaded
<1>2. CASE storage[1] # Erased
  <2>1. PICK f \in Files : Whole(f)
    BY <1>2 DEF Stored
  <2>2. storage[1] = <<f, 1>>
    BY <2>1, Geometry DEF Whole
  <2>3. (CHOOSE g \in Files : storage[1] = <<g, 1>>) \in Files
    BY <2>2
  <2>4. Loaded = CHOOSE g \in Files : storage[1] = <<g, 1>>
    BY <1>2, <2>1 DEF Loaded, Whole
  <2> QED
    BY <2>3, <2>4, UploadAssumption
<1> QED
  BY <1>1, <1>2

-----------------------------------------------------------------------------
(* No block or page is written outside the areas that the files need, and  *)
(* no connection counts past the last block of a file (tftpserver.cpp:     *)
(* 174-218), whatever arrives on a connection, from whom and how often.    *)
THEOREM TypeCorrect == Spec => []TypeOK
<1>1. Init => IInv
  BY InitInv
<1>2. IInv => TypeOK
  BY DEF IInv
<1> QED
  BY <1>1, <1>2, NextInv, PTL DEF Spec

(* The board boots a whole configuration or the default, unless a move was *)
(* cut short (remora-rt1052.cpp:168-299).                                  *)
THEOREM BootsWholeCorrect == Spec => []BootsWhole
<1>1. Init => IInv
  BY InitInv
<1> QED
  BY <1>1, Bootable, NextInv, PTL DEF Spec

-----------------------------------------------------------------------------
(***************************************************************************)
(* Acknowledged blocks.  The invariant follows the connection of the       *)
(* client, as long as nothing disturbs the upload.                         *)
(***************************************************************************)
(* A file fits in the two sectors that a write request erases.             *)
Fits == \A f \in Files : Blocks[f] <= 2 * SectorBlocks

Has(f, n) == \A b \in 1..Blocks[f] : b <= n => upload[b] = <<f, b>>
Blank(f, n) == \A b \in 1..Blocks[f] : b > n => upload[b] = Erased

Acks(s) == {m \in net : m.type = "ack" /\ m.to = s}
Sent(s) == {m \in net : m.type = "data" /\ m.from = s}

(* No datagram is of a client to come.                                     *)
Fresh ==
    \A m \in net :
        /\ m.type \in {"wrq", "data", "ack"}
        /\ IF m.type = "ack" THEN m.to \in 0..client.session
           ELSE m.from \in 0..client.session

(* Whichever connection the client will take, it has received nothing.     *)
Requesting ==
    client.phase = "wrq" /\ ~disturbed =>
        /\ Sent(client.session) = {}
        /\ \A m \in Acks(client.session) :
             /\ m.blk = 0 /\ m.port \in DOMAIN conns /\ conns[m.port] = 0
             /\ pc = "loop" /\ Blank(client.file, 0)

(* Its connection is at the block that the client sends, or before it; it  *)
(* is closed when all blocks have come.                                    *)
Open ==
    /\ client.port \in DOMAIN conns /\ pc = "loop"
    /\ conns[client.port] \in {client.next - 1, client.next}
    /\ conns[client.port] < LastBlock(client.file)
    /\ Has(client.file, conns[client.port])
    /\ Blank(client.file, conns[client.port])
Done ==
    /\ client.port \notin DOMAIN conns
    /\ client.next = LastBlock(client.file)
    /\ Intact(client.file)

Uploading ==
    client.phase = "data" /\ ~disturbed =>
        /\ Open \/ Done
        /\ \A m \in Acks(client.session) :
             m.port = client.port =>
                 /\ m.blk <= client.next
                 /\ m.blk = client.next => Done \/ conns[client.port] = client.next
        /\ \A m \in Sent(client.session) :
             m.port = client.port /\ m.file = client.file /\ m.blk <= client.next

AckInv == IInv /\ Fresh /\ Requesting /\ Uploading

LEMMA ClientTypes ==
    ASSUME TypeOK
    PROVE  /\ client.session \in 0..MaxSession /\ client.session \in Nat
           /\ client.phase \in {"off", "wrq", "data"} /\ client.file \in Files
           /\ client.port \in 0..MaxPort /\ client.next \in Nat
           /\ LastBlock(client.file) \in Nat /\ disturbed \in BOOLEAN
  BY Geometry, UploadAssumption DEF TypeOK

(* Datagrams only get lost.                                                *)
LEMMA Fewer ==
    ASSUME AckInv, net' \subseteq net, UNCHANGED <<client, conns, upload, pc, disturbed>>
    PROVE  Fresh' /\ Requesting' /\ Uploading'
<1>1. /\ Acks(client.session)' \subseteq Acks(client.session)
      /\ Sent(client.session)' \subseteq Sent(client.session)
  BY DEF Acks, Sent
<1>2. Fresh'
  BY DEF AckInv, Fresh
<1>3. Requesting'
  BY <1>1 DEF AckInv, Requesting, Blank
<1>4. (Open => Open') /\ (Done => Done')
  BY DEF Open, Done, Has, Blank, Intact
<1>5. Uploading'
  BY <1>1, <1>4 DEF AckInv, Uploading
<1> QED
  BY <1>2, <1>3, <1>5

(* The main loop is not at the server.                                     *)
LEMMA Elsewhere ==
    ASSUME AckInv, pc # "loop", UNCHANGED <<client, net, upload>>,
           disturbed => disturbed', DOMAIN conns' \subseteq DOMAIN conns
    PROVE  Fresh' /\ Requesting' /\ Uploading'
<1>1. /\ Acks(client.session)' = Acks(client.session)
      /\ Sent(client.session)' = Sent(client.session)
  BY DEF Acks, Sent
<1>2. Fresh'
  BY DEF AckInv, Fresh
<1>3. Requesting'
  BY <1>1 DEF AckInv, Requesting
<1>4. ~Open /\ (Done => Done')
  BY DEF Open, Done, Intact
<1>5. Uploading'
  BY <1>1, <1>4 DEF AckInv, Uploading
<1> QED
  BY <1>2, <1>3, <1>5

LEMMA BoardAck ==
    ASSUME AckInv, Check \/ Move \/ MoveFails \/ PowerFails \/ Boot \/ Pass
    PROVE  Fresh' /\ Requesting' /\ Uploading'
<1>1. UNCHANGED <<client, net, upload>>
  BY DEF Check, Move, MoveFails, PowerFails, Boot, Pass, vars, boardVars
<1>2. CASE Pass
  BY <1>2, Fewer DEF Pass, vars, boardVars
<1>3. CASE (Check \/ Move \/ MoveFails \/ PowerFails \/ Boot) /\ pc # "loop"
  <2>1. disturbed => disturbed'
    BY <1>3 DEF Check, Move, MoveFails, PowerFails, Boot
  <2>2. DOMAIN conns' \subseteq DOMAIN conns
    <3>1. conns' = <<>> \/ conns' = conns
      BY <1>3 DEF Check, Move, MoveFails, PowerFails, Boot, Off
    <3> QED
      BY <3>1
  <2> QED
    BY <1>1, <1>3, <2>1, <2>2, Elsewhere
<1>4. CASE PowerFails /\ pc = "loop"
  BY <1>1, <1>4 DEF PowerFails, AckInv, Fresh, Requesting, Uploading
<1> QED
  BY <1>2, <1>3, <1>4 DEF Check, Move, MoveFails, Boot

LEMMA ClientAck ==
    ASSUME AckInv, Begin \/ Repeat \/ GiveUp \/ Lose
    PROVE  Fresh' /\ Requesting' /\ Uploading'
<1>t. /\ client.session \in Nat /\ client.phase \in {"off", "wrq", "data"}
      /\ client.next \in Nat
  BY ClientTypes DEF AckInv, IInv
<1>1. CASE Begin
  <2>1. /\ client'.session = client.session + 1 /\ client'.phase = "wrq"
        /\ net' = net \cup {Wrq(client.session + 1)}
    BY <1>1 DEF Begin
  <2>2. Fresh'
    BY <1>t, <2>1 DEF AckInv, Fresh, Wrq
  <2>3. \A m \in net : /\ m.type = "ack" => m.to # client.session + 1
                       /\ m.type = "data" => m.from # client.session + 1
    BY <1>t DEF AckInv, Fresh
  <2>4. Acks(client.session)' = {} /\ Sent(client.session)' = {}
    BY <2>1, <2>3 DEF Acks, Sent, Wrq
  <2> QED
    BY <2>1, <2>2, <2>4 DEF Requesting, Uploading
<1>2. CASE Repeat
  <2>1. /\ UNCHANGED <<client, conns, upload, pc, disturbed>>
        /\ net' = net \cup {Request} /\ client.phase \in {"wrq", "data"}
    BY <1>2 DEF Repeat, boardVars
  <2>2. /\ client.phase = "wrq" => Request = Wrq(client.session)
        /\ client.phase = "data" => Request = Data(client.session, client.port,
                                                  client.file, client.next)
    BY DEF Request
  <2>3. Fresh'
    BY <1>t, <2>1, <2>2 DEF AckInv, Fresh, Wrq, Data
  <2>4. Acks(client.session)' = Acks(client.session)
    BY <2>1, <2>2 DEF Acks, Wrq, Data
  <2>5. /\ client.phase = "wrq" => Sent(client.session)' = Sent(client.session)
        /\ client.phase = "data" => Sent(client.session)' \subseteq
              Sent(client.session) \cup {Data(client.session, client.port,
                                              client.file, client.next)}
    BY <2>1, <2>2 DEF Sent, Wrq, Data
  <2>6. Requesting'
    BY <2>1, <2>4, <2>5 DEF AckInv, Requesting, Blank
  <2>7. (Open => Open') /\ (Done => Done')
    BY <2>1 DEF Open, Done, Has, Blank, Intact
  <2>8. Uploading'
    BY <1>t, <2>1, <2>4, <2>5, <2>7 DEF AckInv, Uploading, Data
  <2> QED
    BY <2>3, <2>6, <2>8
<1>3. CASE GiveUp
  <2>1. client'.session = client.session /\ client'.phase = "off" /\ net' \subseteq net
    BY <1>3 DEF GiveUp, Idle, ToServer
  <2> QED
    BY <2>1 DEF AckInv, Fresh, Requesting, Uploading
<1>4. CASE Lose
  BY <1>4, Fewer DEF Lose, boardVars
<1> QED
  BY <1>1, <1>2, <1>3, <1>4

(* An acknowledgement moves the client on to the next block.               *)
LEMMA TakeAckAck ==
    ASSUME AckInv, TakeAck
    PROVE  Fresh' /\ Requesting' /\ Uploading'
<1> DEFINE s == client.session
<1>t. /\ client \in [session : 0..MaxSession, phase : {"off", "wrq", "data"},
                     file : Files, port : 0..MaxPort, next : Nat]
      /\ s \in Nat /\ client.next \in Nat /\ LastBlock(client.file) \in Nat
      /\ LastBlock(client.file) > 0
  <2>1. LastBlock(client.file) > 0
    BY ClientTypes, Geometry DEF AckInv, IInv
  <2> QED
    BY <2>1, ClientTypes DEF AckInv, IInv, TypeOK
<1>b. UNCHANGED <<conns, upload, pc, disturbed>>
  BY DEF TakeAck, boardVars
<1>1. PICK m \in net :
        /\ m.type = "ack"
        /\ IF ~Awaited(m)
             THEN client' = client /\ net' = net \ {m}
           ELSE IF client.phase = "data" /\ m.blk = LastBlock(client.file)
             THEN client' = Idle(client.session) /\ net' = ToServer
           ELSE /\ client' = [client EXCEPT !.phase = "data", !.port = m.port,
                                            !.next = m.blk + 1]
                /\ net' = (net \ {m}) \cup
                          {Data(m.to, m.port, client.file, m.blk + 1)}
  BY DEF TakeAck
<1>2. CASE ~Awaited(m)
  BY <1>1, <1>2, <1>b, Fewer
<1>3. CASE Awaited(m) /\ client.phase = "data" /\ m.blk = LastBlock(client.file)
  <2>1. client'.session = client.session /\ client'.phase = "off" /\ net' \subseteq net
    BY <1>1, <1>3 DEF Idle, ToServer
  <2> QED
    BY <2>1 DEF AckInv, Fresh, Requesting, Uploading
<1>4. CASE Awaited(m) /\ ~(client.phase = "data" /\ m.blk = LastBlock(client.file))
  <2>1. /\ client' = [session |-> client.session, phase |-> "data",
                      file |-> client.file, port |-> m.port, next |-> m.blk + 1]
        /\ net' = (net \ {m}) \cup {Data(m.to, m.port, client.file, m.blk + 1)}
    BY <1>1, <1>4, <1>t
  <2>2. /\ client'.session = s /\ client'.phase = "data"
        /\ client'.file = client.file /\ client'.port = m.port
        /\ client'.next = m.blk + 1
    BY <2>1
  <2>3. m \in Acks(s) /\ m.to = s
    BY <1>1, <1>4 DEF Awaited, Acks
  <2>4. m.blk \in Nat
    BY <1>1 DEF AckInv, IInv, NetOK
  <2>5. Fresh'
    BY <1>t, <2>1, <2>2, <2>3 DEF AckInv, Fresh, Data
  <2>6. Acks(s)' \subseteq Acks(s)
    BY <2>1, <2>2 DEF Acks, Data
  <2>7. Sent(s)' \subseteq Sent(s) \cup {Data(s, m.port, client.file, m.blk + 1)}
    BY <2>1, <2>2, <2>3 DEF Sent, Data
  <2>8. SUFFICES ASSUME ~disturbed PROVE Uploading'
    BY <1>b, <2>2, <2>5 DEF Requesting, Uploading
  <2>9. /\ m.port \in DOMAIN conns /\ conns[m.port] = m.blk /\ pc = "loop"
        /\ m.blk < LastBlock(client.file)
        /\ Has(client.file, m.blk) /\ Blank(client.file, m.blk)
        /\ \A a \in Acks(s) : a.port = m.port => a.blk <= m.blk
        /\ \A d \in Sent(s) :
             d.port = m.port /\ d.file = client.file /\ d.blk <= m.blk
    <3>1. CASE client.phase = "wrq"
      <4>1. m.blk = 0
        BY <1>4, <3>1 DEF Awaited
      <4>2. Sent(s) = {} /\ \A a \in Acks(s) :
              /\ a.blk = 0 /\ a.port \in DOMAIN conns /\ conns[a.port] = 0
              /\ pc = "loop" /\ Blank(client.file, 0)
        BY <2>8, <3>1 DEF AckInv, Requesting
      <4>3. Has(client.file, 0)
        BY DEF Has
      <4> QED
        BY <1>t, <2>3, <4>1, <4>2, <4>3
    <3>2. CASE client.phase = "data"
      <4>1. m.port = client.port /\ m.blk = client.next
        BY <1>4, <3>2 DEF Awaited
      <4>2. m.blk # LastBlock(client.file)
        BY <1>4, <3>2
      <4>3. Open /\ ~Done
        BY <2>8, <3>2, <4>1, <4>2 DEF AckInv, Uploading, Done
      <4>4. conns[client.port] = client.next
        BY <2>3, <2>8, <3>2, <4>1, <4>3 DEF AckInv, Uploading
      <4> QED
        BY <2>8, <3>2, <4>1, <4>3, <4>4 DEF AckInv, Uploading, Open
    <3> QED
      BY <1>4, <3>1, <3>2 DEF Awaited
  <2>10. Open'
    <3>1. (m.blk + 1) - 1 = m.blk
      BY <2>4
    <3>2. Has(client.file, m.blk)' /\ Blank(client.file, m.blk)'
      BY <1>1, <1>b, <2>1, <2>2, <2>9 DEF Has, Blank
    <3> QED
      BY <1>b, <2>2, <2>9, <3>1, <3>2 DEF Open, Has, Blank, LastBlock
  <2>11. /\ \A a \in Acks(s)' : a.port = m.port
              => a.blk <= m.blk + 1 /\ a.blk # m.blk + 1
    <3> SUFFICES ASSUME NEW a \in Acks(s), a.port = m.port
                 PROVE  a.blk <= m.blk + 1 /\ a.blk # m.blk + 1
      BY <2>6
    <3>1. a.blk \in Nat
      BY DEF Acks, AckInv, IInv, NetOK
    <3> QED
      BY <2>4, <2>9, <3>1
  <2>12. \A d \in Sent(s)' :
              d.port = m.port /\ d.file = client.file /\ d.blk <= m.blk + 1
    <3> SUFFICES ASSUME NEW d \in Sent(s)
                 PROVE  d.port = m.port /\ d.file = client.file /\ d.blk <= m.blk + 1
      BY <2>4, <2>7 DEF Data
    <3>1. d.blk \in Nat
      BY Geometry DEF Sent, AckInv, IInv, NetOK
    <3> QED
      BY <2>4, <2>9, <3>1
  <2> QED
    BY <2>2, <2>10, <2>11, <2>12 DEF Uploading, Acks, Sent
<1> QED
  BY <1>2, <1>3, <1>4

(* The two sectors hold the file of the client, so that a new connection   *)
(* finds them erased.                                                      *)
LEMMA WriteRequestAck ==
    ASSUME AckInv, Fits, NEW m \in net, pc = "loop", WriteRequest(m),
           UNCHANGED <<storage, step, client, cut>>
    PROVE  Fresh' /\ Requesting' /\ Uploading'
<1> DEFINE s == client.session
<1>t. client.file \in Files /\ lastPort \in Nat /\ DOMAIN conns \subseteq 1..lastPort
      /\ s \in Nat
  BY ClientTypes DEF AckInv, IInv, TypeOK
<1>1. pc' = pc /\ m.type = "wrq"
  BY DEF WriteRequest
<1>2. CASE Cardinality(DOMAIN conns) >= Pool
  BY <1>1, <1>2, Fewer DEF WriteRequest
<1>3. CASE ~(Cardinality(DOMAIN conns) >= Pool)
  <2>1. PICK n \in 0..2 :
          /\ lastPort < MaxPort
          /\ lastPort' = lastPort + 1
          /\ conns' = [c \in DOMAIN conns \cup {lastPort'} |->
                         IF c = lastPort' THEN 0 ELSE conns[c]]
          /\ upload' = EraseArea(n)
          /\ IF n = 2 THEN UNCHANGED failures ELSE Failure
          /\ net' = (net \ {m}) \cup
                    (IF n = 2 THEN {Ack(m.from, lastPort', 0)} ELSE {})
          /\ disturbed' = (disturbed \/ client.phase = "data")
    BY <1>3 DEF WriteRequest
  <2>2. Fresh'
    BY <1>1, <2>1 DEF AckInv, Fresh, Ack
  <2>3. Uploading'
    BY <2>1 DEF Uploading
  <2>4. ASSUME client.phase = "wrq", ~disturbed
        PROVE  /\ Sent(s)' = {}
               /\ \A a \in Acks(s)' :
                    /\ a.blk = 0 /\ a.port \in DOMAIN conns' /\ conns'[a.port] = 0
                    /\ Blank(client.file, 0)'
    <3>1. Sent(s) = {} /\ \A a \in Acks(s) :
            /\ a.blk = 0 /\ a.port \in DOMAIN conns /\ conns[a.port] = 0
            /\ Blank(client.file, 0)
      BY <2>4 DEF AckInv, Requesting
    <3>2. Sent(s)' = {}
      BY <2>1, <3>1 DEF Sent, Ack
    <3>3. ASSUME NEW a \in Acks(s)'
          PROVE  /\ a.blk = 0 /\ a.port \in DOMAIN conns' /\ conns'[a.port] = 0
                 /\ Blank(client.file, 0)'
      <4>1. CASE a \in net
        <5>1. a \in Acks(s)
          BY <4>1 DEF Acks
        <5>2. a.port # lastPort'
          BY <1>t, <2>1, <3>1, <5>1
        <5>3. Blank(client.file, 0)'
          BY <1>t, <2>1, <3>1, <5>1, Geometry DEF Blank, EraseArea
        <5> QED
          BY <2>1, <3>1, <5>1, <5>2, <5>3
      <4>2. CASE a \notin net
        <5>1. n = 2 /\ a = Ack(m.from, lastPort', 0)
          BY <2>1, <4>2 DEF Acks
        <5>2. Blank(client.file, 0)'
          <6>1. \A b \in 1..Blocks[client.file] : b \in Area /\ b <= 2 * SectorBlocks
            BY <1>t, Geometry, UploadAssumption DEF Fits
          <6> QED
            BY <2>1, <5>1, <6>1 DEF Blank, EraseArea
        <5> QED
          BY <2>1, <5>1, <5>2 DEF Ack
      <4> QED
        BY <4>1, <4>2
    <3> QED
      BY <3>2, <3>3
  <2>5. Requesting'
    BY <1>1, <2>1, <2>4 DEF Requesting
  <2> QED
    BY <2>2, <2>3, <2>5
<1> QED
  BY <1>2, <1>3

(* A block that continues the connection goes into an erased place.        *)
LEMMA DataBlockAck ==
    ASSUME AckInv, NEW m \in net, pc = "loop", DataBlock(m),
           UNCHANGED <<storage, step, client, cut>>
    PROVE  Fresh' /\ Requesting' /\ Uploading'
<1> DEFINE b == conns[m.port] + (IF InOrder(m) THEN 1 ELSE 0)
           good == Program(upload[b], <<m.file, m.blk>>)
           s == client.session
           f == client.file
           n == client.next
<1>1. /\ m.type = "data" /\ m.port \in DOMAIN conns
      /\ IF InOrder(m) /\ Carries(m)
         THEN \E cell \in {good, Bad} :
                /\ IF cell = good THEN UNCHANGED failures ELSE Failure
                /\ upload' = [upload EXCEPT ![b] = cell]
                /\ disturbed' = (disturbed \/ cell # good
                                           \/ m.from # client.session)
         ELSE /\ UNCHANGED <<upload, failures>>
              /\ disturbed' = (disturbed \/ m.from # client.session)
      /\ Closed(m, b) /\ Answer(m, b)
      /\ pc' = IF IsLast(m) THEN "check" ELSE "loop"
      /\ UNCHANGED lastPort
  BY Zenon DEF DataBlock
<1>t. /\ f \in Files /\ n \in Nat /\ LastBlock(f) \in Nat
      /\ m.blk \in Nat /\ m.blk >= 1 /\ upload \in [Area -> Cells]
      /\ Blocks[f] \in Nat /\ Blocks[f] <= LastBlock(f)
  <2>1. m.blk \in Nat /\ m.blk >= 1
    BY <1>1, Geometry DEF AckInv, IInv, NetOK
  <2> QED
    BY <2>1, ClientTypes, Geometry DEF AckInv, IInv, TypeOK
<1>2. net' = (net \ {m}) \cup {Ack(m.from, m.port, b)}
  BY <1>1 DEF Answer
<1>3. Fresh'
  BY <1>1, <1>2 DEF AckInv, Fresh, Ack
<1>4. SUFFICES ASSUME ~disturbed', client.phase \in {"wrq", "data"}
               PROVE  Requesting' /\ Uploading'
  BY <1>3 DEF Requesting, Uploading
<1>5. ~disturbed /\ m.from = s /\ m \in Sent(s)
  BY <1>1, <1>4 DEF Sent
<1>6. client.phase = "data"
  BY <1>4, <1>5 DEF AckInv, Requesting
<1>7. m.port = client.port /\ m.file = f /\ m.blk <= n
  BY <1>5, <1>6 DEF AckInv, Uploading
<1>8. /\ conns[m.port] \in {n - 1, n} /\ conns[m.port] < LastBlock(f)
      /\ Has(f, conns[m.port]) /\ Blank(f, conns[m.port])
      /\ conns[m.port] \in Nat
  <2>1. Open
    BY <1>1, <1>5, <1>6, <1>7 DEF AckInv, Uploading, Done
  <2>2. conns[m.port] \in Nat
    BY <1>1, Geometry DEF AckInv, IInv, TypeOK
  <2> QED
    BY <1>7, <2>1, <2>2 DEF Open
<1>9. PICK k \in Nat :
        /\ k = b /\ k \in {n - 1, n} /\ k <= LastBlock(f)
        /\ (InOrder(m) => k = m.blk /\ k = n /\ k = conns[m.port] + 1)
        /\ (~InOrder(m) => k = conns[m.port])
  <2>1. /\ b \in Nat /\ b \in {n - 1, n} /\ b <= LastBlock(f)
        /\ (InOrder(m) => b = m.blk /\ b = n /\ b = conns[m.port] + 1)
        /\ (~InOrder(m) => b = conns[m.port])
    BY <1>t, <1>7, <1>8 DEF InOrder
  <2> QED
    BY <2>1
<1>10. Has(f, k)' /\ Blank(f, k)'
  <2>1. CASE InOrder(m) /\ Carries(m)
    <3>1. k \in 1..Blocks[f]
      BY <1>t, <1>7, <1>9, <2>1 DEF Carries
    <3>2. upload[k] = Erased
      BY <1>8, <1>9, <2>1, <3>1 DEF Blank
    <3>3. good = <<f, k>>
      BY <1>7, <1>9, <2>1, <3>2 DEF Program
    <3>4. upload' = [upload EXCEPT ![k] = <<f, k>>]
      <4>1. PICK cell \in {good, Bad} :
              /\ upload' = [upload EXCEPT ![b] = cell]
              /\ disturbed' = (disturbed \/ cell # good \/ m.from # client.session)
        BY <1>1, <2>1
      <4> QED
        BY <1>4, <1>9, <3>3, <4>1
    <3>5. \A i \in 1..Blocks[f] : i \in Area
      BY <1>t, Geometry
    <3> HIDE DEF b, good
    <3>6. \A i \in 1..Blocks[f] : upload'[i] = IF i = k THEN <<f, k>> ELSE upload[i]
      BY <1>t, <3>4, <3>5
    <3>7. \A i \in 1..Blocks[f] :
            i # k => (i <= k <=> i <= conns[m.port]) /\ (i > k <=> i > conns[m.port])
      BY <1>t, <1>8, <1>9, <2>1
    <3> QED
      BY <1>8, <3>6, <3>7 DEF Has, Blank
  <2>2. CASE ~(InOrder(m) /\ Carries(m))
    <3>1. upload' = upload
      BY <1>1, <2>2
    <3>2. \A i \in 1..Blocks[f] :
            (i <= k <=> i <= conns[m.port]) /\ (i > k <=> i > conns[m.port])
      BY <1>t, <1>7, <1>8, <1>9, <2>2 DEF Carries
    <3> QED
      BY <1>8, <3>1, <3>2 DEF Has, Blank
  <2> QED
    BY <2>1, <2>2
<1>11. /\ Closed(m, k) /\ net' = (net \ {m}) \cup {Ack(m.from, m.port, k)}
       /\ pc' = IF IsLast(m) THEN "check" ELSE "loop"
  BY <1>1, <1>2, <1>9
<1> HIDE DEF b, good
<1>12. Open' \/ Done'
  <2>1. CASE IsLast(m)
    <3>1. m.blk = LastBlock(f) /\ n = LastBlock(f) /\ k = LastBlock(f)
      BY <1>t, <1>7, <1>8, <1>9, <2>1 DEF IsLast, InOrder
    <3>2. Intact(f)'
      BY <1>t, <1>10, <3>1 DEF Has, Intact
    <3>3. client.port \notin DOMAIN conns'
      BY <1>7, <1>11, <2>1 DEF Closed
    <3> QED
      BY <3>1, <3>2, <3>3 DEF Done, LastBlock
  <2>2. CASE ~IsLast(m)
    <3>1. conns' = [conns EXCEPT ![m.port] = k] /\ pc' = "loop"
      BY <1>11, <2>2 DEF Closed
    <3>2. client.port \in DOMAIN conns' /\ conns'[client.port] = k
      BY <1>1, <1>7, <3>1
    <3>3. k < LastBlock(f)
      BY <1>t, <1>7, <1>8, <1>9, <2>2 DEF IsLast
    <3>4. Has(f, conns[client.port])' /\ Blank(f, conns[client.port])'
      BY <1>10, <3>2 DEF Has, Blank
    <3> QED
      BY <1>9, <3>1, <3>2, <3>3, <3>4 DEF Open, LastBlock
  <2> QED
    BY <2>1, <2>2
<1>13. \A a \in Acks(s)' :
         a.port = client.port =>
             a.blk <= n /\ (a.blk = n => Done' \/ conns'[client.port] = n)
  <2> SUFFICES ASSUME NEW a \in Acks(s)', a.port = client.port
               PROVE  a.blk <= n /\ (a.blk = n => Done' \/ conns'[client.port] = n)
    OBVIOUS
  <2>1. Done' \/ conns'[client.port] = k
    <3>1. CASE IsLast(m)
      BY <1>11, <1>12, <3>1 DEF Open
    <3>2. CASE ~IsLast(m)
      BY <1>1, <1>7, <1>11, <3>2 DEF Closed
    <3> QED
      BY <3>1, <3>2
  <2>2. CASE a \in net
    <3>1. a \in Acks(s) /\ a.blk <= n /\ (a.blk = n => conns[client.port] = n)
      <4>1. a \in Acks(s)
        BY <2>2 DEF Acks
      <4> QED
        BY <1>1, <1>5, <1>6, <1>7, <4>1 DEF AckInv, Uploading, Done
    <3>2. conns[client.port] = n => k = n
      BY <1>7, <1>8, <1>9, <1>t
    <3> QED
      BY <2>1, <3>1, <3>2
  <2>3. CASE a \notin net
    <3>1. a.blk = k
      BY <1>11, <2>3 DEF Acks, Ack
    <3> QED
      BY <1>t, <1>9, <2>1, <3>1
  <2> QED
    BY <2>2, <2>3
<1>14. \A d \in Sent(s)' : d.port = client.port /\ d.file = f /\ d.blk <= n
  <2>1. Sent(s)' \subseteq Sent(s)
    BY <1>11 DEF Sent, Ack
  <2> QED
    BY <1>5, <1>6, <2>1 DEF AckInv, Uploading
<1> QED
  BY <1>6, <1>12, <1>13, <1>14 DEF Requesting, Uploading

LEMMA AckNext == ASSUME Fits PROVE AckInv /\ [Next]_vars => AckInv'
<1> SUFFICES ASSUME AckInv, [Next]_vars PROVE AckInv'
  OBVIOUS
<1>1. IInv'
  BY NextInv DEF AckInv
<1>2. Fresh' /\ Requesting' /\ Uploading'
  <2>1. CASE UNCHANGED vars
    BY <2>1, Fewer DEF vars, boardVars
  <2>2. CASE Receive
    <3>1. PICK m \in net : WriteRequest(m) \/ DataBlock(m) \/ NoConnection(m)
      BY <2>2 DEF Receive
    <3>2. pc = "loop" /\ UNCHANGED <<storage, step, client, cut>>
      BY <2>2 DEF Receive
    <3>3. CASE NoConnection(m)
      BY <3>2, <3>3, Fewer DEF NoConnection
    <3> QED
      BY <3>1, <3>2, <3>3, WriteRequestAck, DataBlockAck
  <2> QED
    BY <2>1, <2>2, ClientAck, TakeAckAck, BoardAck DEF Next
<1> QED
  BY <1>1, <1>2 DEF AckInv

LEMMA AckStored == AckInv => AckedIsStored
<1> SUFFICES ASSUME AckInv, client.phase = "data", ~disturbed,
                    NEW b \in 1..client.next - 1
             PROVE  upload[b] = <<client.file, b>>
  BY DEF AckedIsStored
<1>1. /\ client.file \in Files /\ client.next \in Nat
      /\ client.next <= LastBlock(client.file)
      /\ Blocks[client.file] \in Nat
  BY ClientTypes, Geometry DEF AckInv, IInv, ClientOK
<1>2. b \in 1..Blocks[client.file] /\ b <= client.next - 1
  BY <1>1 DEF LastBlock
<1>3. CASE Open
  BY <1>1, <1>2, <1>3 DEF Open, Has
<1>4. CASE Done
  BY <1>2, <1>4 DEF Done, Intact
<1> QED
  BY <1>3, <1>4 DEF AckInv, Uploading

(* A block that the client has seen acknowledged is in the flash, unless   *)
(* more than losses and repetitions met the upload, when every file fits   *)
(* in the sectors that are erased for it (tftpserver.cpp:174-218, :311).   *)
THEOREM AckedIsStoredCorrect == ASSUME Fits PROVE Spec => []AckedIsStored
<1>1. Init => AckInv
  <2>1. Init => IInv
    BY InitInv
  <2>2. Init => Fresh /\ Requesting /\ Uploading
    BY DEF Init, Idle, Fresh, Requesting, Uploading
  <2> QED
    BY <2>1, <2>2 DEF AckInv
<1>2. AckInv /\ [Next]_vars => AckInv'
  BY AckNext
<1> QED
  BY <1>1, <1>2, AckStored, PTL DEF Spec
=============================================================================
