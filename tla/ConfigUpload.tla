---------------------------- MODULE ConfigUpload ----------------------------
(***************************************************************************)
(* A new configuration: upload_config.py sends it by TFTP, the server of   *)
(* the firmware (source/tftpserver.cpp) writes it to the upload area of    *)
(* the flash, and the main loop (source/remora-rt1052.cpp) checks it,      *)
(* moves it to the storage area and resets the board, which then boots     *)
(* from the storage area.                                                  *)
(*                                                                         *)
(* The network loses, delays and reorders datagrams; the client repeats    *)
(* its last one at any time.  The power may go at any time and every       *)
(* operation of the flash may fail.  The request also stops the threads    *)
(* and the DMA, which is left out.                                         *)
(***************************************************************************)
EXTENDS Naturals, FiniteSets

CONSTANTS
    Files,          \* configurations, with the metadata in front
    Blocks,         \* the blocks of a file that carry data (512 bytes each)
    Full,           \* files whose last block is full: an empty one follows
    Pages,          \* the pages of a file in the storage area
    AreaBlocks,     \* blocks of the upload area that a file may take, and
    StorePages,     \* pages of the storage area
    SectorBlocks,   \* SECTOR_SIZE / 512
    SectorPages,    \* SECTOR_SIZE / FLASH_PAGE_SIZE
    Pool,           \* free UDP control blocks (MEMP_NUM_UDP_PCB without 3)
    MaxPort,        \* bound on the ports of the server between two boots
    MaxFailures,    \* bound on the failures of the flash and of the power
    MaxSession,     \* bound on the runs of upload_config.py
    MaxNet          \* bound on the datagrams when the client repeats one

ASSUME UploadAssumption ==
    /\ Blocks \in [Files -> Nat \ {0}]
    /\ Pages \in [Files -> Nat \ {0}]
    /\ AreaBlocks \in Nat /\ StorePages \in Nat
    /\ \A f \in Files : Blocks[f] <= AreaBlocks /\ Pages[f] <= StorePages
    /\ Full \subseteq Files /\ Files # {} /\ "broken" \notin Files
    /\ SectorBlocks \in Nat \ {0} /\ SectorPages \in Nat \ {0}
    /\ Pool \in Nat /\ MaxPort \in Nat /\ MaxSession \in Nat
    /\ MaxNet \in Nat /\ MaxFailures \in Nat

VARIABLES
    pc,             \* "loop", "check" (newJson), "move", and "boot": no power
    conns,          \* args->block of each open connection, by its port
    lastPort,       \* the last port that was handed out
    upload,         \* the upload area, by blocks
    storage,        \* the storage area, by pages
    failures,       \* ghost: failures of the flash and of the power
    step,           \* how far moveJson is
    client,         \* upload_config.py
    net,            \* the datagrams under way
    disturbed,      \* ghost: something other than a loss met this upload
    cut             \* ghost: the last move was not finished

boardVars == <<pc, conns, lastPort, upload, storage, step, failures>>
vars == <<boardVars, client, net, disturbed, cut>>

LastBlock(f) == Blocks[f] + (IF f \in Full THEN 1 ELSE 0)
Area == 1..AreaBlocks
Store == 1..StorePages

(* What a block or a page of the flash may hold.                           *)
Erased == <<>>
Bad == <<"bad">>
Cells == {Erased, Bad} \cup (Files \X (Area \cup Store))

(* The flash can clear bits only.                                          *)
Program(old, new) == IF old \in {Erased, new} THEN new ELSE Bad

Wrq(s) == [type |-> "wrq", from |-> s]
Data(s, c, f, b) == [type |-> "data", from |-> s, port |-> c, file |-> f, blk |-> b]
Ack(s, c, b) == [type |-> "ack", to |-> s, port |-> c, blk |-> b]

(* jsonFromFlash: the first page holds the length.                         *)
Loaded == IF storage[1] = Erased THEN "default"
          ELSE IF \E f \in Files : \A p \in 1..Pages[f] : storage[p] = <<f, p>>
          THEN CHOOSE f \in Files : storage[1] = <<f, 1>>
          ELSE "broken"

TypeOK ==
    /\ pc \in {"boot", "loop", "check", "move"}
    /\ DOMAIN conns \subseteq 1..lastPort
    /\ lastPort \in 0..MaxPort
    /\ \A c \in DOMAIN conns : \E f \in Files : conns[c] \in 0..LastBlock(f) - 1
    /\ upload \in [Area -> Cells]
    /\ storage \in [Store -> Cells]
    /\ step \in Nat /\ failures \in 0..MaxFailures
    /\ client \in [session : 0..MaxSession, phase : {"off", "wrq", "data"},
                   file : Files, port : 0..MaxPort, next : Nat]
    /\ disturbed \in BOOLEAN /\ cut \in BOOLEAN

(* No client is running; s of them have.                                   *)
Idle(s) == [session |-> s, phase |-> "off", file |-> CHOOSE f \in Files : TRUE,
            port |-> 0, next |-> 0]

(* A new board, whose flash is erased.                                     *)
Init ==
    /\ pc = "boot"
    /\ conns = <<>>
    /\ lastPort = 0
    /\ upload = [b \in Area |-> Erased]
    /\ storage = [p \in Store |-> Erased]
    /\ step = 0
    /\ failures = 0
    /\ client = Idle(0)
    /\ net = {}
    /\ disturbed = FALSE
    /\ cut = FALSE

-----------------------------------------------------------------------------
(***************************************************************************)
(* The client, tftpy, which sends one block at a time and repeats it until *)
(* the acknowledgement has come.                                           *)
(***************************************************************************)
Request == IF client.phase = "wrq" THEN Wrq(client.session)
           ELSE Data(client.session, client.port, client.file, client.next)

Begin ==
    /\ client.phase = "off" /\ client.session < MaxSession
    /\ \E f \in Files :
         client' = [session |-> client.session + 1, phase |-> "wrq", file |-> f,
                    port |-> 0, next |-> 0]
    /\ net' = net \cup {Wrq(client.session + 1)}
    /\ disturbed' = FALSE
    /\ UNCHANGED <<boardVars, cut>>

Repeat ==
    /\ client.phase \in {"wrq", "data"}
    /\ Request \notin net /\ Cardinality(net) < MaxNet
    /\ net' = net \cup {Request}
    /\ UNCHANGED <<boardVars, client, disturbed, cut>>

(* What is sent to the socket of a client that has ended is lost.          *)
ToServer == {m \in net : m.type # "ack"}

GiveUp ==
    /\ client.phase \in {"wrq", "data"}
    /\ client' = Idle(client.session) /\ net' = ToServer
    /\ disturbed' = TRUE
    /\ UNCHANGED <<boardVars, cut>>

(* An acknowledgement that the client waits for; any other is ignored.     *)
Awaited(m) ==
    /\ m.to = client.session
    /\ \/ client.phase = "wrq" /\ m.blk = 0
       \/ client.phase = "data" /\ m.port = client.port /\ m.blk = client.next

TakeAck ==
    /\ \E m \in net :
         /\ m.type = "ack"
         /\ IF ~Awaited(m)
              THEN client' = client /\ net' = net \ {m}
            ELSE IF client.phase = "data" /\ m.blk = LastBlock(client.file)
              THEN client' = Idle(client.session) /\ net' = ToServer
            ELSE /\ client' = [client EXCEPT !.phase = "data", !.port = m.port,
                                             !.next = m.blk + 1]
                 /\ net' = (net \ {m}) \cup
                           {Data(m.to, m.port, client.file, m.blk + 1)}
    /\ UNCHANGED <<boardVars, disturbed, cut>>

Lose ==
    /\ \E m \in net : net' = net \ {m}
    /\ UNCHANGED <<boardVars, client, disturbed, cut>>

-----------------------------------------------------------------------------
(***************************************************************************)
(* The server.  The main loop hands it one datagram per iteration.         *)
(***************************************************************************)

(* Mutant of EraseArea: the second sector is not erased.                   *)
EraseAreaFirst(n) ==
    [b \in Area |-> IF n > 0 /\ b <= SectorBlocks THEN Erased ELSE upload[b]]

(* The upload area when n sectors of it are erased.                        *)
EraseArea(n) ==
    [b \in Area |-> IF b <= n * SectorBlocks THEN Erased ELSE upload[b]]

Failure == failures < MaxFailures /\ failures' = failures + 1

(* IAP_tftp_recv_callback and IAP_tftp_process_write.  When the pool is    *)
(* exhausted the request is dropped; when an erase fails the connection    *)
(* stays without an answer.                                                *)
WriteRequest(m) ==
    /\ m.type = "wrq"
    /\ IF Cardinality(DOMAIN conns) >= Pool
         THEN /\ net' = net \ {m}
              /\ UNCHANGED <<conns, lastPort, upload, disturbed, failures>>
         ELSE \E n \in 0..2 :
              /\ lastPort < MaxPort
              /\ lastPort' = lastPort + 1
              /\ conns' = [c \in DOMAIN conns \cup {lastPort'} |->
                             IF c = lastPort' THEN 0 ELSE conns[c]]
              /\ upload' = EraseArea(n)
              /\ IF n = 2 THEN UNCHANGED failures ELSE Failure
              /\ net' = (net \ {m}) \cup
                        (IF n = 2 THEN {Ack(m.from, lastPort', 0)} ELSE {})
              /\ disturbed' = (disturbed \/ client.phase = "data")
    /\ UNCHANGED pc

InOrder(m) == m.blk = conns[m.port] + 1

Carries(m) == m.blk <= Blocks[m.file]
IsLast(m) == m.blk = LastBlock(m.file)

(* Mutant of Answer: only a block that is in order is acknowledged.        *)
AnswerInOrder(m, b) ==
    net' = (net \ {m}) \cup (IF InOrder(m) THEN {Ack(m.from, m.port, b)} ELSE {})

Answer(m, b) == net' = (net \ {m}) \cup {Ack(m.from, m.port, b)}

(* Mutant of Closed: the last block leaves the connection open.            *)
ClosedNever(m, b) == conns' = [conns EXCEPT ![m.port] = b]

Closed(m, b) ==
    conns' = IF IsLast(m) THEN [c \in DOMAIN conns \ {m.port} |-> conns[c]]
             ELSE [conns EXCEPT ![m.port] = b]

(* IAP_wrq_recv_callback.  A page that fails to program is acknowledged    *)
(* all the same; a short block ends the connection and sets newJson.       *)
DataBlock(m) ==
    /\ m.type = "data" /\ m.port \in DOMAIN conns
    /\ LET b == conns[m.port] + (IF InOrder(m) THEN 1 ELSE 0)
           good == Program(upload[b], <<m.file, m.blk>>)
       IN  /\ IF InOrder(m) /\ Carries(m)
                THEN \E cell \in {good, Bad} :
                       /\ IF cell = good THEN UNCHANGED failures ELSE Failure
                       /\ upload' = [upload EXCEPT ![b] = cell]
                       /\ disturbed' = (disturbed \/ cell # good
                                                  \/ m.from # client.session)
                ELSE /\ UNCHANGED <<upload, failures>>
                     /\ disturbed' = (disturbed \/ m.from # client.session)
           /\ Closed(m, b)
           /\ Answer(m, b)
    /\ pc' = IF IsLast(m) THEN "check" ELSE "loop"
    /\ UNCHANGED lastPort

NoConnection(m) ==
    /\ m.type = "data" /\ m.port \notin DOMAIN conns
    /\ net' = net \ {m}
    /\ UNCHANGED <<pc, conns, lastPort, upload, disturbed, failures>>

Receive ==
    /\ pc = "loop"
    /\ \E m \in net : WriteRequest(m) \/ DataBlock(m) \/ NoConnection(m)
    /\ UNCHANGED <<storage, step, client, cut>>

-----------------------------------------------------------------------------
(***************************************************************************)
(* The main loop, when newJson is set, and the restart.                    *)
(***************************************************************************)

(* The upload area holds f, whole.                                         *)
Intact(f) == \A b \in 1..Blocks[f] : upload[b] = <<f, b>>

(* Mutant of CrcGood: only the metadata are looked at.                     *)
CrcGoodLength(f) == upload[1] = <<f, 1>>

(* The CRC over the bytes that the metadata count tells any two apart.     *)
CrcGood(f) == Intact(f)

(* checkJson.                                                              *)
Check ==
    /\ pc = "check"
    /\ pc' = IF \E f \in Files : CrcGood(f) THEN "move" ELSE "loop"
    /\ step' = 0
    /\ UNCHANGED <<conns, lastPort, upload, storage, failures, client, net,
                   disturbed, cut>>

Moved == upload[1][1]
Sectors == (Pages[Moved] + SectorPages - 1) \div SectorPages
SectorOf(p) == (p - 1) \div SectorPages
Copied(p) == IF Intact(Moved) THEN <<Moved, p>> ELSE Bad

(* Erase or program number step of moveJson.                               *)
MoveStep ==
    storage' = [p \in Store |->
        IF step < Sectors /\ SectorOf(p) = step THEN Erased
        ELSE IF p + Sectors = step + 1 THEN Program(storage[p], Copied(p))
        ELSE storage[p]]

(* The memory is lost, but for the flash.                                  *)
Off == pc' = "boot" /\ conns' = <<>> /\ lastPort' = 0 /\ step' = 0

(* moveJson, and NVIC_SystemReset after it.                                *)
Move ==
    /\ pc = "move"
    /\ MoveStep
    /\ IF step + 1 = Sectors + Pages[Moved]
         THEN Off /\ cut' = FALSE
         ELSE step' = step + 1 /\ UNCHANGED <<pc, conns, lastPort, cut>>
    /\ UNCHANGED <<upload, client, net, disturbed, failures>>

(* What a step of moveJson that does not end leaves behind.                *)
HalfDone ==
    \E S \in SUBSET {p \in Store : (step < Sectors /\ SectorOf(p) = step)
                                   \/ p + Sectors = step + 1} :
        storage' = [p \in Store |-> IF p \in S THEN Bad ELSE storage[p]]

(* An operation of the flash fails: moveJson returns, and the reset comes  *)
(* all the same.                                                           *)
MoveFails ==
    /\ pc = "move" /\ Off /\ Failure
    /\ HalfDone
    /\ cut' = TRUE /\ disturbed' = TRUE
    /\ UNCHANGED <<upload, client, net>>

(* The upload area needs no HalfDone: it is erased before it is read.      *)
PowerFails ==
    /\ pc # "boot" /\ Off /\ Failure
    /\ IF pc = "move" THEN HalfDone /\ cut' = TRUE ELSE UNCHANGED <<storage, cut>>
    /\ disturbed' = TRUE
    /\ UNCHANGED <<upload, client, net>>

Boot ==
    /\ pc = "boot" /\ pc' = "loop"
    /\ UNCHANGED <<conns, lastPort, upload, storage, step, failures, client,
                   net, disturbed, cut>>

(* An iteration without a datagram for the server.                         *)
Pass == pc = "loop" /\ UNCHANGED vars

Next ==
    \/ Begin \/ Repeat \/ GiveUp \/ TakeAck \/ Lose
    \/ Receive \/ Check \/ Move \/ MoveFails \/ PowerFails \/ Boot \/ Pass

(* The main loop goes on, the client repeats its request, and a network    *)
(* that is given datagrams again and again does not lose them all.         *)
Spec == /\ Init /\ [][Next]_vars
        /\ SF_vars(Receive) /\ WF_vars(Check) /\ WF_vars(Move) /\ WF_vars(Boot)
        /\ SF_vars(TakeAck) /\ WF_vars(Repeat)

-----------------------------------------------------------------------------
(***************************************************************************)
(* Properties.                                                             *)
(***************************************************************************)

(* The board boots a whole configuration that was sent, or the default,    *)
(* whatever the network, a second client and the flash do to the upload,   *)
(* unless a move was cut short (checkJson and moveJson, :168-299).         *)
BootsWhole == pc # "move" /\ ~cut => Loaded # "broken"

(* As long as nothing but losses and repetitions meet the upload, a block  *)
(* that the client has seen acknowledged is in the flash, whole and in its *)
(* place (IAP_wrq_recv_callback, tftpserver.cpp:174-218).                  *)
AckedIsStored ==
    client.phase = "data" /\ ~disturbed =>
        \A b \in 1..client.next - 1 : upload[b] = <<client.file, b>>

(* An upload whose connection is made ends with a restart into the new     *)
(* configuration, though datagrams get lost on the way, unless something   *)
(* worse happens.                                                          *)
Completes ==
    \A f \in Files :
        client.phase = "data" /\ client.file = f
            ~> (pc # "move" /\ Loaded = f) \/ disturbed
=============================================================================
