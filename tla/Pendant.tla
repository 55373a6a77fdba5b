------------------------------- MODULE Pendant -------------------------------
(***************************************************************************)
(* The pendant: the buttons go from its serial port by NVMPG::update       *)
(* (source/modules/nvmpg) into txData.NVMPGinputs and to the pins of       *)
(* LinuxCNC, the display back from the nvmpg component                     *)
(* (LinuxCNC/components/NVMPG/nvmpg.c), which samples a few times a        *)
(* second, by a datagram, udp_mpg_callback and the DMA of the serial port. *)
(*                                                                         *)
(* What is displayed is kept as one position and the selected axis.  The   *)
(* payload is copied, and sent, in two halves, each of which is known by   *)
(* the contents that it comes from.  The time unit is a tick of the        *)
(* board's servo thread.                                                   *)
(***************************************************************************)
EXTENDS Naturals, Sequences

CONSTANTS
    Positions,      \* of the machine; those of Exact are a float's values
    Exact,
    Start,          \* the position at power-up, 0.0
    LastAxis,       \* the axes are 0..LastAxis: 5
    FrameTime,      \* ticks for 52 bytes at 115200 Bd: 5
    MinGap,         \* the least ticks from one datagram to the next
    MaxEvents       \* bound on moves, buttons and losses together

ASSUME PendantAssumption ==
    /\ Exact \subseteq Positions /\ Start \in Exact
    /\ LastAxis \in Nat \ {0}
    /\ FrameTime \in Nat \ {0, 1}
    /\ MinGap \in Nat /\ MinGap > FrameTime
    /\ MaxEvents \in Nat

VARIABLES
    position, posOld,       \* the pin, and what the component last saw
    seen, noticed,          \* the same of the buttons that are down
    selectedAxis, updateFlag,
    comms,                  \* the pin comms-status
    datagram, rest,         \* under way; ticks since the last was received
    receiving,              \* what the main loop does
    mpgData, payloadReceived,
    txData, left, first,    \* the serial line: ticks left, the half sent
    shown,                  \* the display
    held, bytes,            \* the buttons, and what they sent
    bits,                   \* txData.NVMPGinputs
    events,                 \* moves, buttons and losses so far
    lost                    \* ghost: the last datagram was lost

component == <<posOld, noticed, selectedAxis, updateFlag>>
pins == <<position, seen, comms>>
net == <<datagram, lost>>
callback == <<rest, receiving, mpgData>>
serial == <<txData, left, first, shown>>
buttons == <<held, bytes, bits>>
vars == <<component, pins, net, callback, payloadReceived, serial, buttons, events>>

Buttons == {"up", "down"}
Contents == [position : Positions, axis : 0..LastAxis]
None == [position |-> "none", axis |-> 0]
Halves(S) == S \X S

TypeOK ==
    /\ position \in Positions /\ posOld \in Positions
    /\ seen \subseteq Buttons /\ noticed \subseteq Buttons
    /\ selectedAxis \in 0..LastAxis
    /\ updateFlag \in BOOLEAN /\ comms \in BOOLEAN
    /\ datagram \in Contents \cup {None}
    /\ rest \in 0..MinGap
    /\ receiving \in {"idle", "half", "late"}
    /\ mpgData \in Halves(Contents \cup {None})
    /\ payloadReceived \in BOOLEAN
    /\ txData \in Halves(Contents \cup {None})
    /\ left \in 0..FrameTime
    /\ first \in Contents \cup {None}
    /\ shown \in Halves(Contents \cup {None})
    /\ held \subseteq Buttons /\ bits \subseteq Buttons
    /\ bytes \in Seq(Buttons \X BOOLEAN)
    /\ events \in 0..MaxEvents
    /\ lost \in BOOLEAN

Init ==
    /\ position = Start /\ posOld = Start
    /\ seen = {} /\ noticed = {}
    /\ selectedAxis = 0
    /\ updateFlag = FALSE /\ comms = FALSE
    /\ datagram = None /\ lost = FALSE
    /\ rest = MinGap /\ receiving = "idle"
    /\ mpgData = <<None, None>> /\ payloadReceived = FALSE
    /\ txData = <<None, None>> /\ left = 0 /\ first = None
    /\ shown = <<None, None>>
    /\ held = {} /\ bytes = <<>> /\ bits = {}
    /\ events = 0

-----------------------------------------------------------------------------
(***************************************************************************)
(* update of the component, when its counter has run.                      *)
(***************************************************************************)
(* Mutant of Stepped: the axis does not wrap around.                       *)
SteppedOn ==
    IF "up" \in seen THEN selectedAxis - 1
    ELSE IF "down" \in seen THEN selectedAxis + 1
    ELSE selectedAxis

(* Both buttons step when either of them changes; up goes before down.     *)
Stepped ==
    IF "up" \in seen
    THEN IF selectedAxis = 0 THEN LastAxis ELSE selectedAxis - 1
    ELSE IF "down" \in seen THEN (selectedAxis + 1) % (LastAxis + 1)
    ELSE selectedAxis

(* The pin is a double and posOld a float: any other value than a float's  *)
(* differs from what was stored of it.                                     *)
Moved == position # posOld \/ position \notin Exact

Changed == updateFlag \/ Moved \/ seen # noticed

(* Mutant of Report: the flag is cleared, sent or not.                     *)
ReportOrNot ==
    /\ updateFlag' = FALSE
    /\ IF Changed /\ comms
       THEN /\ datagram' = [position |-> position, axis |-> selectedAxis']
            /\ lost' = FALSE
       ELSE UNCHANGED net

Report ==
    IF Changed /\ comms
    THEN /\ datagram' = [position |-> position, axis |-> selectedAxis']
         /\ lost' = FALSE
         /\ updateFlag' = FALSE
    ELSE updateFlag' = Changed /\ UNCHANGED net

(* A datagram arrives or is lost before the next sample.                   *)
Sample ==
    /\ datagram = None
    /\ posOld' = position
    /\ noticed' = seen
    /\ selectedAxis' = IF seen # noticed THEN Stepped ELSE selectedAxis
    /\ Report
    /\ UNCHANGED <<pins, callback, payloadReceived, serial, buttons, events>>

-----------------------------------------------------------------------------
(***************************************************************************)
(* udp_mpg_callback, in the main loop: the copy is not protected.          *)
(***************************************************************************)
ReceiveHalf ==
    /\ datagram # None /\ rest = MinGap
    /\ receiving = "idle" /\ receiving' = "half"
    /\ mpgData' = <<datagram, mpgData[2]>>
    /\ rest' = 0
    /\ UNCHANGED <<component, pins, net, payloadReceived, serial, buttons, events>>

(* ... and NVMPG::configure.                                               *)
ReceiveRest ==
    /\ receiving # "idle" /\ receiving' = "idle"
    /\ mpgData' = <<mpgData[1], datagram>>
    /\ payloadReceived' = TRUE
    /\ datagram' = None
    /\ UNCHANGED <<component, pins, lost, rest, serial, buttons, events>>

-----------------------------------------------------------------------------
(***************************************************************************)
(* NVMPG::update, in the servo thread's interrupt, and the line before it. *)
(***************************************************************************)
(* The DMA takes what is in txData when its turn comes.                    *)
Line ==
    /\ first' = IF left = FrameTime THEN txData[1] ELSE first
    /\ shown' = IF left = 1 THEN <<first, txData[2]>> ELSE shown

AfterTick == IF left = 0 THEN 0 ELSE left - 1

(* Mutant of Forward: the flag is not taken back.                          *)
ForwardAgain ==
    /\ IF payloadReceived
       THEN /\ txData' = mpgData
            /\ left' = IF AfterTick = 0 THEN FrameTime ELSE AfterTick
       ELSE /\ left' = AfterTick
            /\ UNCHANGED txData
    /\ UNCHANGED payloadReceived

(* The payload is copied in any case, but only an idle line sends it.      *)
Forward ==
    IF payloadReceived
    THEN /\ txData' = mpgData
         /\ left' = IF AfterTick = 0 THEN FrameTime ELSE AfterTick
         /\ payloadReceived' = FALSE
    ELSE /\ left' = AfterTick
         /\ UNCHANGED <<txData, payloadReceived>>

(* A byte of the pendant sets or clears the bit of its button.             *)
Poll ==
    IF bytes = <<>> THEN UNCHANGED <<bytes, bits>>
    ELSE /\ bytes' = Tail(bytes)
         /\ bits' = IF Head(bytes)[2] THEN bits \cup {Head(bytes)[1]}
                    ELSE bits \ {Head(bytes)[1]}

(* The main loop is interrupted once at most in a copy.                    *)
ServoTick ==
    /\ receiving # "late"
    /\ receiving' = IF receiving = "half" THEN "late" ELSE receiving
    /\ rest' = IF rest = MinGap THEN MinGap ELSE rest + 1
    /\ Line /\ Forward /\ Poll
    /\ UNCHANGED <<component, pins, net, mpgData, held, events>>

-----------------------------------------------------------------------------
(***************************************************************************)
(* The pendant, the machine and the network.                               *)
(***************************************************************************)
Button(b) ==
    /\ events < MaxEvents /\ events' = events + 1
    /\ held' = IF b \in held THEN held \ {b} ELSE held \cup {b}
    /\ bytes' = Append(bytes, <<b, b \notin held>>)
    /\ UNCHANGED <<component, pins, net, callback, payloadReceived, serial, bits>>

Move ==
    /\ events < MaxEvents /\ events' = events + 1
    /\ position' \in Positions \ {position}
    /\ UNCHANGED <<seen, comms, component, net, callback, payloadReceived,
                   serial, buttons>>

Lose ==
    /\ events < MaxEvents /\ events' = events + 1
    /\ datagram # None /\ receiving = "idle"
    /\ datagram' = None /\ lost' = TRUE
    /\ UNCHANGED <<component, pins, callback, payloadReceived, serial, buttons>>

(* The driver's status; its reads set the pins of the buttons.             *)
Comms ==
    /\ comms' = ~comms
    /\ UNCHANGED <<position, seen, component, net, callback, payloadReceived,
                   serial, buttons, events>>

Feedback ==
    /\ comms /\ seen # bits
    /\ seen' = bits
    /\ UNCHANGED <<position, comms, component, net, callback, payloadReceived,
                   serial, buttons, events>>

Next ==
    \/ Sample \/ ReceiveHalf \/ ReceiveRest \/ ServoTick
    \/ (\E b \in Buttons : Button(b)) \/ Move \/ Lose \/ Comms \/ Feedback

(* Everything is periodic, and what is not lost is received.               *)
Spec ==
    /\ Init /\ [][Next]_vars
    /\ WF_vars(Sample) /\ WF_vars(ReceiveHalf \/ ReceiveRest)
    /\ WF_vars(ServoTick) /\ WF_vars(Feedback)

-----------------------------------------------------------------------------
(***************************************************************************)
(* Properties.                                                             *)
(***************************************************************************)

(* The display never shows a frame made of two: neither the copy nor the   *)
(* transfer is protected from the one before it (ethernet.cpp:179,         *)
(* nvmpg.cpp:103), only datagrams that keep their distance are.            *)
WholeFrames == shown[1] = shown[2]

(* While the link stays up, the board knows the buttons that are held, and *)
(* a display that does not show where the machine is and which axis the    *)
(* wheel moves has lost the last datagram of a machine at rest on a float  *)
(* (nvmpg.c:450, "do updates"; :594, the flag is cleared without an        *)
(* answer).                                                                *)
UpToDate ==
    \/ shown[2] = [position |-> position, axis |-> selectedAxis]
    \/ lost /\ position \in Exact
CatchesUp ==
    <>[]comms /\ []<>(shown[2] # None) => <>[](bits = held /\ UpToDate)
=============================================================================
