------------------------------- MODULE Inputs -------------------------------
(***************************************************************************)
(* A position encoder of the base thread and its index: the quadrature     *)
(* decoder in software (source/modules/encoder), or the decoder of the     *)
(* controller with an interrupt for the index (source/modules/qdc).  On    *)
(* the index both freeze the count they report for three servo periods     *)
(* and raise a bit of txData.inputs for as long.                           *)
(*                                                                         *)
(* By priority: the base thread interrupts the servo thread, which         *)
(* changes other bits of the same word (source/modules/digitalPin); that   *)
(* interrupts the index interrupt, and that the main loop, which copies    *)
(* the count and then the bits into a reply (source/ethernet.cpp).  A tick *)
(* of the base thread is one action, what it interrupts takes two steps.   *)
(*                                                                         *)
(* Of the word only the index bit is kept.                                 *)
(***************************************************************************)
EXTENDS Integers

CONSTANTS
    Kinds,          \* of "plain" (no index pin), "encoder" and "qdc"
    Positions,      \* where the axle can be, in edges of the two channels,
    Start,          \* where it is at power-up,
    Marks,          \* where the index pin is high,
    Moves,          \* how far it turns in one tick of the base thread,
    MaxSkips,       \* and how often that may be more than one edge
    IndexPulse,     \* indexPulse, in ticks: int8_t
    Gap             \* the most ticks from one reply to the next

ASSUME InputsAssumption ==
    /\ Kinds \subseteq {"plain", "encoder", "qdc"}
    /\ Positions \subseteq Int /\ Marks \subseteq Positions
    /\ Start \in Positions
    /\ Moves \subseteq Int
    /\ MaxSkips \in Nat
    /\ IndexPulse \in 1..127
    /\ Gap \in 1..IndexPulse + 1

VARIABLES
    kind,
    position, skips,        \* the axle, and its moves of several edges
    old,                    \* state & 3: the channels at the last tick
    count, indexCount, pulseCount, indexDetected,
    sampled, offset,        \* ghosts: the first tick has been; what the count
                            \* is off by since then
    pv, indexBit,           \* the two fields of txData
    index,                  \* the index interrupt,
    servo, loaded,          \* the servo thread, with the bit it has loaded,
    reply, copied,          \* and the main loop, with the count copied
    sinceReply,             \* ticks since the last reply
    latch,                  \* ghost: whether replies have shown the index,
    edge, mark,             \* the mark that pulsed last, that of the index,
    stale                   \* and whether its count may be an earlier one

axle == <<kind, position, skips, edge>>
decoder == <<old, count, sampled, offset>>
ghosts == <<latch, mark, stale>>
indexVars == <<indexCount, pulseCount, indexDetected, ghosts>>
threads == <<index, servo, loaded, reply, copied, sinceReply>>
vars == <<axle, decoder, indexVars, pv, indexBit, threads>>

TypeOK ==
    /\ kind \in Kinds
    /\ position \in Positions /\ skips \in 0..MaxSkips
    /\ old \in 0..3
    /\ count \in Int /\ indexCount \in Int /\ offset \in Int
    /\ pulseCount \in 0..IndexPulse
    /\ indexDetected \in BOOLEAN /\ sampled \in BOOLEAN
    /\ pv \in Int /\ indexBit \in BOOLEAN
    /\ index \in {"none", "pending", "flagged", "late"}
    /\ servo \in {"idle", "loaded", "late", "done"} /\ loaded \in BOOLEAN
    /\ reply \in {"idle", "copying", "late"} /\ copied \in Int
    /\ sinceReply \in 0..Gap
    /\ latch \in {"none", "unseen", "seen", "lost"}
    /\ edge \in Positions /\ mark \in Positions
    /\ stale \in BOOLEAN

(* The constructors leave state as it is in memory.                        *)
Init ==
    /\ kind \in Kinds
    /\ position = Start /\ skips = 0
    /\ old \in 0..3
    /\ count = 0 /\ indexCount = 0 /\ pulseCount = 0
    /\ indexDetected = FALSE
    /\ sampled = FALSE /\ offset = 0
    /\ pv = 0 /\ indexBit = FALSE
    /\ index = "none"
    /\ servo = "idle" /\ loaded = FALSE
    /\ reply = "idle" /\ copied = 0
    /\ sinceReply = 0
    /\ latch = "none" /\ stale = FALSE
    /\ edge = Start /\ mark = Start

-----------------------------------------------------------------------------
(***************************************************************************)
(* The decoder.                                                            *)
(***************************************************************************)
(* The channels at a position: A is 1, B is 2, and upwards B leads.        *)
Levels(p) == CASE p % 4 = 0 -> 0
               [] p % 4 = 1 -> 2
               [] p % 4 = 2 -> 3
               [] p % 4 = 3 -> 1

(* Mutant of Delta: two edges at once are taken for noise.                 *)
DeltaOneEdge(s) ==
    CASE s \in {1, 7, 8, 14} -> 1
      [] s \in {2, 4, 11, 13} -> -1
      [] OTHER -> 0

(* By the old channels and four times the new ones.                        *)
Delta(s) ==
    CASE s \in {0, 5, 10, 15} -> 0
      [] s \in {1, 7, 8, 14} -> 1
      [] s \in {2, 4, 11, 13} -> -1
      [] s \in {3, 12} -> 2
      [] OTHER -> -2

(* The count after a tick that finds the axle at p.                        *)
Counted(p) ==
    IF kind = "qdc" THEN p - Start ELSE count + Delta(old + 4 * Levels(p))

Decode(p) ==
    /\ count' = Counted(p)
    /\ old' = IF kind = "qdc" THEN old ELSE Levels(p)
    /\ sampled' = TRUE
    /\ offset' = IF sampled THEN offset ELSE Counted(p) - p

-----------------------------------------------------------------------------
(***************************************************************************)
(* update() of either module when the axle is at p: with an index, one of  *)
(* Latch, Maintain and Release.                                            *)
(***************************************************************************)
AtIndex(p) ==
    \/ kind = "encoder" /\ p \in Marks
    \/ kind = "qdc" /\ indexDetected

(* An index that comes right after another does not show as a new one.     *)
Noted(p) ==
    IF latch = "seen" THEN UNCHANGED ghosts
    ELSE /\ latch' = "unseen"
         /\ mark' = IF kind = "qdc" THEN edge ELSE p
         /\ stale' = (index = "flagged" \/ latch = "lost")

(* Mutant of Latch: the pulse ends a tick earlier.                         *)
LatchShort(p) ==
    /\ AtIndex(p) /\ pulseCount = 0
    /\ indexCount' = IF kind = "qdc" THEN indexCount ELSE Counted(p)
    /\ pv' = indexCount'
    /\ pulseCount' = IndexPulse - 1
    /\ indexBit' = TRUE
    /\ Noted(p)
    /\ UNCHANGED indexDetected

Latch(p) ==
    /\ AtIndex(p) /\ pulseCount = 0
    /\ indexCount' = IF kind = "qdc" THEN indexCount ELSE Counted(p)
    /\ pv' = indexCount'
    /\ pulseCount' = IndexPulse
    /\ indexBit' = TRUE
    /\ Noted(p)
    /\ UNCHANGED indexDetected

(* Mutant of Maintain: the index event is never taken back.                *)
MaintainKeepsEvent(p) ==
    /\ pulseCount > 0
    /\ pulseCount' = pulseCount - 1
    /\ UNCHANGED <<indexDetected, pv, indexBit, indexCount, ghosts>>

(* Mutant of Maintain: the count is reported during the pulse, too.        *)
MaintainCounts(p) ==
    /\ pulseCount > 0
    /\ pulseCount' = pulseCount - 1
    /\ indexDetected' = FALSE
    /\ pv' = Counted(p)
    /\ UNCHANGED <<indexBit, indexCount, ghosts>>

(* Mutant of Maintain: the counter runs on.                                *)
MaintainAlways(p) ==
    /\ ~(AtIndex(p) /\ pulseCount = 0)
    /\ pulseCount' = pulseCount - 1
    /\ indexDetected' = FALSE
    /\ UNCHANGED <<pv, indexBit, indexCount, ghosts>>

Maintain(p) ==
    /\ pulseCount > 0
    /\ pulseCount' = pulseCount - 1
    /\ indexDetected' = FALSE
    /\ UNCHANGED <<pv, indexBit, indexCount, ghosts>>

Release(p) ==
    /\ ~AtIndex(p) /\ pulseCount = 0
    /\ indexBit' = FALSE
    /\ pv' = Counted(p)
    /\ latch' = "none" /\ mark' = Start /\ stale' = FALSE
    /\ UNCHANGED <<indexCount, pulseCount, indexDetected>>

Plain(p) == pv' = Counted(p) /\ UNCHANGED <<indexBit, indexVars>>

Update(p) ==
    /\ Decode(p)
    /\ IF kind = "plain" THEN Plain(p) ELSE Latch(p) \/ Maintain(p) \/ Release(p)

(* The controller of the port: the pin rises, and is not being handled.    *)
Between(p) == {m \in Marks : \/ position < m /\ m <= p
                             \/ p <= m /\ m < position}
Rises(p) == kind = "qdc" /\ Between(p) # {} /\ index = "none"

(* A tick interrupts a step of another thread at most once, and an index   *)
(* interrupt that is pending has begun.                                    *)
ServoRuns == servo \in {"loaded", "late"}
InTime == servo # "late" /\ reply # "late" /\ index \in {"none", "flagged"}
Interrupted(pc, busy) == IF pc = busy THEN "late" ELSE pc
ServoAfter == IF ServoRuns THEN "late" ELSE "idle"

(* One tick of the base thread, and the motion of the axle before it.      *)
BaseTick(p) ==
    /\ InTime /\ sinceReply < Gap
    /\ p - position \in Moves
    /\ position' = p
    /\ skips' = IF p - position \in -1..1 THEN skips ELSE skips + 1
    /\ skips' <= MaxSkips
    /\ Update(p)
    /\ servo' = ServoAfter
    /\ reply' = Interrupted(reply, "copying")
    /\ index' = IF Rises(p) THEN "pending" ELSE Interrupted(index, "flagged")
    /\ edge' = IF Rises(p) THEN CHOOSE m \in Between(p) : TRUE ELSE edge
    /\ sinceReply' = sinceReply + 1
    /\ UNCHANGED <<kind, loaded, copied>>

-----------------------------------------------------------------------------
(***************************************************************************)
(* What the base thread interrupts.                                        *)
(***************************************************************************)
(* DigitalPin::update loads the word, changes its own bit and stores it;   *)
(* at most once between two ticks.                                         *)
ServoLoad ==
    /\ servo = "idle" /\ servo' = "loaded"
    /\ loaded' = indexBit
    /\ UNCHANGED <<axle, decoder, indexVars, pv, indexBit, index, reply, copied,
                   sinceReply>>

ServoStore ==
    /\ ServoRuns /\ servo' = "done"
    /\ indexBit' = loaded
    /\ loaded' = FALSE
    /\ latch' = IF latch = "unseen" /\ ~loaded THEN "lost" ELSE latch
    /\ UNCHANGED <<axle, decoder, indexCount, pulseCount, indexDetected, mark, stale,
                   pv, index, reply, copied, sinceReply>>

(* Qdc::indexEvent.                                                        *)
IndexFlag ==
    /\ ~ServoRuns
    /\ index = "pending" /\ index' = "flagged"
    /\ indexDetected' = TRUE
    /\ UNCHANGED <<axle, decoder, indexCount, pulseCount, ghosts, pv,
                   indexBit, servo, loaded, reply, copied, sinceReply>>

IndexSave ==
    /\ ~ServoRuns
    /\ index \in {"flagged", "late"} /\ index' = "none"
    /\ indexCount' = position - Start
    /\ UNCHANGED <<axle, decoder, pulseCount, indexDetected, ghosts, pv,
                   indexBit, servo, loaded, reply, copied, sinceReply>>

(* udp_data_callback copies txData into a reply, here once the base thread *)
(* has been started: the count, ...                                        *)
MainRuns == sampled /\ ~ServoRuns /\ index = "none"

ReplyCount ==
    /\ MainRuns
    /\ reply = "idle" /\ reply' = "copying"
    /\ copied' = pv
    /\ UNCHANGED <<axle, decoder, indexVars, pv, indexBit, index, servo, loaded,
                   sinceReply>>

(* ... and the bits.                                                       *)
ReplyBits ==
    /\ MainRuns
    /\ reply # "idle" /\ reply' = "idle"
    /\ copied' = 0 /\ sinceReply' = 0
    /\ latch' = IF latch = "unseen" /\ indexBit THEN "seen" ELSE latch
    /\ UNCHANGED <<axle, decoder, indexCount, pulseCount, indexDetected, mark, stale,
                   pv, indexBit, index, servo, loaded>>

Next ==
    \/ \E p \in Positions : BaseTick(p)
    \/ ServoLoad \/ ServoStore
    \/ IndexFlag \/ IndexSave
    \/ ReplyCount \/ ReplyBits

(* Timers, interrupts and the main loop go on.                             *)
Spec ==
    /\ Init /\ [][Next]_vars
    /\ WF_vars(\E p \in Positions : BaseTick(p))
    /\ WF_vars(ServoStore)
    /\ WF_vars(IndexFlag \/ IndexSave)
    /\ WF_vars(ReplyCount \/ ReplyBits)

-----------------------------------------------------------------------------
(***************************************************************************)
(* Properties.                                                             *)
(***************************************************************************)

(* The count follows the axle: it is exact while no tick misses an edge,   *)
(* and whatever is missed puts it off by whole periods of the channels     *)
(* only, so that it never counts against its own phase (encoder.cpp:77).   *)
PhaseKept ==
    sampled => /\ (count - position - offset) % 4 = 0
               /\ skips = 0 => count = position + offset

(* An index that is latched is shown by a reply before its bit is taken    *)
(* back (encoder.cpp:63, "output the index pulse for 3 servo thread        *)
(* periods so LinuxCNC sees it"), unless the servo thread has stored over  *)
(* the bit.                                                                *)
IndexSeen == [][latch = "unseen" => latch' \in {"unseen", "seen", "lost"}]_vars

(* The first reply that shows an index gives the count at the mark that    *)
(* made it, or that of the tick before if the tick came between the two    *)
(* copies (encoder.cpp:97, "capture the encoder count at the index"),      *)
(* unless the tick found the index flagged and its count not yet saved, or *)
(* the latch before is still there, and was never shown.                   *)
ReportedCount ==
    [][latch = "unseen" /\ latch' = "seen" /\ skips = 0
       => stale \/ copied - (mark + offset) \in -1..1]_vars

(* An axle that stops is reported where it is.                             *)
CatchesUp == <>[][UNCHANGED position]_vars => <>[](pv = count)
=============================================================================
