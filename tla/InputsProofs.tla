---------------------------- MODULE InputsProofs ----------------------------
(***************************************************************************)
(* Proofs about Inputs, for any axle, motion, index pulse and gap between  *)
(* the replies.                                                            *)
(***************************************************************************)
EXTENDS Inputs, TLAPS

LEMMA LevelsType == ASSUME NEW p \in Int PROVE Levels(p) \in 0..3
<1>1. p % 4 \in 0..3
  OBVIOUS
<1> QED
  BY <1>1 DEF Levels

LEMMA DeltaType == ASSUME NEW s \in Int PROVE Delta(s) \in Int
  BY DEF Delta

LEMMA DeltaTable ==
    /\ \A s \in {0, 5, 10, 15} : Delta(s) = 0
    /\ \A s \in {1, 7, 8, 14} : Delta(s) = 1
    /\ \A s \in {2, 4, 11, 13} : Delta(s) = -1
    /\ \A s \in {3, 12} : Delta(s) = 2
    /\ \A s \in {6, 9} : Delta(s) = -2
  BY DEF Delta

LEMMA Mod4 == ASSUME NEW m \in Int PROVE (4 * m) % 4 = 0
  OBVIOUS

LEMMA Quotient4 ==
    ASSUME NEW p \in Int
    PROVE  \E a \in Int : \E i \in 0..3 :
             /\ p = 4 * a + i
             /\ Levels(p) = CASE i = 0 -> 0 [] i = 1 -> 2 [] i = 2 -> 3 [] i = 3 -> 1
<1>1. p % 4 \in 0..3 /\ p \div 4 \in Int /\ p = 4 * (p \div 4) + (p % 4)
  OBVIOUS
<1> QED
  BY <1>1 DEF Levels

(* The table of the decoder is right about every move up to its phase, and *)
(* exact about single edges.                                               *)
LEMMA DeltaCorrect ==
    ASSUME NEW q \in Int, NEW p \in Int
    PROVE  /\ (Delta(Levels(q) + 4 * Levels(p)) - (p - q)) % 4 = 0
           /\ p - q \in -1..1 => Delta(Levels(q) + 4 * Levels(p)) = p - q
<1> DEFINE d == Delta(Levels(q) + 4 * Levels(p))
<1>1. PICK a \in Int, i \in 0..3 :
        /\ q = 4 * a + i
        /\ Levels(q) = CASE i = 0 -> 0 [] i = 1 -> 2 [] i = 2 -> 3 [] i = 3 -> 1
  BY Quotient4
<1>2. PICK b \in Int, j \in 0..3 :
        /\ p = 4 * b + j
        /\ Levels(p) = CASE j = 0 -> 0 [] j = 1 -> 2 [] j = 2 -> 3 [] j = 3 -> 1
  BY Quotient4
<1>3. d \in -2..2 /\ d - (j - i) \in {-4, 0, 4}
  <2>0. CASE i = 0
    BY <1>1, <1>2, <2>0, DeltaTable
  <2>1. CASE i = 1
    BY <1>1, <1>2, <2>1, DeltaTable
  <2>2. CASE i = 2
    BY <1>1, <1>2, <2>2, DeltaTable
  <2>3. CASE i = 3
    BY <1>1, <1>2, <2>3, DeltaTable
  <2> QED
    BY <2>0, <2>1, <2>2, <2>3
<1> HIDE DEF d
<1>4. PICK m \in Int : d - (p - q) = 4 * m
  <2>1. CASE d - (j - i) = -4
    <3>1. d - (p - q) = 4 * (a - b - 1) /\ a - b - 1 \in Int
      BY <1>1, <1>2, <1>3, <2>1
    <3> QED
      BY <3>1
  <2>2. CASE d - (j - i) = 0
    <3>1. d - (p - q) = 4 * (a - b) /\ a - b \in Int
      BY <1>1, <1>2, <1>3, <2>2
    <3> QED
      BY <3>1
  <2>3. CASE d - (j - i) = 4
    <3>1. d - (p - q) = 4 * (a - b + 1) /\ a - b + 1 \in Int
      BY <1>1, <1>2, <1>3, <2>3
    <3> QED
      BY <3>1
  <2> QED
    BY <1>3, <2>1, <2>2, <2>3
<1>5. (d - (p - q)) % 4 = 0
  BY <1>4, Mod4
<1>6. p - q \in -1..1 => d = p - q
  BY <1>3, <1>4
<1> QED
  BY <1>5, <1>6 DEF d

LEMMA Sum4 ==
    ASSUME NEW x \in Int, NEW y \in Int, x % 4 = 0, y % 4 = 0
    PROVE  (x + y) % 4 = 0
<1>1. x = 4 * (x \div 4) /\ y = 4 * (y \div 4) /\ x \div 4 \in Int /\ y \div 4 \in Int
  OBVIOUS
<1>2. x + y = 4 * ((x \div 4) + (y \div 4)) /\ (x \div 4) + (y \div 4) \in Int
  BY <1>1
<1> QED
  BY <1>2, Mod4

-----------------------------------------------------------------------------
(***************************************************************************)
(* Types.                                                                  *)
(***************************************************************************)
LEMMA CountedType ==
    ASSUME TypeOK, NEW p \in Positions
    PROVE  p \in Int /\ position \in Int /\ Start \in Int /\ Counted(p) \in Int
<1>1. p \in Int /\ Start \in Int /\ position \in Int
  BY InputsAssumption DEF TypeOK
<1>2. old + 4 * Levels(p) \in Int
  BY <1>1, LevelsType DEF TypeOK
<1>3. Delta(old + 4 * Levels(p)) \in Int
  BY <1>2, DeltaType
<1> QED
  BY <1>1, <1>3 DEF Counted, TypeOK

LEMMA BaseTickType ==
    ASSUME TypeOK, NEW p \in Positions, BaseTick(p)
    PROVE  TypeOK'
<1>0. /\ IndexPulse \in 1..127 /\ Gap \in 1..IndexPulse + 1 /\ MaxSkips \in Nat
      /\ Marks \subseteq Positions
  BY InputsAssumption
<1>1. p \in Int /\ position \in Int /\ Counted(p) \in Int /\ Levels(p) \in 0..3
  BY CountedType, LevelsType
<1>2. /\ kind' \in Kinds /\ position' \in Positions /\ skips' \in 0..MaxSkips
      /\ sinceReply' \in 0..Gap /\ loaded' \in BOOLEAN /\ copied' \in Int
  BY <1>0, <1>1 DEF TypeOK, BaseTick
<1>3. /\ old' \in 0..3 /\ count' \in Int /\ sampled' \in BOOLEAN /\ offset' \in Int
  BY <1>1 DEF TypeOK, BaseTick, Update, Decode
<1>4. /\ servo' \in {"idle", "loaded", "late", "done"}
      /\ reply' \in {"idle", "copying", "late"}
      /\ index' \in {"none", "pending", "flagged", "late"}
  BY DEF TypeOK, BaseTick, ServoAfter, Interrupted
<1>5. edge' \in Positions
  <2>1. CASE Rises(p)
    <3>1. Between(p) # {} /\ Between(p) \subseteq Positions
      BY <1>0, <2>1 DEF Rises, Between
    <3>2. (CHOOSE m \in Between(p) : TRUE) \in Between(p)
      BY <3>1
    <3> QED
      BY <2>1, <3>1, <3>2 DEF BaseTick
  <2>2. CASE ~Rises(p)
    BY <2>2 DEF BaseTick, TypeOK
  <2> QED
    BY <2>1, <2>2
<1>6. /\ indexCount' \in Int /\ pulseCount' \in 0..IndexPulse
      /\ indexDetected' \in BOOLEAN /\ pv' \in Int /\ indexBit' \in BOOLEAN
      /\ latch' \in {"none", "unseen", "seen", "lost"}
      /\ mark' \in Positions /\ stale' \in BOOLEAN
  <2>0. Start \in Positions
    BY InputsAssumption
  <2>1. CASE Plain(p)
    BY <1>1, <2>1 DEF Plain, indexVars, ghosts, TypeOK
  <2>2. CASE Latch(p)
    <3>1. indexCount' \in Int /\ pv' \in Int /\ pulseCount' \in 0..IndexPulse
      BY <1>0, <1>1, <2>2 DEF Latch, TypeOK
    <3>2. indexDetected' \in BOOLEAN /\ indexBit' \in BOOLEAN
      BY <2>2, Zenon DEF Latch, TypeOK
    <3>3. Noted(p)
      BY <2>2 DEF Latch
    <3>4. CASE latch = "seen"
      BY <3>1, <3>2, <3>3, <3>4, Zenon DEF Noted, ghosts, TypeOK
    <3>5. CASE latch # "seen"
      <4>1. stale' \in BOOLEAN
        BY <3>3, <3>5, Zenon DEF Noted
      <4>2. latch' = "unseen" /\ mark' \in Positions
        BY <3>3, <3>5 DEF Noted, TypeOK
      <4> QED
        BY <3>1, <3>2, <4>1, <4>2
    <3> QED
      BY <3>4, <3>5
  <2>3. CASE Maintain(p)
    <3>1. pulseCount' \in 0..IndexPulse
      BY <1>0, <2>3 DEF Maintain, TypeOK
    <3> QED
      BY <2>3, <3>1, Zenon DEF Maintain, ghosts, TypeOK
  <2>4. CASE Release(p)
    BY <1>1, <2>0, <2>4 DEF Release, TypeOK
  <2> QED
    BY <2>1, <2>2, <2>3, <2>4 DEF BaseTick, Update
<1> QED
  BY <1>2, <1>3, <1>4, <1>5, <1>6 DEF TypeOK

LEMMA TypeStep == TypeOK /\ [Next]_vars => TypeOK'
<1> SUFFICES ASSUME TypeOK, [Next]_vars PROVE TypeOK'
  OBVIOUS
<1> USE DEF TypeOK, axle, decoder, ghosts, indexVars
<1>1. ASSUME NEW p \in Positions, BaseTick(p) PROVE TypeOK'
  BY <1>1, BaseTickType
<1>2. CASE ServoLoad
  BY <1>2 DEF ServoLoad
<1>3. CASE ServoStore
  BY <1>3 DEF ServoStore
<1>4. CASE IndexFlag
  BY <1>4 DEF IndexFlag
<1>5. CASE IndexSave
  <2>1. position - Start \in Int
    BY InputsAssumption
  <2> QED
    BY <1>5, <2>1 DEF IndexSave
<1>6. CASE ReplyCount
  BY <1>6 DEF ReplyCount
<1>7. CASE ReplyBits
  <2>1. 0 \in 0..Gap
    BY InputsAssumption
  <2> QED
    BY <1>7, <2>1 DEF ReplyBits
<1>8. CASE UNCHANGED vars
  BY <1>8 DEF vars, threads
<1> QED
  BY <1>1, <1>2, <1>3, <1>4, <1>5, <1>6, <1>7, <1>8 DEF Next

LEMMA TypeInit == Init => TypeOK
<1> SUFFICES ASSUME Init PROVE TypeOK
  OBVIOUS
<1>1. /\ 0 \in 0..IndexPulse /\ 0 \in 0..MaxSkips /\ 0 \in 0..Gap
      /\ Start \in Positions /\ 0 \in Int
  BY InputsAssumption
<1>2. /\ skips = 0 /\ count = 0 /\ indexCount = 0 /\ offset = 0 /\ pulseCount = 0
      /\ pv = 0 /\ copied = 0 /\ sinceReply = 0
      /\ position = Start /\ edge = Start /\ mark = Start
  BY DEF Init
<1> QED
  BY <1>1, <1>2, Zenon DEF Init, TypeOK

(* The types of the encoder and of the threads around it.                  *)
THEOREM TypeCorrect == Spec => []TypeOK
<1> QED
  BY TypeInit, TypeStep, PTL DEF Spec

-----------------------------------------------------------------------------
(***************************************************************************)
(* The count.  The software decoder remembers the channels at the position *)
(* of the last tick, the hardware counts from the start.                   *)
(***************************************************************************)
DecoderInv ==
    /\ sampled /\ kind # "qdc" => old = Levels(position)
    /\ sampled /\ kind = "qdc" => count = position - Start /\ offset = -Start
    /\ PhaseKept

LEMMA DecoderTick ==
    ASSUME TypeOK, DecoderInv, NEW p \in Positions, BaseTick(p)
    PROVE  DecoderInv'
<1>1. /\ p \in Int /\ position \in Int /\ Start \in Int
      /\ count \in Int /\ offset \in Int /\ Counted(p) \in Int
  BY CountedType DEF TypeOK
<1>2. /\ position' = p /\ kind' = kind /\ sampled' = TRUE
      /\ count' = Counted(p)
      /\ old' = IF kind = "qdc" THEN old ELSE Levels(p)
      /\ offset' = IF sampled THEN offset ELSE Counted(p) - p
  BY DEF BaseTick, Update, Decode
<1>3. 0 % 4 = 0
  OBVIOUS
<1>4. kind # "qdc" => old' = Levels(position')
  BY <1>2
<1>5. CASE ~sampled
  <2>1. count' = position' + offset'
    BY <1>1, <1>2, <1>5
  <2>2. count' - position' - offset' = 0
    BY <1>1, <1>2, <1>5
  <2>3. kind = "qdc" => count' = position' - Start /\ offset' = -Start
    BY <1>1, <1>2, <1>5 DEF Counted
  <2> QED
    BY <1>2, <1>3, <1>4, <2>1, <2>2, <2>3 DEF DecoderInv, PhaseKept
<1>6. CASE sampled /\ kind = "qdc"
  <2>1. count' = position' - Start /\ offset' = -Start
    BY <1>2, <1>6 DEF DecoderInv, Counted
  <2>2. count' - position' - offset' = 0 /\ count' = position' + offset'
    BY <1>1, <1>2, <2>1
  <2> QED
    BY <1>2, <1>3, <1>6, <2>1, <2>2 DEF DecoderInv, PhaseKept
<1>7. CASE sampled /\ kind # "qdc"
  <2> DEFINE d == Delta(Levels(position) + 4 * Levels(p))
  <2>1. count' = count + d /\ offset' = offset
    BY <1>2, <1>7 DEF DecoderInv, Counted
  <2>2. (d - (p - position)) % 4 = 0 /\ (p - position \in -1..1 => d = p - position)
    BY <1>1, DeltaCorrect
  <2>3. d \in Int
    <3>1. Levels(position) + 4 * Levels(p) \in Int
      BY <1>1, LevelsType
    <3> QED
      BY <3>1, DeltaType
  <2> HIDE DEF d
  <2>4. (count - position - offset) % 4 = 0
    BY <1>7 DEF DecoderInv, PhaseKept
  <2>5. (count' - position' - offset') % 4 = 0
    <3>1. ((count - position - offset) + (d - (p - position))) % 4 = 0
      <4>1. count - position - offset \in Int /\ d - (p - position) \in Int
        BY <1>1, <2>3
      <4> QED
        BY <4>1, <2>2, <2>4, Sum4
    <3>2. count' - position' - offset' = (count - position - offset) + (d - (p - position))
      BY <1>1, <1>2, <2>1, <2>3
    <3> QED
      BY <3>1, <3>2
  <2>6. skips' = 0 => count' = position' + offset'
    <3>1. skips' = 0 => skips = 0 /\ p - position \in -1..1
      BY <1>1 DEF BaseTick, TypeOK
    <3>2. skips = 0 => count = position + offset
      BY <1>7 DEF DecoderInv, PhaseKept
    <3> QED
      BY <1>1, <1>2, <2>1, <2>2, <2>3, <3>1, <3>2
  <2> QED
    BY <1>2, <1>4, <1>7, <2>5, <2>6 DEF DecoderInv, PhaseKept
<1> QED
  BY <1>5, <1>6, <1>7

LEMMA DecoderStep == TypeOK /\ DecoderInv /\ [Next]_vars => DecoderInv'
<1> SUFFICES ASSUME TypeOK, DecoderInv, [Next]_vars PROVE DecoderInv'
  OBVIOUS
<1>1. ASSUME NEW p \in Positions, BaseTick(p) PROVE DecoderInv'
  BY <1>1, DecoderTick
<1>2. CASE UNCHANGED <<axle, decoder>>
  BY <1>2 DEF DecoderInv, PhaseKept, axle, decoder, Levels
<1>3. CASE ServoLoad \/ ServoStore \/ IndexFlag \/ IndexSave \/ ReplyCount \/ ReplyBits
  BY <1>2, <1>3 DEF ServoLoad, ServoStore, IndexFlag, IndexSave, ReplyCount, ReplyBits
<1>4. CASE UNCHANGED vars
  BY <1>2, <1>4 DEF vars
<1> QED
  BY <1>1, <1>3, <1>4 DEF Next

(* The decoder never counts against its own phase, and is exact while no   *)
(* tick misses an edge, for any axle and any motion (encoder.cpp:77).      *)
THEOREM PhaseKeptCorrect == Spec => []PhaseKept
<1>1. Init => DecoderInv
  BY DEF Init, DecoderInv, PhaseKept
<1>2. DecoderInv => PhaseKept
  BY DEF DecoderInv
<1> QED
  BY <1>1, <1>2, TypeCorrect, DecoderStep, PTL DEF Spec

-----------------------------------------------------------------------------
(***************************************************************************)
(* The index.  Until it has been shown its bit is high, and no reply has   *)
(* been made since it was latched.                                         *)
(***************************************************************************)
LatchInv == latch = "unseen" => indexBit /\ sinceReply + pulseCount > IndexPulse

LEMMA LatchTick ==
    ASSUME TypeOK, LatchInv, NEW p \in Positions, BaseTick(p)
    PROVE  LatchInv' /\ (latch = "unseen" => latch' = "unseen")
<1>1. /\ IndexPulse \in Nat /\ Gap \in Nat /\ Gap <= IndexPulse + 1
      /\ sinceReply \in Nat /\ pulseCount \in Nat
  BY InputsAssumption DEF TypeOK
<1>2. sinceReply' = sinceReply + 1 /\ sinceReply < Gap
  BY DEF BaseTick
<1>3. CASE Plain(p)
  BY <1>1, <1>2, <1>3 DEF Plain, indexVars, ghosts, LatchInv
<1>4. CASE Latch(p)
  <2>1. indexBit' /\ pulseCount' = IndexPulse
    BY <1>4 DEF Latch
  <2>2. latch = "unseen" => latch' = "unseen"
    BY <1>4 DEF Latch, Noted
  <2> QED
    BY <1>1, <1>2, <2>1, <2>2 DEF LatchInv
<1>5. CASE Maintain(p)
  BY <1>1, <1>2, <1>5 DEF Maintain, ghosts, LatchInv
<1>6. CASE Release(p)
  <2>1. latch # "unseen"
    BY <1>1, <1>2, <1>6 DEF Release, LatchInv
  <2>2. latch' = "none"
    BY <1>6 DEF Release
  <2> QED
    BY <2>1, <2>2 DEF LatchInv
<1> QED
  BY <1>3, <1>4, <1>5, <1>6 DEF BaseTick, Update

LEMMA LatchStep ==
    TypeOK /\ LatchInv /\ [Next]_vars
      => LatchInv' /\ (latch = "unseen" => latch' \in {"unseen", "seen", "lost"})
<1> SUFFICES ASSUME TypeOK, LatchInv, [Next]_vars
             PROVE  LatchInv' /\ (latch = "unseen" => latch' \in {"unseen", "seen", "lost"})
  OBVIOUS
<1> USE DEF LatchInv, indexVars, ghosts
<1>1. ASSUME NEW p \in Positions, BaseTick(p)
      PROVE  LatchInv' /\ (latch = "unseen" => latch' \in {"unseen", "seen", "lost"})
  BY <1>1, LatchTick
<1>2. CASE ServoLoad
  BY <1>2 DEF ServoLoad
<1>3. CASE ServoStore
  BY <1>3 DEF ServoStore
<1>4. CASE IndexFlag
  BY <1>4 DEF IndexFlag
<1>5. CASE IndexSave
  BY <1>5 DEF IndexSave
<1>6. CASE ReplyCount
  BY <1>6 DEF ReplyCount
<1>7. CASE ReplyBits
  BY <1>7 DEF ReplyBits
<1>8. CASE UNCHANGED vars
  BY <1>8 DEF vars, threads
<1> QED
  BY <1>1, <1>2, <1>3, <1>4, <1>5, <1>6, <1>7, <1>8 DEF Next

(* Replies at most one tick further apart than the index pulse is long     *)
(* show every index that the servo thread does not store over              *)
(* (encoder.cpp:63), for any pulse.                                        *)
THEOREM IndexSeenCorrect == Spec => IndexSeen
<1>1. Init => LatchInv
  BY DEF Init, LatchInv
<1>2. TypeOK /\ LatchInv /\ [Next]_vars
        => [latch = "unseen" => latch' \in {"unseen", "seen", "lost"}]_vars
  BY LatchStep
<1> QED
  BY <1>1, <1>2, TypeCorrect, LatchStep, PTL DEF Spec, IndexSeen

-----------------------------------------------------------------------------
(***************************************************************************)
(* The count that is shown with the index.  While no index is latched the  *)
(* count of the last tick is reported, and a reply that is being copied    *)
(* has the count that was reported when it began.                          *)
(***************************************************************************)
CountShown ==
    /\ ~sampled => reply = "idle" /\ latch = "none"
    /\ pulseCount = 0 \/ latch # "none"
    /\ kind = "plain" => latch = "none"
    /\ sampled /\ latch = "none" => pv = count
    /\ reply = "copying" => copied = pv

(* The axle is still at its mark when the index interrupt begins, so that  *)
(* an event that was not interrupted has the count of the mark; one that   *)
(* was interrupted is latched by the tick itself, or dropped.              *)
IndexInv ==
    /\ kind # "qdc" => index = "none"
    /\ index = "late" => pulseCount # 0 \/ ~indexDetected
    /\ skips = 0 /\ index \in {"pending", "flagged"} => position = edge
    /\ skips = 0 /\ kind = "qdc" /\ index = "none" /\ indexDetected /\ pulseCount = 0
         => position = edge /\ indexCount = edge - Start

(* A latch that was not shown freezes the count of its mark; a reply that  *)
(* is under way may have the count of one edge before.                     *)
ShownInv ==
    skips = 0 /\ latch = "unseen" /\ ~stale
      => /\ pv = mark + offset
         /\ reply # "idle" => copied - (mark + offset) \in -1..1

(* A new latch is never made over one that was not shown: the pulse is     *)
(* longer than the time to the next reply.                                 *)
LEMMA NewLatch ==
    ASSUME TypeOK, LatchInv, NEW p \in Positions, BaseTick(p), pulseCount = 0
    PROVE  latch # "unseen"
  BY InputsAssumption DEF TypeOK, LatchInv, BaseTick

LEMMA CountShownTick ==
    ASSUME TypeOK, CountShown, LatchInv, NEW p \in Positions, BaseTick(p)
    PROVE  CountShown'
<1>1. /\ kind' = kind /\ sampled' = TRUE /\ count' = Counted(p) /\ copied' = copied
      /\ reply' # "copying"
  BY DEF BaseTick, Update, Decode, Interrupted, TypeOK
<1>2. IndexPulse # 0
  BY InputsAssumption
<1>3. CASE kind = "plain"
  <2>1. Plain(p)
    BY <1>3 DEF BaseTick, Update
  <2> QED
    BY <1>1, <1>3, <2>1 DEF Plain, indexVars, ghosts, CountShown
<1>4. CASE kind # "plain" /\ Latch(p)
  <2>1. latch' # "none"
    BY <1>4 DEF Latch, Noted, ghosts
  <2> QED
    BY <1>1, <1>4, <2>1 DEF CountShown
<1>5. CASE kind # "plain" /\ Maintain(p)
  <2>1. latch' = latch /\ latch # "none"
    BY <1>5 DEF Maintain, ghosts, CountShown, TypeOK
  <2> QED
    BY <1>1, <1>5, <2>1 DEF CountShown
<1>6. CASE kind # "plain" /\ Release(p)
  BY <1>1, <1>6 DEF Release, CountShown
<1> QED
  BY <1>3, <1>4, <1>5, <1>6 DEF BaseTick, Update

LEMMA CountShownStep ==
    TypeOK /\ CountShown /\ LatchInv /\ [Next]_vars => CountShown'
<1> SUFFICES ASSUME TypeOK, CountShown, LatchInv, [Next]_vars PROVE CountShown'
  OBVIOUS
<1> USE DEF CountShown, axle, decoder, indexVars, ghosts
<1>1. ASSUME NEW p \in Positions, BaseTick(p) PROVE CountShown'
  BY <1>1, CountShownTick
<1>2. CASE ServoLoad
  BY <1>2 DEF ServoLoad
<1>3. CASE ServoStore
  BY <1>3 DEF ServoStore
<1>4. CASE IndexFlag
  BY <1>4 DEF IndexFlag
<1>5. CASE IndexSave
  BY <1>5 DEF IndexSave
<1>6. CASE ReplyCount
  BY <1>6 DEF ReplyCount, MainRuns
<1>7. CASE ReplyBits
  BY <1>7 DEF ReplyBits, MainRuns
<1>8. CASE UNCHANGED vars
  BY <1>8 DEF vars, threads
<1> QED
  BY <1>1, <1>2, <1>3, <1>4, <1>5, <1>6, <1>7, <1>8 DEF Next

(* A tick that moves the axle by an edge at most.                          *)
LEMMA SmallMove ==
    ASSUME TypeOK, NEW p \in Positions, BaseTick(p), skips' = 0
    PROVE  skips = 0 /\ p - position \in -1..1 /\ position' = p
<1>1. skips \in Nat
  BY InputsAssumption DEF TypeOK
<1> QED
  BY <1>1 DEF BaseTick

(* The mark that such a tick passes is where it leaves the axle.           *)
LEMMA EdgeIs ==
    ASSUME TypeOK, NEW p \in Positions, BaseTick(p), skips' = 0, Rises(p)
    PROVE  edge' = p
<1>1. p \in Int /\ position \in Int /\ p - position \in -1..1
  BY CountedType, SmallMove
<1>2. Between(p) # {} /\ \A m \in Between(p) : m \in Int
  BY InputsAssumption DEF Rises, Between
<1>3. \A m \in Between(p) : m = p
  BY <1>1, <1>2 DEF Between
<1>4. (CHOOSE m \in Between(p) : TRUE) \in Between(p)
  BY <1>2
<1> QED
  BY <1>3, <1>4 DEF BaseTick

LEMMA IndexTick ==
    ASSUME TypeOK, IndexInv, NEW p \in Positions, BaseTick(p)
    PROVE  IndexInv'
<1>1. kind' = kind /\ index \in {"none", "flagged"} /\ position' = p
  BY DEF BaseTick, InTime
<1>2. index' = IF Rises(p) THEN "pending" ELSE Interrupted(index, "flagged")
  BY DEF BaseTick
<1>3. IndexPulse # 0
  BY InputsAssumption
<1>4. CASE kind # "qdc"
  <2>1. index' = "none"
    BY <1>1, <1>2, <1>4 DEF IndexInv, Rises, Interrupted
  <2> QED
    BY <1>1, <1>4, <2>1 DEF IndexInv
<1>5. CASE kind = "qdc"
  <2>1. pulseCount' # 0 \/ ~indexDetected'
    <3>1. CASE Latch(p)
      BY <1>3, <3>1 DEF Latch
    <3>2. CASE Maintain(p)
      BY <3>2 DEF Maintain
    <3>3. CASE Release(p)
      BY <1>5, <3>3 DEF Release, AtIndex
    <3> QED
      BY <1>5, <3>1, <3>2, <3>3 DEF BaseTick, Update
  <2>2. index' # "flagged"
    BY <1>1, <1>2 DEF Interrupted
  <2>3. index' = "pending" => Rises(p)
    BY <1>1, <1>2 DEF Interrupted
  <2>4. skips' = 0 /\ index' = "pending" => position' = edge'
    BY <1>1, <2>3, EdgeIs
  <2> QED
    BY <1>1, <1>5, <2>1, <2>2, <2>4 DEF IndexInv
<1> QED
  BY <1>4, <1>5

LEMMA IndexStep == TypeOK /\ IndexInv /\ [Next]_vars => IndexInv'
<1> SUFFICES ASSUME TypeOK, IndexInv, [Next]_vars PROVE IndexInv'
  OBVIOUS
<1> USE DEF IndexInv, axle, decoder, indexVars, ghosts
<1>1. ASSUME NEW p \in Positions, BaseTick(p) PROVE IndexInv'
  BY <1>1, IndexTick
<1>2. CASE ServoLoad
  BY <1>2 DEF ServoLoad
<1>3. CASE ServoStore
  BY <1>3 DEF ServoStore
<1>4. CASE IndexFlag
  BY <1>4 DEF IndexFlag
<1>5. CASE IndexSave
  BY <1>5 DEF IndexSave
<1>6. CASE ReplyCount
  BY <1>6 DEF ReplyCount
<1>7. CASE ReplyBits
  BY <1>7 DEF ReplyBits
<1>8. CASE UNCHANGED vars
  BY <1>8 DEF vars, threads
<1> QED
  BY <1>1, <1>2, <1>3, <1>4, <1>5, <1>6, <1>7, <1>8 DEF Next

(* A new latch freezes the count at its mark, and the count that was       *)
(* reported before is that of the tick before.                             *)
LEMMA LatchShown ==
    ASSUME TypeOK, TypeOK', DecoderInv, DecoderInv', LatchInv, CountShown, IndexInv,
           NEW p \in Positions, BaseTick(p), Latch(p), kind # "plain",
           skips' = 0, latch # "seen", ~stale'
    PROVE  /\ pv' = mark' + offset'
           /\ reply' # "idle" => copied' - (mark' + offset') \in -1..1
<1>1. /\ p \in Int /\ position \in Int /\ Start \in Int /\ offset \in Int
      /\ offset' \in Int /\ count \in Int
  BY CountedType DEF TypeOK
<1>2. skips = 0 /\ p - position \in -1..1 /\ position' = p
  BY SmallMove
<1>3. /\ sampled' = TRUE /\ count' = Counted(p) /\ kind' = kind
      /\ offset' = IF sampled THEN offset ELSE Counted(p) - p
  BY DEF BaseTick, Update, Decode
<1>4. /\ mark' = IF kind = "qdc" THEN edge ELSE p
      /\ index # "flagged" /\ latch # "lost"
  BY DEF Latch, Noted
<1>5. latch = "none"
  <2>1. pulseCount = 0
    BY DEF Latch
  <2> QED
    BY <1>4, <2>1, NewLatch DEF TypeOK
<1>6. kind = "qdc" => position = edge /\ indexCount = edge - Start
  BY <1>2, <1>4 DEF IndexInv, Latch, AtIndex, BaseTick, InTime
<1>7. pv' = mark' + offset'
  <2>1. CASE kind = "qdc"
    <3>1. offset' = -Start
      BY <1>3, <2>1 DEF DecoderInv
    <3> QED
      BY <1>1, <1>4, <1>6, <2>1, <3>1 DEF Latch
  <2>2. CASE kind # "qdc"
    <3>1. Counted(p) = p + offset'
      BY <1>2, <1>3 DEF DecoderInv, PhaseKept
    <3> QED
      BY <1>4, <2>2, <3>1 DEF Latch
  <2> QED
    BY <2>1, <2>2
<1>8. ASSUME reply' # "idle" PROVE copied' - (mark' + offset') \in -1..1
  <2>1. reply = "copying" /\ copied' = copied
    BY <1>8 DEF BaseTick, InTime, Interrupted, TypeOK
  <2>2. sampled
    BY <2>1 DEF CountShown
  <2>3. copied' = position + offset /\ offset' = offset
    BY <1>2, <1>3, <1>5, <2>1, <2>2 DEF CountShown, DecoderInv, PhaseKept
  <2>4. mark' \in Int /\ position - mark' \in -1..1
    BY <1>1, <1>2, <1>4, <1>6
  <2>5. copied' - (mark' + offset') = position - mark'
    BY <1>1, <2>3, <2>4
  <2> QED
    BY <2>4, <2>5
<1> QED
  BY <1>7, <1>8

LEMMA ShownTick ==
    ASSUME TypeOK, TypeOK', DecoderInv, DecoderInv', LatchInv, CountShown, IndexInv,
           ShownInv, NEW p \in Positions, BaseTick(p)
    PROVE  ShownInv'
<1> SUFFICES ASSUME skips' = 0, latch' = "unseen", ~stale'
             PROVE  /\ pv' = mark' + offset'
                    /\ reply' # "idle" => copied' - (mark' + offset') \in -1..1
  BY DEF ShownInv
<1>1. skips = 0
  BY SmallMove
<1>2. CASE kind = "plain"
  <2>1. latch' = latch
    BY <1>2 DEF BaseTick, Update, Plain, indexVars, ghosts
  <2> QED
    BY <1>2, <2>1 DEF CountShown
<1>3. CASE kind # "plain" /\ Latch(p)
  <2>1. latch # "seen"
    BY <1>3 DEF Latch, Noted, ghosts
  <2> QED
    BY <1>3, <2>1, LatchShown
<1>4. CASE kind # "plain" /\ Maintain(p)
  <2>1. pv' = pv /\ latch' = latch /\ mark' = mark /\ stale' = stale
    BY <1>4 DEF Maintain, ghosts
  <2>2. sampled
    BY <2>1 DEF CountShown
  <2>3. offset' = offset /\ copied' = copied
    BY <2>2 DEF BaseTick, Update, Decode
  <2>4. pv = mark + offset /\ (reply # "idle" => copied - (mark + offset) \in -1..1)
    BY <1>1, <2>1 DEF ShownInv
  <2>5. reply' # "idle" => reply # "idle"
    BY DEF BaseTick, Interrupted
  <2> QED
    BY <2>1, <2>3, <2>4, <2>5
<1>5. CASE kind # "plain" /\ Release(p)
  BY <1>5 DEF Release
<1> QED
  BY <1>2, <1>3, <1>4, <1>5 DEF BaseTick, Update

LEMMA ShownStep ==
    TypeOK /\ TypeOK' /\ DecoderInv /\ DecoderInv' /\ LatchInv /\ CountShown
    /\ IndexInv /\ ShownInv /\ [Next]_vars => ShownInv'
<1> SUFFICES ASSUME TypeOK, TypeOK', DecoderInv, DecoderInv',
                    LatchInv, CountShown, IndexInv, ShownInv, [Next]_vars
             PROVE  ShownInv'
  OBVIOUS
<1>t. mark \in Int /\ offset \in Int
  BY InputsAssumption DEF TypeOK
<1> USE DEF ShownInv, axle, decoder, indexVars, ghosts
<1>1. ASSUME NEW p \in Positions, BaseTick(p) PROVE ShownInv'
  BY <1>1, ShownTick
<1>2. CASE ServoLoad
  BY <1>2 DEF ServoLoad
<1>3. CASE ServoStore
  BY <1>3 DEF ServoStore
<1>4. CASE IndexFlag
  BY <1>4 DEF IndexFlag
<1>5. CASE IndexSave
  BY <1>5 DEF IndexSave
<1>6. CASE ReplyCount
  BY <1>t, <1>6 DEF ReplyCount
<1>7. CASE ReplyBits
  BY <1>7 DEF ReplyBits
<1>8. CASE UNCHANGED vars
  BY <1>8 DEF vars, threads
<1> QED
  BY <1>1, <1>2, <1>3, <1>4, <1>5, <1>6, <1>7, <1>8 DEF Next

(* An index becomes seen by a reply only.                                  *)
LEMMA SeenStep ==
    ASSUME TypeOK, LatchInv, ShownInv, [Next]_vars,
           latch = "unseen", latch' = "seen", skips = 0, ~stale
    PROVE  copied - (mark + offset) \in -1..1
<1> USE DEF indexVars, ghosts
<1>1. ASSUME NEW p \in Positions, BaseTick(p) PROVE FALSE
  BY <1>1, LatchTick
<1>2. ~ServoLoad /\ ~ServoStore /\ ~IndexFlag /\ ~IndexSave /\ ~ReplyCount
  BY DEF ServoLoad, ServoStore, IndexFlag, IndexSave, ReplyCount
<1>3. CASE ReplyBits
  BY <1>3 DEF ReplyBits, ShownInv
<1>4. ~UNCHANGED vars
  BY DEF vars
<1> QED
  BY <1>1, <1>2, <1>3, <1>4 DEF Next

(* The first reply that shows an index gives the count at its mark, or one *)
(* edge beside it if the tick came between the two copies                  *)
(* (encoder.cpp:97), for any axle, pulse and gap within the assumption.    *)
THEOREM ReportedCountCorrect == Spec => ReportedCount
<1> DEFINE Reported == latch = "unseen" /\ latch' = "seen" /\ skips = 0
                         => stale \/ copied - (mark + offset) \in -1..1
<1>1. Init => DecoderInv /\ LatchInv /\ CountShown /\ IndexInv /\ ShownInv
  BY DEF Init, DecoderInv, PhaseKept, LatchInv, CountShown, IndexInv, ShownInv
<1>2. TypeOK /\ LatchInv /\ ShownInv /\ [Next]_vars => [Reported]_vars
  BY SeenStep
<1>3. Spec => [][Reported]_vars
  BY <1>1, <1>2, TypeCorrect, DecoderStep, LatchStep, CountShownStep, IndexStep,
     ShownStep, PTL DEF Spec
<1> QED
  BY <1>3 DEF ReportedCount
=============================================================================
