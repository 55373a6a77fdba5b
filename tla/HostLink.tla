------------------------------ MODULE HostLink ------------------------------
(***************************************************************************)
(* The LinuxCNC side of the link                                           *)
(* (LinuxCNC/components/Remora-eth/remora-eth-3.0.c): in every cycle of    *)
(* its servo thread, pru_read asks the firmware for its data and pru_write *)
(* sends it the commands.  Each sends one datagram and takes the next one  *)
(* from the socket for the answer, whatever it answers; an answer that     *)
(* does not come within 200 ms is given up.                                *)
(*                                                                         *)
(* The firmware answers a read with its data and a write with an           *)
(* acknowledgement (source/ethernet.cpp).  The network is lossy until it   *)
(* is repaired or dies.                                                    *)
(***************************************************************************)
EXTENDS Naturals, Sequences, SequencesExt

CONSTANTS
    ErrMax,         \* more failed transfers in a row than this drop the status
    MayBeLate,      \* TRUE: an answer may come after it has been given up
    MaxInFlight     \* bound on the datagrams under way

ASSUME HostAssumption ==
    /\ ErrMax \in Nat
    /\ MayBeLate \in BOOLEAN
    /\ MaxInFlight \in Nat \ {0}

VARIABLES
    pc,             \* what the servo thread does
    enable,         \* the pins that LinuxCNC sets
    reset,
    resetOld,
    status,         \* the pin that tells LinuxCNC the link is up
    errCount,       \* failed transfers in a row; saturates past ErrMax
    header,         \* rxData.header: that of the last datagram taken
    fed,            \* ghost: what the last read fed back
    misses,         \* ghost: transfers without a datagram, saturates
    requests,       \* datagrams on their way to the firmware,
    replies,        \* on their way back,
    socket,         \* and arrived
    net             \* "lossy", "good" or "dead"

hostVars == <<pc, resetOld, status, errCount, header, fed, misses>>
pins == <<enable, reset>>
netVars == <<requests, replies, socket, net>>
vars == <<hostVars, pins, netVars>>

Kinds == {"data", "ack"}        \* by what they ask for, and answer
Datagram == [kind : Kinds, old : BOOLEAN]

TypeOK ==
    /\ pc \in {"read", "readWait", "write", "writeWait"}
    /\ enable \in BOOLEAN /\ reset \in BOOLEAN /\ resetOld \in BOOLEAN
    /\ status \in BOOLEAN
    /\ errCount \in 0..ErrMax + 1
    /\ header \in Kinds \cup {"none"}
    /\ fed \in {"fresh", "stale", "nothing"}
    /\ misses \in 0..ErrMax + 1
    /\ requests \in Seq(Datagram) /\ replies \in Seq(Datagram)
    /\ socket \in Seq(Datagram)
    /\ net \in {"lossy", "good", "dead"}

Init ==
    /\ pc = "read"
    /\ enable = FALSE /\ reset = FALSE /\ resetOld = FALSE
    /\ status = FALSE
    /\ errCount = 0
    /\ header = "none"
    /\ fed = "nothing"
    /\ misses = 0
    /\ requests = <<>> /\ replies = <<>> /\ socket = <<>>
    /\ net = "lossy"

-----------------------------------------------------------------------------
(***************************************************************************)
(* pru_transfer.                                                           *)
(***************************************************************************)
InFlight == requests \o replies
Aged(s) == [i \in DOMAIN s |-> [s[i] EXCEPT !.old = TRUE]]

Send(kind) ==
    /\ requests' = IF net = "dead" THEN <<>>
                   ELSE Append(Aged(requests), [kind |-> kind, old |-> FALSE])
    /\ replies' = Aged(replies)
    /\ socket' = Aged(socket)
    /\ UNCHANGED net

Saturated(n) == IF n > ErrMax THEN n ELSE n + 1

(* Mutant of Taken: an answer does not restart the count of errors.        *)
TakenNoRestart ==
    /\ socket # <<>>
    /\ socket' = Tail(socket)
    /\ misses' = 0
    /\ UNCHANGED <<requests, replies, net, errCount>>

(* Mutant of Taken: an answer pays back one error.                         *)
TakenPaysBack ==
    /\ socket # <<>>
    /\ socket' = Tail(socket)
    /\ errCount' = errCount - 1 /\ misses' = 0
    /\ UNCHANGED <<requests, replies, net>>

(* The next datagram, and ...                                              *)
Taken ==
    /\ socket # <<>>
    /\ socket' = Tail(socket)
    /\ errCount' = 0 /\ misses' = 0
    /\ UNCHANGED <<requests, replies, net>>

(* Mutant of GivenUp: only the first error counts.                         *)
GivenUpOnce ==
    /\ socket = <<>>
    /\ \/ InFlight = <<>>
       \/ MayBeLate /\ net = "lossy" /\ Len(InFlight) < MaxInFlight
    /\ errCount' = 1 /\ misses' = Saturated(misses)
    /\ UNCHANGED netVars

(* ... none.  When answers are not late, one that is under way is awaited. *)
GivenUp ==
    /\ socket = <<>>
    /\ \/ InFlight = <<>>
       \/ MayBeLate /\ net = "lossy" /\ Len(InFlight) < MaxInFlight
    /\ errCount' = Saturated(errCount) /\ misses' = Saturated(misses)
    /\ UNCHANGED netVars

Dropped == errCount' > ErrMax

-----------------------------------------------------------------------------
(***************************************************************************)
(* pru_read.                                                               *)
(***************************************************************************)
Asks == enable /\ ((reset /\ ~resetOld) \/ status)

ReadSkip ==
    /\ pc = "read" /\ pc' = "write"
    /\ ~Asks
    /\ status' = (status /\ enable)
    /\ resetOld' = reset
    /\ UNCHANGED <<errCount, header, fed, misses, pins, netVars>>

ReadSend ==
    /\ pc = "read" /\ pc' = "readWait"
    /\ Asks
    /\ Send("data")
    /\ UNCHANGED <<resetOld, status, errCount, header, fed, misses, pins>>

(* Mutant of ReadHeader: data is fed back, but does not raise the status.  *)
ReadHeaderQuiet(h) ==
    /\ status' = CASE h = "data" -> status
                   [] h = "ack" -> status /\ ~Dropped
                   [] OTHER -> FALSE
    /\ resetOld' = reset

(* The switch over the header, which a transfer that failed leaves as it   *)
(* was; the end of pru_read notes the reset pin as it is now.              *)
ReadHeader(h) ==
    /\ status' = CASE h = "data" -> TRUE
                   [] h = "ack" -> status /\ ~Dropped
                   [] OTHER -> FALSE
    /\ resetOld' = reset

ReadAnswer ==
    /\ pc = "readWait" /\ pc' = "write"
    /\ Taken
    /\ header' = Head(socket).kind
    /\ ReadHeader(Head(socket).kind)
    /\ fed' = IF Head(socket).kind = "ack" THEN "nothing"
              ELSE IF Head(socket).old THEN "stale" ELSE "fresh"
    /\ UNCHANGED pins

ReadTimeout ==
    /\ pc = "readWait" /\ pc' = "write"
    /\ GivenUp
    /\ ReadHeader(header)
    /\ fed' = IF header = "data" THEN "stale" ELSE "nothing"
    /\ UNCHANGED <<header, pins>>

(***************************************************************************)
(* pru_write.                                                              *)
(***************************************************************************)
WriteSkip ==
    /\ pc = "write" /\ pc' = "read"
    /\ ~status
    /\ UNCHANGED <<resetOld, status, errCount, header, fed, misses, pins, netVars>>

WriteSend ==
    /\ pc = "write" /\ pc' = "writeWait"
    /\ status
    /\ Send("ack")
    /\ UNCHANGED <<resetOld, status, errCount, header, fed, misses, pins>>

(* Its switch drops the status on a header it does not know only.          *)
WriteHeader(h) == status' = (status /\ ~Dropped /\ h \in Kinds)

(* Only the header of the datagram is kept.                                *)
WriteAnswer ==
    /\ pc = "writeWait" /\ pc' = "read"
    /\ Taken
    /\ header' = Head(socket).kind
    /\ WriteHeader(Head(socket).kind)
    /\ UNCHANGED <<resetOld, fed, pins>>

WriteTimeout ==
    /\ pc = "writeWait" /\ pc' = "read"
    /\ GivenUp
    /\ WriteHeader(header)
    /\ UNCHANGED <<resetOld, header, fed, pins>>

-----------------------------------------------------------------------------
(***************************************************************************)
(* The firmware, the network and LinuxCNC.                                 *)
(***************************************************************************)
Answer ==
    /\ requests # <<>>
    /\ requests' = Tail(requests)
    /\ replies' = Append(replies, Head(requests))
    /\ UNCHANGED <<socket, net, hostVars, pins>>

Arrive ==
    /\ replies # <<>>
    /\ replies' = Tail(replies)
    /\ socket' = Append(socket, Head(replies))
    /\ UNCHANGED <<requests, net, hostVars, pins>>

Lose ==
    /\ net = "lossy"
    /\ \/ \E i \in DOMAIN requests : /\ requests' = RemoveAt(requests, i)
                                     /\ UNCHANGED replies
       \/ \E i \in DOMAIN replies : /\ replies' = RemoveAt(replies, i)
                                    /\ UNCHANGED requests
    /\ UNCHANGED <<socket, net, hostVars, pins>>

Repaired ==
    /\ net = "lossy" /\ net' = "good"
    /\ UNCHANGED <<requests, replies, socket, hostVars, pins>>

Dies ==
    /\ net = "lossy" /\ net' = "dead"
    /\ requests' = <<>> /\ replies' = <<>>
    /\ UNCHANGED <<socket, hostVars, pins>>

SetPins ==
    /\ enable' \in BOOLEAN /\ reset' \in BOOLEAN
    /\ UNCHANGED <<hostVars, netVars>>

ServoThread ==
    \/ ReadSkip \/ ReadSend \/ ReadAnswer \/ ReadTimeout
    \/ WriteSkip \/ WriteSend \/ WriteAnswer \/ WriteTimeout

Next == \/ ServoThread \/ Answer \/ Arrive
        \/ Lose \/ Repaired \/ Dies \/ SetPins

(* The servo thread is periodic, a transfer ends, and what is not lost     *)
(* arrives.                                                                *)
Spec ==
    /\ Init /\ [][Next]_vars
    /\ WF_vars(ServoThread) /\ WF_vars(Answer) /\ WF_vars(Arrive)

-----------------------------------------------------------------------------
(***************************************************************************)
(* Properties.                                                             *)
(***************************************************************************)

(* LinuxCNC is not stopped for a datagram or two: the status of an enabled *)
(* link falls only when more than ErrMax transfers in a row have come to   *)
(* nothing (remora-eth-3.0.c:791, "we've dropped a packet somewhere but    *)
(* comms are still up", and :926).                                         *)
ToleratesLoss ==
    [][status /\ ~status' => ~enable \/ misses' > ErrMax]_vars

(* A dead link is noticed and the status stays down, once nobody asks for  *)
(* it any more.                                                            *)
DeadLinkNoticed ==
    <>[](net = "dead" /\ ~reset) => <>[]~status

(* While the status is up on a good link, reads go on to feed back what    *)
(* the firmware answered to them (:727, "we have received a GOOD payload   *)
(* from the PRU").                                                         *)
FeedbackGoesOn ==
    <>[](net = "good" /\ enable /\ status) => []<>(fed = "fresh")
=============================================================================
