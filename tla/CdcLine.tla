------------------------------ MODULE CdcLine ------------------------------
(***************************************************************************)
(* The handheld's own log, read over its CDC interface and printed line by *)
(* line (tuh_cdc_rx_cb, src/src/usb_host/usb_host.cpp).  The line buffer   *)
(* is part of the device's state, so that a mount starts an empty one.     *)
(* Characters are a newline or a member of Letters.                        *)
(***************************************************************************)
EXTENDS Naturals, Sequences, FiniteSets, SequencesExt

CONSTANTS Letters, NL,
          RxBufferMaxLen,  \* kRxBufferMaxLen
          ChunkLen,        \* bound: characters in one read
          MaxReceived      \* bound: characters in a session

ASSUME CdcAssumption ==
    /\ {RxBufferMaxLen, ChunkLen, MaxReceived} \subseteq Nat /\ RxBufferMaxLen > 0
    /\ NL \notin Letters

VARIABLES mounted,   \* is the sender the handheld that is mounted?
          rxBuffer,  \* rx_buffer, the first rx_buffer_len characters
          received,  \* history: what this session sent
          printed    \* history: the lines this session printed

cdcVars == <<mounted, rxBuffer, received, printed>>

CdcInit == mounted = FALSE /\ rxBuffer = <<>> /\ received = <<>> /\ printed = <<>>

(* Mutant: the line of the last session is kept. *)
CdcMountKeepsLine ==
    /\ ~mounted /\ mounted' = TRUE
    /\ received' = <<>> /\ printed' = <<>>
    /\ UNCHANGED rxBuffer

CdcMount ==
    /\ ~mounted /\ mounted' = TRUE
    /\ rxBuffer' = <<>> /\ received' = <<>> /\ printed' = <<>>

CdcUmount == mounted /\ mounted' = FALSE /\ UNCHANGED <<rxBuffer, received, printed>>

LineState(buffer, lines) == [buffer |-> buffer, lines |-> lines]

(* One turn of the loop: the end of a line prints it; any other character, *)
(* a newline with nothing before it among them, is kept if it fits.        *)
TakeChar(s, c) ==
    CASE c = NL /\ s.buffer # <<>> -> LineState(<<>>, Append(s.lines, s.buffer))
      [] ~(c = NL /\ s.buffer # <<>>) /\ Len(s.buffer) < RxBufferMaxLen
            -> LineState(Append(s.buffer, c), s.lines)
      [] OTHER -> s

(* The loop: the state after each of its turns. *)
Turns(s, chunk) ==
    LET turn[i \in 0 .. Len(chunk)] == IF i = 0 THEN s ELSE TakeChar(turn[i - 1], chunk[i])
    IN turn

(* tuh_cdc_rx_cb of the mounted handheld. *)
CdcRx(chunk) ==
    /\ mounted
    /\ LET s == Turns(LineState(rxBuffer, printed), chunk)[Len(chunk)]
       IN rxBuffer' = s.buffer /\ printed' = s.lines
    /\ received' = received \o chunk
    /\ UNCHANGED mounted

(* Of any other device it is ignored. *)
CdcRxOther == UNCHANGED cdcVars

Chunks == SeqOf(Letters \cup {NL}, ChunkLen) \ {<<>>}

CdcNext ==
    \/ CdcMount \/ CdcUmount \/ CdcRxOther
    \/ \E chunk \in Chunks : Len(received) + Len(chunk) <= MaxReceived /\ CdcRx(chunk)
CdcSpec == CdcInit /\ [][CdcNext]_cdcVars

-----------------------------------------------------------------------------
(* What a reader of the log expects.  A line starts where the one before it *)
(* has ended; it ends at a newline that is not its first character ...      *)
LineStarts(s) ==
    LET start[i \in 1 .. Len(s) + 1] ==
            IF i = 1 THEN 1
            ELSE IF s[i - 1] = NL /\ start[i - 1] < i - 1 THEN i ELSE start[i - 1]
    IN start
LineEnds(s) == {i \in DOMAIN s : s[i] = NL /\ LineStarts(s)[i] < i}
Nth(S, n) == CHOOSE e \in S : Cardinality({i \in S : i <= e}) = n
LineEndingAt(s, e) == SubSeq(s, LineStarts(s)[e], e - 1)
LinesOf(s) ==
    [n \in 1 .. Cardinality(LineEnds(s)) |-> LineEndingAt(s, Nth(LineEnds(s), n))]

(* ... and is cut to the buffer's length. *)
CutLine(l) == SubSeq(l, 1, IF Len(l) < RxBufferMaxLen THEN Len(l) ELSE RxBufferMaxLen)

(* The lines printed are those of the whole session, each cut on its own,   *)
(* however the characters were split into reads: nothing of a long line     *)
(* spills into the next one, and the buffer is not overrun                  *)
(* (usb_host.cpp:312).                                                      *)
PrintsLines ==
    /\ printed = [i \in DOMAIN LinesOf(received) |-> CutLine(LinesOf(received)[i])]
    /\ Len(rxBuffer) <= RxBufferMaxLen
=============================================================================
