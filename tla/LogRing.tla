------------------------------ MODULE LogRing ------------------------------
(***************************************************************************)
(* The log over USB.  Rust tasks format a record into one shared String    *)
(* under a mutex (src/rust/src/logger.rs) and hand it to stdio; C tasks    *)
(* hand over text of their own.  stdio_usb_out_chars copies it, byte by    *)
(* byte and under a second mutex, into a ring that the USB device task     *)
(* drains (src/src/usb_device/usb_device.cpp).                             *)
(*                                                                         *)
(* A record stands for a call of puts or printf.  The stdio layer hands it *)
(* on in texts, one call of stdio_usb_out_chars each (the body, the end of *)
(* the line); it is taken to hold no lock of its own from one to the next. *)
(* The time of day, in the unit of the settling time, is kept only as the  *)
(* age of the connection.                                                  *)
(***************************************************************************)
EXTENDS Naturals, Sequences

CONSTANTS Capacity,   \* kBufferCapacity
          Records,    \* what may be logged, each a sequence of texts
          Loggers,    \* tasks that log from Rust
          Printers,   \* tasks that print from C
          CdcRoom,    \* room in the CDC interface's own queue
          Settle,     \* how long a connection settles (50000 us)
          Nobody, Usbd, Nul

Tasks == Loggers \cup Printers
Texts == UNION {{r[i] : i \in DOMAIN r} : r \in Records}
Chars == UNION {{t[i] : i \in DOMAIN t} : t \in Texts}

ASSUME LogAssumption ==
    /\ {Capacity, CdcRoom, Settle} \subseteq Nat /\ Capacity > 0
    /\ \A r \in Records : r \in Seq(Texts) \ {<<>>}
    /\ \A t \in Texts : t \in Seq(Chars)
    /\ {Nobody, Usbd} \cap Tasks = {} /\ Nobody # Usbd /\ Loggers \cap Printers = {}

VARIABLES step,      \* what each task is at, one of Steps
          text,      \* the texts each task has still to say
          lock,      \* who holds the logger's String
          line,      \* the texts of the String that are still to be said
          mutex,     \* who holds the ring
          out,       \* the call of stdio_usb_out_chars in progress
          ring, head, count,   \* tx_buffer, _head, _count
          cdc,       \* the CDC interface's queue
          dtr,       \* does a host have the port open?
          connected, \* is_connected
          age        \* time since connection_time

taskVars == <<step, text, lock, line>>
ringVars == <<out, ring, head, count>>
usbVars == <<dtr, connected, age>>
logVars == <<taskVars, mutex, ringVars, cdc, usbVars>>

Steps == {"idle", "waiting", "ready", "writing"}
NoCall == [text |-> <<>>, n |-> 0, i |-> 0]

LogInit ==
    /\ step = [w \in Tasks |-> "idle"] /\ text = [w \in Tasks |-> <<>>]
    /\ lock = Nobody /\ line = <<>> /\ mutex = Nobody /\ out = NoCall
    /\ ring = [i \in 0 .. Capacity - 1 |-> Nul] /\ head = 0 /\ count = 0
    /\ cdc = <<>>
    /\ dtr = FALSE /\ connected = FALSE /\ age = 0

(* Indices stay below 2 * Capacity, where a remainder is one subtraction. *)
Wrapped(i) == IF i >= Capacity THEN i - Capacity ELSE i

-----------------------------------------------------------------------------
Wants(w, r) == step[w] = "idle" /\ text' = [text EXCEPT ![w] = r]

(* log is called: the task asks for the String. *)
LogRecord(w, r) ==
    /\ w \in Loggers /\ Wants(w, r)
    /\ step' = [step EXCEPT ![w] = "waiting"]
    /\ UNCHANGED <<lock, line, mutex, ringVars, cdc, usbVars>>

(* Mutant: the String is used without its mutex. *)
FormatUnlocked(w) ==
    /\ w \in Loggers
    /\ step[w] = "waiting" /\ step' = [step EXCEPT ![w] = "ready"]
    /\ lock' = w /\ line' = text[w]
    /\ UNCHANGED <<text, mutex, ringVars, cdc, usbVars>>

(* It has it locked, clears it and writes the record. *)
Format(w) ==
    /\ w \in Loggers
    /\ step[w] = "waiting" /\ step' = [step EXCEPT ![w] = "ready"]
    /\ lock = Nobody /\ lock' = w
    /\ line' = text[w]
    /\ UNCHANGED <<text, mutex, ringVars, cdc, usbVars>>

(* A printf from C. *)
PrintText(w, r) ==
    /\ w \in Printers /\ Wants(w, r)
    /\ step' = [step EXCEPT ![w] = "ready"]
    /\ UNCHANGED <<lock, line, mutex, ringVars, cdc, usbVars>>

WriteLen(t) == IF Len(t) > Capacity - count THEN Capacity - count ELSE Len(t)

(* stdio_usb_out_chars takes the mutex ... *)
OutCharsBegin(w) ==
    /\ step[w] = "ready" /\ mutex = Nobody
    /\ mutex' = w /\ step' = [step EXCEPT ![w] = "writing"]
    /\ LET t == Head(IF w \in Loggers THEN line ELSE text[w])
       IN out' = [text |-> t, n |-> WriteLen(t), i |-> 0]
    /\ UNCHANGED <<text, lock, line, ring, head, count, cdc, usbVars>>

(* ... copies a byte ... *)
OutCharsByte(w) ==
    /\ mutex = w /\ out.i < out.n
    /\ ring' = [ring EXCEPT ![Wrapped(Wrapped(head + count) + out.i)] = out.text[out.i + 1]]
    /\ out' = [out EXCEPT !.i = @ + 1]
    /\ UNCHANGED <<taskVars, mutex, head, count, cdc, usbVars>>

(* ... and gives it back.  The logger lets go of its String with the last   *)
(* text of the record.                                                      *)
Last(w) == Len(text[w]) = 1
OutCharsEnd(w) ==
    /\ mutex = w /\ out.i = out.n
    /\ count' = count + out.n /\ out' = NoCall
    /\ mutex' = Nobody
    /\ step' = [step EXCEPT ![w] = IF Last(w) THEN "idle" ELSE "ready"]
    /\ text' = [text EXCEPT ![w] = Tail(@)]
    /\ IF w \in Loggers
       THEN lock' = (IF Last(w) THEN Nobody ELSE w) /\ line' = Tail(line)
       ELSE UNCHANGED <<lock, line>>
    /\ UNCHANGED <<ring, head, cdc, usbVars>>

-----------------------------------------------------------------------------
(* The USB device task sees the port opened or closed. *)
PollConnection ==
    /\ mutex # Usbd
    /\ connected # dtr
    /\ connected' = dtr
    /\ age' = IF dtr THEN 0 ELSE age
    /\ UNCHANGED <<taskVars, mutex, ringVars, cdc, dtr>>

(* It starts a flush, if there is something to write. *)
FlushBegin ==
    /\ connected = dtr /\ connected /\ age > Settle
    /\ count > 0
    /\ mutex = Nobody /\ mutex' = Usbd
    /\ UNCHANGED <<taskVars, ringVars, cdc, usbVars>>

FlushByte ==
    /\ mutex = Usbd /\ count > 0 /\ Len(cdc) < CdcRoom
    /\ cdc' = Append(cdc, ring[head])
    /\ count' = count - 1 /\ head' = Wrapped(head + 1)
    /\ UNCHANGED <<taskVars, mutex, out, ring, usbVars>>

(* Mutant: it waits for room. *)
FlushEndWhenEmpty ==
    /\ mutex = Usbd /\ count = 0
    /\ mutex' = Nobody
    /\ UNCHANGED <<taskVars, ringVars, cdc, usbVars>>

(* Nothing left, or no room: it breaks off and lets go. *)
FlushEnd ==
    /\ mutex = Usbd /\ (count = 0 \/ Len(cdc) >= CdcRoom)
    /\ mutex' = Nobody
    /\ UNCHANGED <<taskVars, ringVars, cdc, usbVars>>

-----------------------------------------------------------------------------
HostReads ==
    /\ dtr /\ cdc # <<>> /\ cdc' = Tail(cdc)
    /\ UNCHANGED <<taskVars, mutex, ringVars, usbVars>>

HostToggles ==
    /\ dtr' = ~dtr
    /\ UNCHANGED <<taskVars, mutex, ringVars, cdc, connected, age>>

(* Later than Settle is late enough. *)
TimePasses ==
    /\ age <= Settle /\ age' = age + 1
    /\ UNCHANGED <<taskVars, mutex, ringVars, cdc, dtr, connected>>

OutChars(w) == OutCharsBegin(w) \/ OutCharsByte(w) \/ OutCharsEnd(w)
LogCall(w) == Format(w) \/ OutChars(w)
UsbDeviceTask == PollConnection \/ FlushBegin \/ FlushByte \/ FlushEnd
Host == HostReads \/ HostToggles \/ TimePasses

LogNext ==
    \/ \E w \in Tasks, r \in Records : LogRecord(w, r) \/ PrintText(w, r)
    \/ \E w \in Tasks : LogCall(w)
    \/ UsbDeviceTask
    \/ Host

(* Every task runs; either mutex goes to the one that waits for it with    *)
(* the highest priority, and all of them block between two records, or for *)
(* a tick in tud_task_ext.  Nothing is assumed of the host.                *)
LogSpec ==
    /\ LogInit /\ [][LogNext]_logVars
    /\ \A w \in Tasks : SF_logVars(LogCall(w))
    /\ SF_logVars(UsbDeviceTask)
    /\ WF_logVars(TimePasses)

-----------------------------------------------------------------------------
Calls == [text : Texts \cup {<<>>}, n : 0 .. Capacity, i : 0 .. Capacity]

LogTypeOK ==
    /\ step \in [Tasks -> Steps] /\ text \in [Tasks -> Seq(Texts)]
    /\ lock \in Loggers \cup {Nobody} /\ line \in Seq(Texts)
    /\ mutex \in Tasks \cup {Nobody, Usbd} /\ out \in Calls
    /\ ring \in [0 .. Capacity - 1 -> Chars \cup {Nul}]
    /\ head \in 0 .. Capacity - 1 /\ count \in 0 .. Capacity
    /\ cdc \in Seq(Chars \cup {Nul}) /\ Len(cdc) <= CdcRoom
    /\ {dtr, connected} \subseteq BOOLEAN /\ age \in 0 .. Settle + 1

(* What a task writes to the ring is what it wanted to say, although all    *)
(* records are formatted in one String (logger.rs:27).                      *)
WritesOwnText == \A w \in Tasks : mutex = w => out.text = Head(text[w])

(* No task that logs is held up for good, waiting for the String or for the *)
(* ring, least of all by a host that opens the port and does not read       *)
(* (logger.rs:24, usb_device.cpp:105).                                      *)
LoggingReturns == \A w \in Tasks : step[w] # "idle" ~> step[w] = "idle"

(* The ring is a queue of characters that takes every task's own texts, in  *)
(* their order and each without a gap, and drops the end of what does not   *)
(* fit (usb_device.cpp:36-50), whatever the interleaving of records, texts  *)
(* and bytes.                                                               *)
Fifo == INSTANCE LogFifo
    WITH fifo <- [i \in 1 .. count |-> ring[Wrapped(head + i - 1)]]
RingIsFifo == Fifo!Spec
=============================================================================
