---------------------------- MODULE LogRingProofs ----------------------------
(***************************************************************************)
(* The log ring implements a bounded queue of characters, for every        *)
(* capacity, every set of records and any number of tasks that log.        *)
(***************************************************************************)
EXTENDS LogRing, SequenceTheorems, TLAPS

Bytes == Chars \cup {Nul}

(* What the ring holds, the oldest character first. *)
KeptOf(r, h, n) == [i \in 1 .. n |-> r[Wrapped(h + i - 1)]]
Kept == KeptOf(ring, head, count)

-----------------------------------------------------------------------------
(* The inductive invariant.  A task holds the ring while it writes, and the  *)
(* String from the time it has formatted its record there to the last of its *)
(* texts; what it writes is the next of them, cut to what fits, and the      *)
(* characters copied so far lie behind those that are kept.                  *)
Holding == {"ready", "writing"}
HoldsString ==
    \A w \in Loggers : step[w] \in Holding => lock = w /\ line = text[w]

WantsText == \A w \in Tasks : step[w] = "idle" <=> text[w] = <<>>

WriterWrites == \A w \in Tasks : step[w] = "writing" <=> mutex = w

CallFits ==
    mutex \in Tasks =>
        /\ out.text = Head(text[mutex])
        /\ out.n = WriteLen(out.text) /\ out.i <= out.n

Copied ==
    mutex \in Tasks =>
        \A k \in 1 .. out.i : ring[Wrapped(Wrapped(head + count) + k - 1)] = out.text[k]

LogInv ==
    /\ LogTypeOK
    /\ HoldsString /\ WantsText /\ WriterWrites
    /\ CallFits /\ Copied

-----------------------------------------------------------------------------
(* Indices. *)
LEMMA WrappedType ==
    ASSUME NEW i \in 0 .. 2 * Capacity - 1 PROVE Wrapped(i) \in 0 .. Capacity - 1
BY LogAssumption DEF LogAssumption, Wrapped

(* A text to be written fits what it is cut to. *)
LEMMA WriteLenType ==
    ASSUME count \in 0 .. Capacity, NEW t \in Texts
    PROVE  /\ t \in Seq(Chars) /\ t \in Seq(Bytes)
           /\ Len(t) \in Nat /\ DOMAIN t = 1 .. Len(t)
           /\ WriteLen(t) \in 0 .. Capacity - count /\ WriteLen(t) <= Len(t)
<1>1. t \in Seq(Chars) /\ Capacity \in Nat
  BY LogAssumption DEF LogAssumption
<1>2. Len(t) \in Nat /\ DOMAIN t = 1 .. Len(t)
  BY <1>1, LenProperties
<1>3. t \in Seq(Bytes)
  BY <1>1, SeqMonotonic DEF Bytes
<1> QED BY <1>1, <1>2, <1>3 DEF WriteLen

(* A record is one text at least, and so is what a task has still to say. *)
LEMMA RecordType == ASSUME NEW r \in Records PROVE r \in Seq(Texts) /\ r # <<>>
BY LogAssumption DEF LogAssumption

LEMMA SaidFacts ==
    ASSUME LogInv, NEW w \in Tasks, step[w] # "idle"
    PROVE  /\ text[w] \in Seq(Texts) /\ text[w] # <<>>
           /\ Head(text[w]) \in Texts /\ Tail(text[w]) \in Seq(Texts)
           /\ Last(w) <=> Tail(text[w]) = <<>>
<1>1. text[w] \in Seq(Texts) /\ text[w] # <<>>
  BY DEF LogInv, LogTypeOK, WantsText
<1>2. /\ Head(text[w]) \in Texts /\ Tail(text[w]) \in Seq(Texts)
      /\ Len(Tail(text[w])) = Len(text[w]) - 1 /\ Len(text[w]) \in Nat
  BY <1>1, HeadTailProperties, LenProperties
<1>3. Tail(text[w]) = <<>> <=> Len(Tail(text[w])) = 0
  BY <1>2, EmptySeq
<1> QED BY <1>1, <1>2, <1>3 DEF Last

(* The text a writer hands over is the first of those. *)
LEMMA WriterFacts ==
    ASSUME LogInv, mutex \in Tasks
    PROVE  /\ step[mutex] = "writing" /\ out.text = Head(text[mutex])
           /\ out.text \in Texts /\ out.n = WriteLen(out.text) /\ out.i <= out.n
<1>1. step[mutex] = "writing"
  BY DEF LogInv, WriterWrites
<1>2. Head(text[mutex]) \in Texts
  BY <1>1, SaidFacts
<1> QED BY <1>1, <1>2 DEF LogInv, CallFits

LEMMA InitLog == LogInit => LogInv
<1> SUFFICES ASSUME LogInit PROVE LogInv
  OBVIOUS
<1>1. Capacity \in Nat /\ Capacity > 0 /\ CdcRoom \in Nat /\ Settle \in Nat
      /\ Nobody \notin Tasks
  BY LogAssumption DEF LogAssumption
<1>2. LogTypeOK
  <2>1. step \in [Tasks -> Steps] /\ text \in [Tasks -> Seq(Texts)] /\ line \in Seq(Texts)
    BY DEF LogInit, Steps
  <2>2. out \in Calls /\ ring \in [0 .. Capacity - 1 -> Chars \cup {Nul}]
    BY <1>1 DEF LogInit, Calls, NoCall
  <2>3. head \in 0 .. Capacity - 1 /\ count \in 0 .. Capacity /\ age \in 0 .. Settle + 1
    BY <1>1 DEF LogInit
  <2>4. cdc \in Seq(Chars \cup {Nul}) /\ Len(cdc) <= CdcRoom
    BY <1>1 DEF LogInit
  <2> QED BY <2>1, <2>2, <2>3, <2>4 DEF LogInit, LogTypeOK
<1>3. HoldsString /\ WantsText /\ WriterWrites /\ CallFits /\ Copied
  BY <1>1 DEF LogInit, HoldsString, Holding, WantsText, WriterWrites, CallFits, Copied, Tasks
<1> QED BY <1>2, <1>3 DEF LogInv

-----------------------------------------------------------------------------
(* Steps that leave the tasks, the ring and its mutex alone. *)
LEMMA OthersKeepLog ==
    ASSUME LogInv, UNCHANGED <<taskVars, mutex, ringVars>>, LogTypeOK' PROVE LogInv'
BY DEF LogInv, taskVars, ringVars, HoldsString, WantsText, WriterWrites, CallFits, Copied,
       WriteLen, Wrapped

(* A record is wanted, by a logger or by a printer. *)
LEMMA WantKeepsLog ==
    ASSUME LogInv, NEW w \in Tasks, NEW r \in Records, LogRecord(w, r) \/ PrintText(w, r)
    PROVE  LogInv'
<1>1. PICK s \in {"waiting", "ready"} :
          /\ step[w] = "idle" /\ step' = [step EXCEPT ![w] = s]
          /\ s = "ready" => w \notin Loggers
          /\ text' = [text EXCEPT ![w] = r]
          /\ UNCHANGED <<lock, line, mutex, ringVars, cdc, usbVars>>
  BY LogAssumption DEF LogAssumption, LogRecord, PrintText, Wants
<1>2. /\ step \in [Tasks -> Steps] /\ text \in [Tasks -> Seq(Texts)]
      /\ r \in Seq(Texts) /\ r # <<>>
  BY RecordType DEF LogInv, LogTypeOK
<1>3. LogTypeOK'
  BY <1>1, <1>2 DEF LogInv, LogTypeOK, Steps, ringVars, usbVars
<1>4. HoldsString' /\ WantsText' /\ WriterWrites'
  BY <1>1, <1>2 DEF LogInv, HoldsString, Holding, WantsText, WriterWrites, Tasks
<1>5. mutex # w
  BY <1>1 DEF LogInv, WriterWrites
<1>6. CallFits' /\ Copied'
  BY <1>1, <1>5 DEF LogInv, CallFits, Copied, ringVars, WriteLen, Wrapped
<1> QED BY <1>3, <1>4, <1>6 DEF LogInv

LEMMA FormatKeepsLog == ASSUME LogInv, NEW w \in Tasks, Format(w) PROVE LogInv'
<1>1. /\ w \in Loggers /\ lock = Nobody /\ lock' = w /\ line' = text[w]
      /\ step[w] = "waiting" /\ step' = [step EXCEPT ![w] = "ready"]
      /\ UNCHANGED <<text, mutex, ringVars, cdc, usbVars>>
      /\ step \in [Tasks -> Steps] /\ text \in [Tasks -> Seq(Texts)]
  BY DEF Format, LogInv, LogTypeOK
<1>2. LogTypeOK'
  BY <1>1 DEF LogInv, LogTypeOK, Steps, ringVars, usbVars
<1>3. HoldsString'
  <2>1. \A v \in Loggers : step[v] \notin Holding
    BY <1>1, LogAssumption DEF LogInv, HoldsString, LogAssumption, Tasks
  <2> QED BY <1>1, <2>1 DEF HoldsString, Tasks
<1>4. WantsText' /\ WriterWrites'
  BY <1>1 DEF LogInv, WantsText, WriterWrites
<1>5. CallFits' /\ Copied'
  BY <1>1 DEF LogInv, CallFits, Copied, ringVars, WriteLen, Wrapped
<1> QED BY <1>2, <1>3, <1>4, <1>5 DEF LogInv

LEMMA BeginKeepsLog ==
    ASSUME LogInv, NEW w \in Tasks, OutCharsBegin(w) PROVE LogInv'
<1> DEFINE t == Head(IF w \in Loggers THEN line ELSE text[w])
<1>1. /\ step[w] = "ready" /\ mutex = Nobody /\ mutex' = w
      /\ step' = [step EXCEPT ![w] = "writing"]
      /\ out' = [text |-> t, n |-> WriteLen(t), i |-> 0]
      /\ UNCHANGED <<text, lock, line, ring, head, count, cdc, usbVars>>
      /\ step \in [Tasks -> Steps] /\ Nobody \notin Tasks
  BY LogAssumption DEF LogAssumption, OutCharsBegin, LogInv, LogTypeOK
<1>2. t = Head(text[w]) /\ t \in Texts
  <2>1. w \in Loggers => line = text[w]
    BY <1>1 DEF LogInv, HoldsString, Holding
  <2> QED BY <1>1, <2>1, SaidFacts
<1> HIDE DEF t
<1>3. WriteLen(t) \in 0 .. Capacity - count /\ count \in 0 .. Capacity /\ Capacity \in Nat
  BY <1>2, WriteLenType, LogAssumption DEF LogInv, LogTypeOK, LogAssumption
<1>4. out' \in Calls
  BY <1>1, <1>2, <1>3 DEF Calls
<1>5. LogTypeOK'
  BY <1>1, <1>4 DEF LogInv, LogTypeOK, Steps, usbVars
<1>6. HoldsString' /\ WantsText'
  BY <1>1 DEF LogInv, HoldsString, Holding, WantsText, Tasks
<1>7. WriterWrites'
  BY <1>1 DEF LogInv, WriterWrites
<1>8. CallFits' /\ Copied'
  BY <1>1, <1>2, <1>3 DEF CallFits, Copied, WriteLen
<1> QED BY <1>5, <1>6, <1>7, <1>8 DEF LogInv

(* Where the next character goes: behind those that are kept and those       *)
(* already copied, on none of them.                                          *)
Place == Wrapped(Wrapped(head + count) + out.i)

LEMMA PlaceIsFree ==
    ASSUME LogInv, mutex \in Tasks, out.i < out.n
    PROVE  /\ Place \in 0 .. Capacity - 1
           /\ \A j \in 1 .. count : Wrapped(head + j - 1) # Place
           /\ \A k \in 1 .. out.i : Wrapped(Wrapped(head + count) + k - 1) # Place
           /\ out.text \in Texts /\ out.i + 1 \in DOMAIN out.text
           /\ out.text[out.i + 1] \in Chars
<1>1. /\ Capacity \in Nat /\ Capacity > 0 /\ head \in 0 .. Capacity - 1
      /\ count \in 0 .. Capacity /\ out.i \in Nat
  BY LogAssumption DEF LogAssumption, LogInv, LogTypeOK, Calls
<1>2. out.text \in Texts /\ out.n = WriteLen(out.text)
  BY WriterFacts
<1>3. /\ out.n <= Capacity - count /\ out.n <= Len(out.text) /\ out.n \in Nat
      /\ Len(out.text) \in Nat /\ DOMAIN out.text = 1 .. Len(out.text)
      /\ out.text \in Seq(Chars)
  BY <1>1, <1>2, WriteLenType
<1>4. out.i + 1 \in DOMAIN out.text
  BY <1>1, <1>3
<1>5. out.text[out.i + 1] \in Chars
  BY <1>3, <1>4, ElementOfSeq
<1>6. Place \in 0 .. Capacity - 1
  BY <1>1, <1>3 DEF Place, Wrapped
<1>7. \A j \in 1 .. count : Wrapped(head + j - 1) # Place
  BY <1>1, <1>3 DEF Place, Wrapped
<1>8. \A k \in 1 .. out.i : Wrapped(Wrapped(head + count) + k - 1) # Place
  BY <1>1, <1>3 DEF Place, Wrapped
<1> QED BY <1>2, <1>4, <1>5, <1>6, <1>7, <1>8

LEMMA ByteKeepsLog ==
    ASSUME LogInv, NEW w \in Tasks, OutCharsByte(w)
    PROVE  LogInv' /\ Kept' = Kept
<1>1. /\ mutex = w /\ out.i < out.n
      /\ ring' = [ring EXCEPT ![Place] = out.text[out.i + 1]]
      /\ out' = [out EXCEPT !.i = out.i + 1]
      /\ UNCHANGED <<taskVars, mutex, head, count, cdc, usbVars>>
  BY DEF OutCharsByte, Place
<1>2. /\ Place \in 0 .. Capacity - 1
      /\ \A j \in 1 .. count : Wrapped(head + j - 1) # Place
      /\ \A k \in 1 .. out.i : Wrapped(Wrapped(head + count) + k - 1) # Place
      /\ out.text[out.i + 1] \in Chars
  BY <1>1, PlaceIsFree
<1>3. /\ ring \in [0 .. Capacity - 1 -> Bytes] /\ out \in Calls
      /\ Capacity \in Nat /\ head \in 0 .. Capacity - 1 /\ count \in 0 .. Capacity
  BY LogAssumption DEF LogAssumption, LogInv, LogTypeOK, Bytes
<1>4. ring' \in [0 .. Capacity - 1 -> Bytes] /\ ring'[Place] = out.text[out.i + 1]
      /\ \A i \in 0 .. Capacity - 1 : i # Place => ring'[i] = ring[i]
  BY <1>1, <1>2, <1>3 DEF Bytes
<1>5. /\ out'.text = out.text /\ out'.n = out.n /\ out'.i = out.i + 1 /\ out' \in Calls
      /\ out'.i <= out'.n
  BY <1>1, <1>3 DEF Calls
<1>6. LogTypeOK'
  BY <1>1, <1>4, <1>5 DEF LogInv, LogTypeOK, taskVars, usbVars, Bytes
<1>7. HoldsString' /\ WantsText' /\ WriterWrites'
  BY <1>1 DEF LogInv, HoldsString, WantsText, WriterWrites, taskVars
<1>8. CallFits'
  BY <1>1, <1>5 DEF LogInv, CallFits, WriteLen, taskVars
<1>9. Copied'
  <2>1. head' = head /\ count' = count /\ out.i \in Nat /\ out.n <= Capacity - count
        /\ out.n \in Nat
    <3>1. out.text \in Texts /\ out.n = WriteLen(out.text)
      BY <1>1, WriterFacts
    <3> QED BY <1>1, <1>3, <3>1, WriteLenType DEF Calls
  <2>2. ASSUME NEW k \in 1 .. out.i
        PROVE  ring'[Wrapped(Wrapped(head + count) + k - 1)] = out.text[k]
    <3> DEFINE begin == Wrapped(head + count)
    <3>1. Wrapped(begin + k - 1) \in 0 .. Capacity - 1
      <4>1. begin \in 0 .. Capacity - 1
        BY <1>3 DEF Wrapped
      <4>2. k \in 1 .. Capacity /\ Capacity \in Nat
        <5>1. out.i < out.n
          BY <1>1
        <5>2. Capacity \in Nat /\ count \in 0 .. Capacity
          BY <1>3
        <5> QED BY <2>1, <5>1, <5>2
      <4> HIDE DEF begin
      <4> QED BY <4>1, <4>2 DEF Wrapped
    <3> QED BY <1>1, <1>2, <1>4, <3>1 DEF LogInv, Copied
  <2>3. ring'[Wrapped(Wrapped(head + count) + (out.i + 1) - 1)] = out.text[out.i + 1]
    <3>1. Wrapped(head + count) \in Int /\ out.i \in Int
      BY <1>3, <2>1 DEF Wrapped
    <3>2. Wrapped(head + count) + (out.i + 1) - 1 = Wrapped(head + count) + out.i
      BY <3>1
    <3> QED BY <1>4, <3>2 DEF Place
  <2>4. \A k \in 1 .. out.i + 1 : k = out.i + 1 \/ k \in 1 .. out.i
    BY <2>1
  <2>5. \A k \in 1 .. out'.i : ring'[Wrapped(Wrapped(head + count) + k - 1)] = out'.text[k]
    BY <1>5, <2>2, <2>3, <2>4
  <2> QED BY <2>1, <2>5 DEF Copied, Wrapped
<1>10. Kept' = Kept
  <2>1. \A j \in 1 .. count : Wrapped(head + j - 1) \in 0 .. Capacity - 1
    BY <1>3 DEF Wrapped
  <2>2. \A j \in 1 .. count : ring'[Wrapped(head + j - 1)] = ring[Wrapped(head + j - 1)]
    BY <1>2, <1>4, <2>1
  <2> QED BY <1>1, <2>2 DEF Kept, KeptOf, Wrapped
<1> QED BY <1>6, <1>7, <1>8, <1>9, <1>10 DEF LogInv

LEMMA EndKeepsLog == ASSUME LogInv, NEW w \in Tasks, OutCharsEnd(w) PROVE LogInv'
<1>1. /\ mutex = w /\ out.i = out.n /\ count' = count + out.n /\ out' = NoCall
      /\ mutex' = Nobody /\ Nobody \notin Tasks
      /\ step' = [step EXCEPT ![w] = IF Last(w) THEN "idle" ELSE "ready"]
      /\ text' = [text EXCEPT ![w] = Tail(text[w])]
      /\ UNCHANGED <<ring, head, cdc, usbVars>>
      /\ step \in [Tasks -> Steps] /\ text \in [Tasks -> Seq(Texts)]
  BY LogAssumption DEF LogAssumption, OutCharsEnd, LogInv, LogTypeOK
<1>2. /\ out.text \in Texts /\ out.n = WriteLen(out.text) /\ step[w] = "writing"
      /\ Tail(text[w]) \in Seq(Texts) /\ (Last(w) <=> Tail(text[w]) = <<>>)
  BY <1>1, WriterFacts, SaidFacts
<1>3. count' \in 0 .. Capacity /\ Capacity \in Nat
  <2>1. Capacity \in Nat /\ count \in 0 .. Capacity
    BY LogAssumption DEF LogAssumption, LogInv, LogTypeOK
  <2>2. WriteLen(out.text) \in 0 .. Capacity - count
    BY <1>2, <2>1, WriteLenType
  <2>3. count + WriteLen(out.text) \in 0 .. Capacity
    BY <2>1, <2>2
  <2> QED BY <1>1, <1>2, <2>1, <2>3
<1>4. NoCall \in Calls
  BY <1>3 DEF NoCall, Calls
<1>5. w \in Loggers => lock = w /\ line = text[w]
  BY <1>2 DEF LogInv, HoldsString, Holding
<1>6. /\ lock' \in Loggers \cup {Nobody} /\ line' \in Seq(Texts)
      /\ w \in Loggers => lock' = (IF Last(w) THEN Nobody ELSE w) /\ line' = Tail(text[w])
      /\ w \notin Loggers => lock' = lock /\ line' = line
  BY <1>2, <1>5 DEF OutCharsEnd, LogInv, LogTypeOK
<1>7. LogTypeOK'
  BY <1>1, <1>2, <1>3, <1>4, <1>6 DEF LogInv, LogTypeOK, Steps, usbVars
<1>8. HoldsString'
  <2> SUFFICES ASSUME NEW v \in Loggers, step'[v] \in Holding
               PROVE  lock' = v /\ line' = text'[v]
    BY DEF HoldsString
  <2>1. CASE v = w
    <3>1. ~Last(w)
      BY <1>1, <2>1 DEF Holding
    <3> QED BY <1>1, <1>6, <2>1, <3>1
  <2>2. CASE v # w
    <3>1. v \in Tasks /\ step'[v] = step[v] /\ text'[v] = text[v]
      BY <1>1, <2>2 DEF Tasks
    <3>2. lock = v /\ line = text[v]
      BY <3>1 DEF LogInv, HoldsString
    <3> QED BY <1>5, <1>6, <2>2, <3>1, <3>2
  <2> QED BY <2>1, <2>2
<1>9. WantsText' /\ WriterWrites'
  BY <1>1, <1>2 DEF LogInv, WantsText, WriterWrites
<1>10. CallFits' /\ Copied'
  BY <1>1 DEF CallFits, Copied
<1> QED BY <1>7, <1>8, <1>9, <1>10 DEF LogInv

LEMMA FlushBeginKeepsLog == ASSUME LogInv, FlushBegin PROVE LogInv'
<1>1. mutex = Nobody /\ mutex' = Usbd /\ Nobody \notin Tasks /\ Usbd \notin Tasks
      /\ UNCHANGED <<taskVars, ringVars, cdc, usbVars>>
  BY LogAssumption DEF LogAssumption, FlushBegin
<1>2. LogTypeOK'
  BY <1>1 DEF LogInv, LogTypeOK, taskVars, ringVars, usbVars
<1>3. HoldsString' /\ WantsText' /\ WriterWrites' /\ CallFits' /\ Copied'
  BY <1>1 DEF LogInv, HoldsString, WantsText, WriterWrites, CallFits, Copied, taskVars
<1> QED BY <1>2, <1>3 DEF LogInv

LEMMA FlushEndKeepsLog == ASSUME LogInv, FlushEnd PROVE LogInv'
<1>1. mutex = Usbd /\ mutex' = Nobody /\ Nobody \notin Tasks /\ Usbd \notin Tasks
      /\ UNCHANGED <<taskVars, ringVars, cdc, usbVars>>
  BY LogAssumption DEF LogAssumption, FlushEnd
<1>2. LogTypeOK'
  BY <1>1 DEF LogInv, LogTypeOK, taskVars, ringVars, usbVars
<1>3. HoldsString' /\ WantsText' /\ WriterWrites' /\ CallFits' /\ Copied'
  BY <1>1 DEF LogInv, HoldsString, WantsText, WriterWrites, CallFits, Copied, taskVars
<1> QED BY <1>2, <1>3 DEF LogInv

LEMMA FlushByteKeepsLog == ASSUME LogInv, FlushByte PROVE LogInv'
<1>1. mutex = Usbd /\ mutex' = Usbd /\ Usbd \notin Tasks
      /\ count > 0 /\ Len(cdc) < CdcRoom /\ cdc' = Append(cdc, ring[head])
      /\ count' = count - 1 /\ head' = Wrapped(head + 1)
      /\ UNCHANGED <<taskVars, out, ring, usbVars>>
  BY LogAssumption DEF LogAssumption, FlushByte
<1>2. /\ ring \in [0 .. Capacity - 1 -> Bytes] /\ cdc \in Seq(Bytes)
      /\ Capacity \in Nat /\ Capacity > 0 /\ CdcRoom \in Nat
      /\ head \in 0 .. Capacity - 1 /\ count \in 0 .. Capacity
  BY LogAssumption DEF LogAssumption, LogInv, LogTypeOK, Bytes
<1>3. head' \in 0 .. Capacity - 1 /\ count' \in 0 .. Capacity
  BY <1>1, <1>2 DEF Wrapped
<1>4. cdc' \in Seq(Bytes) /\ Len(cdc') <= CdcRoom
  <2>1. ring[head] \in Bytes /\ Len(cdc) \in Nat
    BY <1>2, LenProperties
  <2>2. cdc' \in Seq(Bytes) /\ Len(cdc') = Len(cdc) + 1
    BY <1>1, <1>2, <2>1, AppendProperties
  <2> QED BY <1>1, <1>2, <2>1, <2>2
<1>5. LogTypeOK'
  BY <1>1, <1>3, <1>4 DEF LogInv, LogTypeOK, taskVars, usbVars, Bytes
<1>6. HoldsString' /\ WantsText' /\ WriterWrites' /\ CallFits' /\ Copied'
  BY <1>1 DEF LogInv, HoldsString, WantsText, WriterWrites, CallFits, Copied, taskVars
<1> QED BY <1>5, <1>6 DEF LogInv

(* The host, the clock and the look at the port touch none of it. *)
LEMMA HostKeepsLog == ASSUME LogInv, PollConnection \/ Host PROVE LogInv'
<1>1. UNCHANGED <<taskVars, mutex, ringVars>>
  BY DEF PollConnection, Host, HostReads, HostToggles, TimePasses
<1>2. cdc \in Seq(Chars \cup {Nul}) /\ Len(cdc) <= CdcRoom /\ CdcRoom \in Nat /\ Settle \in Nat
      /\ {dtr, connected} \subseteq BOOLEAN /\ age \in 0 .. Settle + 1
  BY LogAssumption DEF LogAssumption, LogInv, LogTypeOK
<1>3. cdc' \in Seq(Chars \cup {Nul}) /\ Len(cdc') <= CdcRoom
  <2>1. CASE HostReads
    <3>1. cdc # <<>> /\ cdc' = Tail(cdc)
      BY <2>1 DEF HostReads
    <3>2. cdc' \in Seq(Chars \cup {Nul}) /\ Len(cdc') = Len(cdc) - 1 /\ Len(cdc) \in Nat
      BY <1>2, <3>1, HeadTailProperties, LenProperties
    <3> QED BY <1>2, <3>2
  <2>2. CASE PollConnection \/ HostToggles \/ TimePasses
    BY <1>2, <2>2 DEF PollConnection, HostToggles, TimePasses
  <2> QED BY <2>1, <2>2 DEF Host
<1>4. {dtr', connected'} \subseteq BOOLEAN /\ age' \in 0 .. Settle + 1
  <2>1. CASE PollConnection
    BY <1>2, <2>1 DEF PollConnection
  <2>2. CASE HostReads
    BY <1>2, <2>2 DEF HostReads, usbVars
  <2>3. CASE HostToggles
    BY <1>2, <2>3 DEF HostToggles
  <2>4. CASE TimePasses
    BY <1>2, <2>4 DEF TimePasses
  <2> QED BY <2>1, <2>2, <2>3, <2>4 DEF Host
<1>5. LogTypeOK'
  BY <1>1, <1>3, <1>4 DEF LogInv, LogTypeOK, taskVars, ringVars
<1> QED BY <1>1, <1>5, OthersKeepLog

LEMMA NextKeepsLog == LogInv /\ [LogNext]_logVars => LogInv'
<1> SUFFICES ASSUME LogInv, [LogNext]_logVars PROVE LogInv'
  OBVIOUS
<1>1. ASSUME NEW w \in Tasks, NEW r \in Records, LogRecord(w, r) \/ PrintText(w, r) PROVE LogInv'
  BY <1>1, WantKeepsLog
<1>2. ASSUME NEW w \in Tasks, LogCall(w) PROVE LogInv'
  BY <1>2, FormatKeepsLog, BeginKeepsLog, ByteKeepsLog, EndKeepsLog DEF LogCall, OutChars
<1>3. CASE UsbDeviceTask \/ Host
  BY <1>3, HostKeepsLog, FlushBeginKeepsLog, FlushByteKeepsLog, FlushEndKeepsLog
     DEF UsbDeviceTask
<1>4. CASE UNCHANGED logVars
  <2>1. LogTypeOK'
    BY <1>4 DEF LogInv, LogTypeOK, logVars, taskVars, ringVars, usbVars
  <2> QED BY <1>4, <2>1, OthersKeepLog DEF logVars
<1> QED BY <1>1, <1>2, <1>3, <1>4 DEF LogNext

(* Every variable of the logger, the ring and the connection keeps its type: *)
(* the ring never counts more characters than it has room for.               *)
THEOREM LogTypeCorrect == LogSpec => []LogTypeOK
<1>1. LogInv => LogTypeOK
  BY DEF LogInv
<1> QED BY <1>1, InitLog, NextKeepsLog, PTL DEF LogSpec

(* Every task's texts reach the ring as it wanted them, although all records *)
(* are formatted in one String.                                              *)
THEOREM LogWritesOwnText == LogSpec => []WritesOwnText
<1>1. LogInv => WritesOwnText
  BY DEF LogInv, CallFits, WritesOwnText
<1> QED BY <1>1, InitLog, NextKeepsLog, PTL DEF LogSpec

-----------------------------------------------------------------------------
(* What is kept is a sequence of count characters. *)
LEMMA KeptType ==
    ASSUME NEW r \in [0 .. Capacity - 1 -> Bytes],
           NEW h \in 0 .. Capacity - 1, NEW n \in 0 .. Capacity
    PROVE  /\ KeptOf(r, h, n) \in Seq(Bytes) /\ Len(KeptOf(r, h, n)) = n
           /\ \A i \in 1 .. n : KeptOf(r, h, n)[i] = r[Wrapped(h + i - 1)]
<1> DEFINE k == KeptOf(r, h, n)
<1>1. Capacity \in Nat /\ n \in Nat
  BY LogAssumption DEF LogAssumption
<1>2. \A i \in 1 .. n : Wrapped(h + i - 1) \in 0 .. Capacity - 1
  BY <1>1 DEF Wrapped
<1>3. \A i \in 1 .. n : k[i] = r[Wrapped(h + i - 1)] /\ k[i] \in Bytes
  BY <1>2 DEF KeptOf
<1>4. k = [i \in 1 .. n |-> k[i]]
  BY DEF KeptOf
<1> HIDE DEF k
<1>5. k \in [1 .. n -> Bytes]
  BY <1>3, <1>4
<1>6. k \in Seq(Bytes)
  BY <1>1, <1>5
<1>7. Len(k) = n
  BY <1>1, <1>5, <1>6, LenProperties
<1> QED BY <1>3, <1>6, <1>7 DEF k

(* The end of a call appends what fits of the text, in one step. *)
LEMMA EndWrites ==
    ASSUME LogInv, NEW w \in Tasks, OutCharsEnd(w)
    PROVE  Kept' = Kept \o SubSeq(out.text, 1, out.n)
<1>1. /\ mutex = w /\ out.i = out.n /\ count' = count + out.n
      /\ ring' = ring /\ head' = head
  BY DEF OutCharsEnd
<1>2. out.text \in Texts /\ out.n = WriteLen(out.text)
  BY <1>1, WriterFacts
<1>3. /\ count \in 0 .. Capacity /\ Capacity \in Nat /\ head \in 0 .. Capacity - 1
      /\ out.n \in 0 .. Capacity - count /\ out.n <= Len(out.text)
      /\ out.text \in Seq(Bytes) /\ Len(out.text) \in Nat
  BY <1>2, WriteLenType, LogAssumption DEF LogAssumption, LogInv, LogTypeOK
<1> DEFINE part == SubSeq(out.text, 1, out.n)
<1>4. part \in Seq(Bytes) /\ Len(part) = out.n
      /\ \A k \in 1 .. out.n : part[k] = out.text[k]
  <2>1. \A k \in 1 .. out.n : out.text[k] \in Bytes
    BY <1>3, ElementOfSeq
  <2> QED BY <1>3, <2>1, SubSeqProperties
<1> HIDE DEF part
<1>5. Kept \in Seq(Bytes) /\ Len(Kept) = count
      /\ \A i \in 1 .. count : Kept[i] = ring[Wrapped(head + i - 1)]
  BY KeptType DEF LogInv, LogTypeOK, Kept, Bytes
<1>6. Kept' \in Seq(Bytes) /\ Len(Kept') = count + out.n
      /\ \A i \in 1 .. count + out.n : Kept'[i] = ring[Wrapped(head + i - 1)]
  <2>1. Kept' = KeptOf(ring, head, count + out.n)
    BY <1>1 DEF Kept, KeptOf, Wrapped
  <2>2. ring \in [0 .. Capacity - 1 -> Bytes] /\ count + out.n \in 0 .. Capacity
    BY <1>3 DEF LogInv, LogTypeOK, Bytes
  <2> QED BY <1>3, <2>1, <2>2, KeptType
<1>7. Kept \o part \in Seq(Bytes) /\ Len(Kept \o part) = count + out.n
      /\ \A i \in 1 .. count + out.n :
            (Kept \o part)[i] = IF i <= count THEN Kept[i] ELSE part[i - count]
  <2>1. Kept \in Seq(Bytes) /\ part \in Seq(Bytes) /\ Len(Kept) = count /\ Len(part) = out.n
    BY <1>4, <1>5
  <2> HIDE DEF Kept
  <2>2. /\ Kept \o part \in Seq(Bytes) /\ Len(Kept \o part) = Len(Kept) + Len(part)
        /\ \A i \in 1 .. Len(Kept) + Len(part) :
              (Kept \o part)[i] = IF i <= Len(Kept) THEN Kept[i] ELSE part[i - Len(Kept)]
    BY <2>1, ConcatProperties
  <2> QED BY <2>1, <2>2
<1>8. ASSUME NEW i \in 1 .. count + out.n PROVE Kept'[i] = (Kept \o part)[i]
  <2>1. CASE i <= count
    <3>1. i \in 1 .. count
      BY <1>3, <2>1
    <3> QED BY <1>5, <1>6, <1>7, <2>1, <3>1
  <2>2. CASE ~(i <= count)
    <3>1. i - count \in 1 .. out.n
      BY <1>3, <2>2
    <3>2. Wrapped(Wrapped(head + count) + (i - count) - 1) = Wrapped(head + i - 1)
      BY <1>3, <3>1 DEF Wrapped
    <3>3. ring[Wrapped(Wrapped(head + count) + (i - count) - 1)] = out.text[i - count]
      BY <1>1, <3>1 DEF LogInv, Copied
    <3> QED BY <1>4, <1>6, <1>7, <2>2, <3>1, <3>2, <3>3
  <2> QED BY <2>1, <2>2
<1> HIDE DEF Kept
<1>9. Kept' = Kept \o part
  BY <1>6, <1>7, <1>8, SeqEqual
<1> QED BY <1>9 DEF part

(* Draining takes the oldest character. *)
LEMMA FlushSends ==
    ASSUME LogInv, FlushByte
    PROVE  Kept # <<>> /\ cdc' = Append(cdc, Head(Kept)) /\ Kept' = Tail(Kept)
<1>1. /\ count > 0 /\ cdc' = Append(cdc, ring[head])
      /\ count' = count - 1 /\ head' = Wrapped(head + 1) /\ ring' = ring
  BY DEF FlushByte
<1>2. /\ Capacity \in Nat /\ head \in 0 .. Capacity - 1 /\ count \in 0 .. Capacity
  BY LogAssumption DEF LogAssumption, LogInv, LogTypeOK
<1>3. Kept \in Seq(Bytes) /\ Len(Kept) = count
      /\ \A i \in 1 .. count : Kept[i] = ring[Wrapped(head + i - 1)]
  BY KeptType DEF LogInv, LogTypeOK, Kept, Bytes
<1>4. Kept # <<>>
  BY <1>1, <1>2, <1>3
<1>5. Head(Kept) = ring[head]
  <2>1. Head(Kept) = Kept[1]
    BY <1>3, <1>4
  <2>2. Wrapped(head + 1 - 1) = head /\ 1 \in 1 .. count
    BY <1>1, <1>2 DEF Wrapped
  <2> QED BY <1>3, <2>1, <2>2
<1>6. /\ Kept' \in Seq(Bytes) /\ Len(Kept') = count - 1
      /\ \A i \in 1 .. count - 1 : Kept'[i] = ring[Wrapped(Wrapped(head + 1) + i - 1)]
  <2>1. Kept' = KeptOf(ring, Wrapped(head + 1), count - 1)
    BY <1>1 DEF Kept, KeptOf, Wrapped
  <2>2. ring \in [0 .. Capacity - 1 -> Bytes] /\ Wrapped(head + 1) \in 0 .. Capacity - 1
        /\ count - 1 \in 0 .. Capacity
    BY <1>1, <1>2 DEF LogInv, LogTypeOK, Bytes, Wrapped
  <2> QED BY <2>1, <2>2, KeptType
<1>7. /\ Tail(Kept) \in Seq(Bytes) /\ Len(Tail(Kept)) = count - 1
      /\ \A i \in 1 .. count - 1 : Tail(Kept)[i] = Kept[i + 1]
  BY <1>3, <1>4, HeadTailProperties
<1>8. ASSUME NEW i \in 1 .. count - 1 PROVE Kept'[i] = Tail(Kept)[i]
  <2>1. i + 1 \in 1 .. count
    BY <1>2
  <2>2. Wrapped(Wrapped(head + 1) + i - 1) = Wrapped(head + (i + 1) - 1)
    BY <1>2 DEF Wrapped
  <2> QED BY <1>3, <1>6, <1>7, <2>1, <2>2
<1> HIDE DEF Kept
<1>9. Kept' = Tail(Kept)
  BY <1>6, <1>7, <1>8, SeqEqual
<1> QED BY <1>1, <1>4, <1>5, <1>9

(* Steps that leave the ring and the CDC interface alone, as the queue sees  *)
(* them.                                                                     *)
LEMMA QuietStep ==
    ASSUME UNCHANGED <<ring, head, count, cdc>> PROVE Kept' = Kept /\ cdc' = cdc
BY DEF Kept, KeptOf, Wrapped

(* Every step is one of the queue, or none. *)
LEMMA LogStepIsFifoStep ==
    ASSUME LogInv, [LogNext]_logVars
    PROVE  \/ \E w \in Tasks, r \in Records :
                 /\ text[w] = <<>> /\ text' = [text EXCEPT ![w] = r]
                 /\ Kept' = Kept /\ cdc' = cdc
           \/ \E w \in Tasks :
                 /\ text[w] # <<>>
                 /\ Kept' = Kept \o SubSeq(Head(text[w]), 1, Fifo!Fitting(Len(Head(text[w]))))
                 /\ text' = [text EXCEPT ![w] = Tail(text[w])] /\ cdc' = cdc
           \/ /\ Kept # <<>> /\ cdc' = Append(cdc, Head(Kept)) /\ Kept' = Tail(Kept)
              /\ text' = text
           \/ cdc # <<>> /\ cdc' = Tail(cdc) /\ Kept' = Kept /\ text' = text
           \/ Kept' = Kept /\ cdc' = cdc /\ text' = text
<1>1. ASSUME NEW w \in Tasks, NEW r \in Records, LogRecord(w, r) \/ PrintText(w, r)
      PROVE  text[w] = <<>> /\ text' = [text EXCEPT ![w] = r] /\ Kept' = Kept /\ cdc' = cdc
  <2>1. step[w] = "idle" /\ text' = [text EXCEPT ![w] = r] /\ UNCHANGED <<ringVars, cdc>>
    BY <1>1 DEF LogRecord, PrintText, Wants
  <2> QED BY <2>1, QuietStep DEF ringVars, LogInv, WantsText
<1>2. ASSUME NEW w \in Tasks, Format(w) \/ OutCharsBegin(w)
      PROVE  Kept' = Kept /\ cdc' = cdc /\ text' = text
  BY <1>2, QuietStep DEF Format, OutCharsBegin, ringVars
<1>3. ASSUME NEW w \in Tasks, OutCharsByte(w)
      PROVE  Kept' = Kept /\ cdc' = cdc /\ text' = text
  BY <1>3, ByteKeepsLog DEF OutCharsByte, taskVars
<1>4. ASSUME NEW w \in Tasks, OutCharsEnd(w)
      PROVE  /\ text[w] # <<>>
             /\ Kept' = Kept \o SubSeq(Head(text[w]), 1, Fifo!Fitting(Len(Head(text[w]))))
             /\ text' = [text EXCEPT ![w] = Tail(text[w])] /\ cdc' = cdc
  <2>1. /\ out.text = Head(text[w]) /\ out.text \in Texts /\ out.n = WriteLen(out.text)
        /\ text[w] # <<>>
    <3>1. mutex = w
      BY <1>4 DEF OutCharsEnd
    <3> QED BY <3>1, WriterFacts, SaidFacts
  <2>2. Len(Kept) = count /\ count \in Nat /\ Capacity \in Nat /\ Len(out.text) \in Nat
    <3>1. /\ ring \in [0 .. Capacity - 1 -> Bytes] /\ head \in 0 .. Capacity - 1
          /\ count \in 0 .. Capacity /\ Capacity \in Nat
      BY LogAssumption DEF LogAssumption, LogInv, LogTypeOK, Bytes
    <3>2. Len(Kept) = count
      BY <3>1, KeptType DEF Kept
    <3> QED BY <2>1, <3>1, <3>2, WriteLenType
  <2>3. Fifo!Fitting(Len(out.text)) = out.n
    BY <2>1, <2>2 DEF Fifo!Fitting, WriteLen, Kept, KeptOf
  <2>4. cdc' = cdc /\ text' = [text EXCEPT ![w] = Tail(text[w])]
    BY <1>4 DEF OutCharsEnd, usbVars
  <2> QED BY <1>4, <2>1, <2>3, <2>4, EndWrites
<1>5. CASE PollConnection \/ FlushBegin \/ FlushEnd \/ HostToggles \/ TimePasses
  BY <1>5, QuietStep DEF PollConnection, FlushBegin, FlushEnd, HostToggles, TimePasses, ringVars, taskVars
<1>6. CASE HostReads
  <2>1. UNCHANGED <<ring, head, count>>
    BY <1>6 DEF HostReads, ringVars
  <2> QED BY <1>6, <2>1 DEF HostReads, Kept, KeptOf, Wrapped, taskVars
<1>7. CASE UNCHANGED logVars
  BY <1>7, QuietStep DEF logVars, ringVars, taskVars
<1>8. CASE FlushByte
  <2>1. text' = text
    BY <1>8 DEF FlushByte, taskVars
  <2> QED BY <1>8, <2>1, FlushSends
<1> QED BY <1>1, <1>2, <1>3, <1>4, <1>5, <1>6, <1>7, <1>8
        DEF LogNext, LogCall, OutChars, UsbDeviceTask, Host

(* The ring implements the bounded queue: a text is taken in one step, whole *)
(* or cut at its end, and characters leave in the order they came.           *)
THEOREM LogRingIsFifo == LogSpec => RingIsFifo
<1>1. LogInit => Fifo!Init
  <2> SUFFICES ASSUME LogInit PROVE Fifo!Init
    OBVIOUS
  <2>1. count = 0 /\ cdc = <<>> /\ text = [w \in Tasks |-> <<>>]
    BY DEF LogInit
  <2> QED BY <2>1 DEF Fifo!Init
<1>2. LogInv /\ [LogNext]_logVars => [Fifo!Next]_Fifo!vars
  <2> SUFFICES ASSUME LogInv, [LogNext]_logVars PROVE [Fifo!Next]_Fifo!vars
    OBVIOUS
  <2> QED BY LogStepIsFifoStep
          DEF Kept, KeptOf, Fifo!Next, Fifo!Want, Fifo!Write, Fifo!Send, Fifo!HostReads, Fifo!vars
<1> QED BY <1>1, <1>2, InitLog, NextKeepsLog, PTL DEF LogSpec, RingIsFifo, Fifo!Spec
=============================================================================
