---------------------------- MODULE BoardProofs ----------------------------
(***************************************************************************)
(* The parts that share no state with the rest of the dock: the one-time   *)
(* cell for any number of threads and any values, although its users share *)
(* no lock; the reboot into the boot loader for any queue and any clients  *)
(* of the LED; the conversion of gamepad data for every hand on a pad.      *)
(***************************************************************************)
EXTENDS LedProofs, UsbRequests, InitCell, PadData

-----------------------------------------------------------------------------
(* The inductive invariant.  The first flag lets one thread past for ever:   *)
(* it alone is between the swap and the publication, and only before the     *)
(* second flag is set.  So no one writes once a reader may look.             *)
Writing == {"write", "writing", "finish"}

OneWriter ==
    \A t \in Threads : at[t] \in Writing =>
        /\ started /\ ~finished
        /\ \A u \in Threads : at[u] \in Writing => u = t

Carries ==
    \A t \in Threads :
        /\ at[t] \in Writing \cup {"swap", "some"} => value[t] \in Values
        /\ at[t] = "finish" => data = value[t]

Published ==
    /\ finished => started /\ data \in Values
    /\ \A t \in Threads : at[t] = "reading" => finished

CellInv == CellTypeOK /\ OneWriter /\ Carries /\ Published

LEMMA CellInitInv == CellInit => CellInv
BY DEF CellInit, CellInv, CellTypeOK, Places, OneWriter, Carries, Published, Writing

LEMMA CellNextInv == CellInv /\ [CellNext]_cellVars => CellInv'
<1> SUFFICES ASSUME CellInv, [CellNext]_cellVars PROVE CellInv'
  OBVIOUS
<1> USE DEF CellInv, CellTypeOK, Places, OneWriter, Carries, Published, Writing, Go
<1>1. ASSUME NEW t \in Threads, NEW v \in Values, CallSet(t, v) PROVE CellInv'
  BY <1>1 DEF CallSet
<1>2. ASSUME NEW t \in Threads, Swap(t) PROVE CellInv'
  BY <1>2 DEF Swap
<1>3. ASSUME NEW t \in Threads, BeginWrite(t) PROVE CellInv'
  BY <1>3 DEF BeginWrite
<1>4. ASSUME NEW t \in Threads, EndWrite(t) PROVE CellInv'
  BY <1>4 DEF EndWrite
<1>5. ASSUME NEW t \in Threads, Finish(t) PROVE CellInv'
  BY <1>5 DEF Finish
<1>6. ASSUME NEW t \in Threads, Load(t) PROVE CellInv'
  BY <1>6 DEF Load
<1>7. ASSUME NEW t \in Threads, Read(t) PROVE CellInv'
  BY <1>7 DEF Read
<1>8. ASSUME NEW t \in Threads, UnwrapNone(t) PROVE CellInv'
  BY <1>8 DEF UnwrapNone
<1>9. ASSUME NEW t \in Threads, Return(t) PROVE CellInv'
  BY <1>9 DEF Return
<1>10. CASE UNCHANGED cellVars
  BY <1>10 DEF cellVars
<1> QED
  BY <1>1, <1>2, <1>3, <1>4, <1>5, <1>6, <1>7, <1>8, <1>9, <1>10 DEF CellNext

LEMMA CellInvariant == CellSpec => []CellInv
BY CellInitInv, CellNextInv, PTL DEF CellSpec

-----------------------------------------------------------------------------
(* The cell's flags, memory and threads keep their types. *)
THEOREM CellTypeCorrect == CellSpec => []CellTypeOK
BY CellInvariant, PTL DEF CellInv

(* No reader of any number of threads ever gets a value that is half        *)
(* written (util.rs:35).                                                    *)
THEOREM CellReadsWhole == CellSpec => []ReadsWhole
<1>1. CellInv => ReadsWhole
  BY DEF CellInv, Carries, ReadsWhole
<1> QED BY <1>1, CellInvariant, PTL

(* The reference handed out stays good: no step of any thread changes the   *)
(* value once it is published (util.rs:30).                                 *)
THEOREM CellFixedOncePublished == CellSpec => FixedOncePublished
<1>1. CellInv /\ [CellNext]_cellVars => [finished => data' = data]_cellVars
  <2> SUFFICES ASSUME CellInv, CellNext, finished PROVE data' = data
    BY DEF cellVars
  <2>1. \A t \in Threads : ~BeginWrite(t) /\ ~EndWrite(t)
    BY DEF CellInv, OneWriter, Writing, BeginWrite, EndWrite, Go
  <2> QED
    BY <2>1 DEF CellNext, CallSet, Swap, Finish, Load, Read, UnwrapNone, Return
<1> QED BY <1>1, CellInvariant, PTL DEF CellSpec, FixedOncePublished

-----------------------------------------------------------------------------
(* The way into the boot loader.  A reboot leaves the LED task a unit of    *)
(* time for each place in its queue, and one more.                          *)
DelayCoversQueue == LedQueueLen < Delay

DfuSet == LedMessage("Dfu", TRUE)

(* Nobody withdraws the request to show Dfu, *)
DfuNotWithdrawn ==
    \A i \in 1 .. Len(ledQueue) : ledQueue[i] # LedMessage("Dfu", FALSE)

(* and the LED task has counted it, or gets to it in the time that is left: *)
(* a unit for each message up to it, less the one it is through with.       *)
Through == IF handled THEN 1 ELSE 0
DfuInTime ==
    boot = "bootsel" =>
        \/ counts["Dfu"] > 0
        \/ \E i \in 1 .. Len(ledQueue) : ledQueue[i] = DfuSet /\ i + Through <= timer

RequestInv ==
    /\ LedInv /\ DfuNotWithdrawn /\ DfuInTime
    /\ timer \in Nat /\ handled \in BOOLEAN

LEMMA RequestInitInv == RequestInit => RequestInv
<1> SUFFICES ASSUME RequestInit PROVE RequestInv
  OBVIOUS
<1>1. LedInv
  BY LedInitInv DEF RequestInit
<1>2. DfuNotWithdrawn
  BY DEF RequestInit, LedInit, DfuNotWithdrawn, LedMessage
<1> QED BY <1>1, <1>2 DEF RequestInit, RequestInv, DfuInTime

(* A message posted goes behind the ones that wait. *)
LEMMA SendKeepsPlaces ==
    ASSUME LedInv, NEW s \in LedStates, NEW b \in BOOLEAN, LedSend(s, b)
    PROVE  /\ Len(ledQueue) \in Nat /\ Len(ledQueue') = Len(ledQueue) + 1
           /\ \A i \in 1 .. Len(ledQueue) : ledQueue'[i] = ledQueue[i]
           /\ ledQueue'[Len(ledQueue')] = LedMessage(s, b)
<1>1. LedMessage(s, b) \in LedMessages /\ ledQueue \in Seq(LedMessages)
  BY DEF LedMessage, LedMessages, LedInv, LedTypeOK
<1> QED BY <1>1, AppendProperties, LenProperties DEF LedSend

LEMMA SendKeepsDfu ==
    ASSUME RequestInv, NEW s \in LedStates, NEW b \in BOOLEAN, LedSend(s, b),
           s # "Dfu" \/ b
    PROVE  DfuNotWithdrawn'
<1>1. LedMessage(s, b) # LedMessage("Dfu", FALSE)
  BY DEF LedMessage
<1>2. /\ Len(ledQueue) \in Nat /\ Len(ledQueue') = Len(ledQueue) + 1
      /\ \A i \in 1 .. Len(ledQueue) : ledQueue'[i] = ledQueue[i]
      /\ ledQueue'[Len(ledQueue')] = LedMessage(s, b)
  BY SendKeepsPlaces DEF RequestInv
<1>3. ASSUME NEW i \in 1 .. Len(ledQueue') PROVE ledQueue'[i] # LedMessage("Dfu", FALSE)
  <2>1. i \in 1 .. Len(ledQueue) \/ i = Len(ledQueue')
    BY <1>2
  <2> QED BY <2>1, <1>1, <1>2 DEF RequestInv, DfuNotWithdrawn
<1> QED BY <1>3 DEF DfuNotWithdrawn

(* What the LED task receives is counted if it is the request, and brings   *)
(* the others one place forward.                                            *)
LEMMA HandleCountsDfu ==
    ASSUME RequestInv, HandleLedMessage, handled' = TRUE, UNCHANGED <<boot, timer>>
    PROVE  DfuNotWithdrawn' /\ DfuInTime'
<1>1. PICK s \in LedStates : \/ SetTakesOver(s) \/ SetCounted(s) \/ UnsetShown(s)
                             \/ UnsetCounted(s) \/ UnsetUnderflow(s)
  BY DEF HandleLedMessage
<1>2. /\ ledQueue \in Seq(LedMessages) /\ ledQueue # <<>> /\ ledQueue' = Tail(ledQueue)
  BY <1>1 DEF SetTakesOver, SetCounted, UnsetShown, UnsetCounted, UnsetUnderflow,
              LedReceive, RequestInv, LedInv, LedTypeOK
<1>3. counts["Dfu"] \in Nat /\ DOMAIN counts = LedStates /\ "Dfu" \in LedStates
  BY DEF RequestInv, LedInv, LedTypeOK, LedStates
<1>4. PICK n \in Nat : n = Len(ledQueue)
  BY <1>2, LenProperties
<1>5. /\ n > 0 /\ Len(ledQueue') = n - 1
      /\ \A i \in 1 .. n - 1 : ledQueue'[i] = ledQueue[i + 1]
      /\ Head(ledQueue) = ledQueue[1]
  BY <1>2, <1>4, HeadTailProperties, EmptySeq
<1>6. DfuNotWithdrawn'
  <2>1. \A i \in 1 .. n - 1 : i + 1 \in 1 .. n
    BY <1>4
  <2> QED BY <2>1, <1>4, <1>5 DEF RequestInv, DfuNotWithdrawn
<1>7. Head(ledQueue) # LedMessage("Dfu", FALSE)
  <2>1. 1 \in 1 .. n
    BY <1>5
  <2> QED BY <2>1, <1>4, <1>5 DEF RequestInv, DfuNotWithdrawn
<1>8. s = "Dfu" /\ (SetTakesOver(s) \/ SetCounted(s)) => counts'["Dfu"] > 0
  <2> SUFFICES ASSUME SetTakesOver("Dfu") \/ SetCounted("Dfu")
               PROVE  counts'["Dfu"] > 0
    OBVIOUS
  <2>1. PICK c \in Nat : c = counts["Dfu"]
    BY <1>3
  <2>2. counts'["Dfu"] = 1 \/ counts'["Dfu"] = c + 1
    BY <1>3, <2>1 DEF SetTakesOver, SetCounted
  <2>3. c + 1 > 0
    OBVIOUS
  <2> QED BY <2>2, <2>3
<1>9. counts["Dfu"] > 0 => counts'["Dfu"] > 0
  <2>1. s = "Dfu" => SetTakesOver(s) \/ SetCounted(s)
    BY <1>1, <1>7 DEF UnsetShown, UnsetCounted, UnsetUnderflow, LedReceive
  <2>2. CASE s = "Dfu"
    BY <1>8, <2>1, <2>2
  <2>3. CASE s # "Dfu"
    <3>1. counts'["Dfu"] = counts["Dfu"]
      BY <1>3, <1>1, <2>3 DEF SetTakesOver, SetCounted, UnsetShown, UnsetCounted,
                              UnsetUnderflow
    <3> QED BY <3>1
  <2> QED BY <2>2, <2>3
<1>10. Head(ledQueue) = DfuSet => counts'["Dfu"] > 0
  <2> SUFFICES ASSUME Head(ledQueue) = DfuSet PROVE counts'["Dfu"] > 0
    OBVIOUS
  <2>1. s = "Dfu" /\ (SetTakesOver(s) \/ SetCounted(s))
    BY <1>1 DEF SetTakesOver, SetCounted, UnsetShown, UnsetCounted, UnsetUnderflow,
                LedReceive, DfuSet, LedMessage
  <2> QED BY <1>8, <2>1
<1>11. DfuInTime'
  <2> SUFFICES ASSUME boot = "bootsel", ~(counts'["Dfu"] > 0)
               PROVE  \E i \in 1 .. n - 1 : ledQueue'[i] = DfuSet /\ i + 1 <= timer
    BY <1>5 DEF DfuInTime, Through
  <2>1. PICK i \in 1 .. n : ledQueue[i] = DfuSet /\ i + Through <= timer
    BY <1>4, <1>9 DEF RequestInv, DfuInTime
  <2>2. i # 1
    BY <1>5, <1>10, <2>1
  <2>3. i <= timer
    BY <2>1 DEF RequestInv, Through
  <2>4. i - 1 \in 1 .. n - 1 /\ i - 1 + 1 <= timer /\ (i - 1) + 1 = i
    BY <2>2, <2>3
  <2>5. ledQueue'[i - 1] = DfuSet
    BY <1>5, <2>1, <2>4
  <2> QED BY <2>4, <2>5
<1> QED BY <1>6, <1>11

(* The request is posted at a place that Delay covers. *)
LEMMA PostedInTime ==
    ASSUME RequestInv, DelayCoversQueue, SetDfuAndReboot PROVE RequestInv'
<1>1. LedSend("Dfu", TRUE) /\ "Dfu" \in LedStates
  BY DEF SetDfuAndReboot, LedStates
<1>2. LedInv'
  BY <1>1, ClientKeepsLedInv DEF RequestInv
<1>3. DfuNotWithdrawn'
  BY <1>1, SendKeepsDfu
<1>4. PICK n \in Nat : n = Len(ledQueue)
  BY LenProperties DEF RequestInv, LedInv, LedTypeOK
<1>5. n < LedQueueLen /\ Len(ledQueue') = n + 1 /\ ledQueue'[n + 1] = DfuSet
  BY <1>1, <1>4, SendKeepsPlaces DEF RequestInv, LedSend, DfuSet
<1>6. timer' = Delay /\ handled' = handled /\ Delay \in Nat /\ LedQueueLen \in Nat
  BY RequestAssumption, LedAssumption
     DEF SetDfuAndReboot, RomReboot, RequestAssumption, LedAssumption
<1>7. DfuInTime'
  <2>1. n + 1 \in 1 .. n + 1 /\ n + 1 + 1 <= Delay
    BY <1>5, <1>6 DEF DelayCoversQueue
  <2>2. n + 1 + Through' <= timer'
    BY <1>6, <2>1 DEF Through
  <2> QED BY <1>5, <2>1, <2>2 DEF DfuInTime
<1> QED BY <1>2, <1>3, <1>6, <1>7 DEF RequestInv

LEMMA RequestNextInv ==
    DelayCoversQueue /\ RequestInv /\ [RequestNext]_requestVars => RequestInv'
<1> SUFFICES ASSUME DelayCoversQueue, RequestInv, [RequestNext]_requestVars
             PROVE  RequestInv'
  OBVIOUS
<1>0. ASSUME UNCHANGED <<ledVars, handled>>, timer' \in Nat,
             boot' = "bootsel" => boot = "bootsel" /\ timer' = timer
      PROVE  RequestInv'
  BY <1>0 DEF ledVars, RequestInv, LedInv, LedTypeOK, ShowsTopPriority, LitAgrees,
              DfuNotWithdrawn, DfuInTime, Through
<1>1. ASSUME NEW r \in Setups, Setup(r) PROVE RequestInv'
  BY <1>0, <1>1, RequestAssumption
     DEF Setup, RomReboot, RequestAssumption, RequestInv
<1>2. CASE MagicBaudRate
  BY <1>0, <1>2 DEF MagicBaudRate, RequestInv
<1>3. CASE SetDfuAndReboot
  BY <1>3, PostedInTime
<1>4. CASE Tick
  <2>0. LedInv' /\ DfuNotWithdrawn'
    BY <1>4 DEF Tick, ledVars, RequestInv, LedInv, LedTypeOK, ShowsTopPriority,
                LitAgrees, DfuNotWithdrawn
  <2>1. timer' \in Nat /\ handled' = FALSE
    BY <1>4 DEF Tick, RequestInv
  <2>2. DfuInTime'
    <3> SUFFICES ASSUME boot = "bootsel", ~(counts["Dfu"] > 0)
                 PROVE  \E i \in 1 .. Len(ledQueue) : ledQueue[i] = DfuSet /\ i <= timer - 1
      BY <1>4, <2>1 DEF Tick, ledVars, DfuInTime, Through
    <3>1. PICK i \in 1 .. Len(ledQueue) : ledQueue[i] = DfuSet /\ i + Through <= timer
      BY DEF RequestInv, DfuInTime
    <3>2. ledQueue # <<>>
      BY <3>1
    <3>3. Through = 1
      BY <1>4, <3>2 DEF Tick, Through
    <3> QED BY <3>1, <3>3 DEF RequestInv
  <2> QED BY <2>0, <2>1, <2>2 DEF RequestInv
<1>5. CASE Reset
  BY <1>0, <1>5 DEF Reset, RequestInv
<1>6. CASE LedTask
  <2>1. CASE HandleLedMessage /\ handled' = TRUE
    <3>1. UNCHANGED <<boot, timer>>
      BY <1>6 DEF LedTask, requestOnly
    <3> QED BY <2>1, <3>1, HandleKeepsLedInv, HandleCountsDfu DEF RequestInv
  <2>2. CASE BlinkTimeout /\ UNCHANGED handled
    <3>1. LedInv'
      BY <2>2, BlinkTimeoutKeepsLedInv DEF RequestInv
    <3> QED BY <1>6, <2>2, <3>1 DEF LedTask, BlinkTimeout, requestOnly, RequestInv,
                                    DfuNotWithdrawn, DfuInTime, Through
  <2> QED BY <1>6, <2>1, <2>2 DEF LedTask
<1>7. CASE OtherClient
  <2>1. PICK s \in Others, b \in BOOLEAN : LedSend(s, b)
    BY <1>7 DEF OtherClient
  <2>2. s \in LedStates /\ s # "Dfu" /\ UNCHANGED <<boot, timer, handled, counts>>
    BY <1>7, <2>1 DEF Others, OtherClient, requestOnly, LedSend
  <2>3. LedInv' /\ DfuNotWithdrawn'
    BY <2>1, <2>2, ClientKeepsLedInv, SendKeepsDfu DEF RequestInv
  <2>4. PICK n \in Nat : n = Len(ledQueue)
    BY LenProperties DEF RequestInv, LedInv, LedTypeOK
  <2>5. Len(ledQueue') = n + 1 /\ \A i \in 1 .. n : ledQueue'[i] = ledQueue[i]
    BY <2>1, <2>2, <2>4, SendKeepsPlaces DEF RequestInv
  <2>6. DfuInTime'
    <3> SUFFICES ASSUME boot = "bootsel", ~(counts["Dfu"] > 0)
                 PROVE  \E i \in 1 .. n + 1 : ledQueue'[i] = DfuSet /\ i + Through <= timer
      BY <2>2, <2>5 DEF DfuInTime, Through
    <3>1. PICK i \in 1 .. n : ledQueue[i] = DfuSet /\ i + Through <= timer
      BY <2>4 DEF RequestInv, DfuInTime
    <3>2. i \in 1 .. n + 1
      OBVIOUS
    <3> QED BY <2>5, <3>1, <3>2
  <2> QED BY <2>2, <2>3, <2>6 DEF RequestInv
<1>8. CASE UNCHANGED requestVars
  BY <1>0, <1>8 DEF requestVars, requestOnly, RequestInv
<1> QED
  BY <1>1, <1>2, <1>3, <1>4, <1>5, <1>6, <1>7, <1>8 DEF RequestNext

(* When the chip goes into the boot loader the LED shows it, for every queue *)
(* and whatever the LED's other clients do, if a reboot leaves a unit of     *)
(* time for each place in the queue and one more (usb_device.cpp:146, 181).  *)
THEOREM DfuShowsAtReset == DelayCoversQueue => (RequestSpec => DfuShownAtReset)
<1> SUFFICES ASSUME DelayCoversQueue PROVE RequestSpec => DfuShownAtReset
  OBVIOUS
<1>1. RequestInv /\ [RequestNext]_requestVars
        => [boot = "bootsel" /\ boot' = "done" => lit = "Dfu"]_requestVars
  <2> SUFFICES ASSUME RequestInv, RequestNext, boot = "bootsel", boot' = "done"
               PROVE  lit = "Dfu"
    OBVIOUS
  <2>1. Reset
    BY DEF RequestNext, Setup, MagicBaudRate, SetDfuAndReboot, RomReboot, Tick,
           LedTask, OtherClient, requestOnly
  <2>2. counts["Dfu"] > 0
    BY <2>1 DEF Reset, RequestInv, DfuInTime, Through
  <2>3. ledState = "Dfu"
    BY <2>2 DEF RequestInv, LedInv, LedTypeOK, ShowsTopPriority, Priority, LedStates
  <2> QED BY <2>3 DEF RequestInv, LedInv, LitAgrees, Blinking
<1>2. RequestInv /\ [RequestNext]_requestVars => RequestInv'
  BY RequestNextInv
<1> QED BY <1>1, <1>2, RequestInitInv, PTL DEF RequestSpec, DfuShownAtReset

-----------------------------------------------------------------------------
(* A gamepad feels the same over USB and over Bluetooth.  The bits of every *)
(* set of buttons are compared one by one with what is held, and the axes   *)
(* of a side with the stick and the trigger.                                *)
ASide(side) ==
    /\ side.x \in INT16_MIN .. INT16_MAX /\ side.y \in INT16_MIN .. INT16_MAX
    /\ side.pull \in 0 .. 1023

AnyHand(h) == h.held \in SUBSET DOMAIN Bit /\ ASide(h.left) /\ ASide(h.right)

LEMMA ButtonNames ==
    DOMAIN Bit = {"A", "B", "X", "Y", "UP", "DOWN", "RIGHT", "LEFT", "SYSTEM", "SELECT",
                  "START", "CAPTURE", "L1", "R1", "L2", "R2", "L3", "R3"}
BY DEF Bit

LEMMA DigitalNames ==
    Digital = {"A", "B", "X", "Y", "UP", "DOWN", "RIGHT", "LEFT", "SYSTEM", "SELECT",
               "START", "CAPTURE", "L1", "R1", "L3", "R3"}
BY ButtonNames DEF Digital

(* Bit n of a set of buttons, by the name of the button. *)
Says(n, names) ==
    \/ n = 0 /\ "A" \in names
    \/ n = 1 /\ "B" \in names
    \/ n = 2 /\ "X" \in names
    \/ n = 3 /\ "Y" \in names
    \/ n = 4 /\ "UP" \in names
    \/ n = 5 /\ "DOWN" \in names
    \/ n = 6 /\ "RIGHT" \in names
    \/ n = 7 /\ "LEFT" \in names
    \/ n = 8 /\ "SYSTEM" \in names
    \/ n = 9 /\ "SELECT" \in names
    \/ n = 10 /\ "START" \in names
    \/ n = 11 /\ "CAPTURE" \in names
    \/ n = 12 /\ "L1" \in names
    \/ n = 13 /\ "R1" \in names
    \/ n = 14 /\ "L2" \in names
    \/ n = 15 /\ "R2" \in names
    \/ n = 16 /\ "L3" \in names
    \/ n = 17 /\ "R3" \in names

LEMMA NamedBitByBit ==
    ASSUME NEW names \in SUBSET DOMAIN Bit, NEW n
    PROVE  n \in Named(names) <=> Says(n, names)
<1>1. ASSUME n \in Named(names) PROVE Says(n, names)
  <2>1. PICK b \in names : n = Bit[b]
    BY <1>1 DEF Named
  <2>2. b \in DOMAIN Bit
    BY <2>1
  <2> QED BY <2>1, <2>2, ButtonNames DEF Bit, Says
<1>2. ASSUME Says(n, names) PROVE n \in Named(names)
  <2> SUFFICES \E b \in names : n = Bit[b]
    BY DEF Named
  <2> QED BY <1>2 DEF Says, Bit
<1> QED BY <1>1, <1>2

(* XInput's word of buttons. *)
LEMMA XinputHeld ==
    ASSUME NEW h, NEW b \in Digital
    PROVE  XinputBit[b] \in XinputPad(h).wButtons <=> b \in h.held
<1>1. XinputPad(h).wButtons = {XinputBit[c] : c \in h.held \cap DOMAIN XinputBit}
  BY DEF XinputPad, BitsOf
<1>2. DOMAIN XinputBit = Digital
  BY DigitalNames DEF XinputBit
<1>3. \A c \in Digital : XinputBit[c] = XinputBit[b] => c = b
  BY DigitalNames DEF XinputBit
<1> QED BY <1>1, <1>2, <1>3

(* The names XInput's driver reports, for any hand. *)
OverUsb(h) == (h.held \cap Digital) \cup Pulled(h.left, "L2") \cup Pulled(h.right, "R2")

LEMMA TriggerPulled ==
    ASSUME NEW side, ASide(side), NEW name
    PROVE  side.pull \div 4 > kTriggerThreshold <=> name \in Pulled(side, name)
<1>1. PICK p \in 0 .. 1023 : p = side.pull
  BY DEF ASide
<1>2. p \div 4 > 8 <=> p >= 36
  OBVIOUS
<1> QED BY <1>1, <1>2 DEF Pulled, kTriggerThreshold

LEMMA XinputBitByBit ==
    ASSUME NEW h, AnyHand(h), NEW n
    PROVE  n \in XinputButtons(XinputPad(h)) <=> Says(n, OverUsb(h))
<1> DEFINE w == XinputPad(h).wButtons
           o == OverUsb(h)
<1>0. /\ \A b \in Digital : b \in o <=> b \in h.held
      /\ "L2" \in o <=> "L2" \in Pulled(h.left, "L2")
      /\ "R2" \in o <=> "R2" \in Pulled(h.right, "R2")
  BY DigitalNames DEF OverUsb, Pulled
<1>00. \A b \in Digital : XinputBit[b] \in w <=> b \in o
  BY <1>0, XinputHeld
<1> HIDE DEF o
<1>1. /\ 0 \in w <=> "UP" \in o
      /\ 1 \in w <=> "DOWN" \in o
      /\ 2 \in w <=> "LEFT" \in o
      /\ 3 \in w <=> "RIGHT" \in o
      /\ 4 \in w <=> "START" \in o
      /\ 5 \in w <=> "SELECT" \in o
      /\ 6 \in w <=> "L3" \in o
      /\ 7 \in w <=> "R3" \in o
  BY <1>00, DigitalNames DEF XinputBit
<1>2. /\ 8 \in w <=> "L1" \in o
      /\ 9 \in w <=> "R1" \in o
      /\ 10 \in w <=> "SYSTEM" \in o
      /\ 11 \in w <=> "CAPTURE" \in o
      /\ 12 \in w <=> "A" \in o
      /\ 13 \in w <=> "B" \in o
      /\ 14 \in w <=> "X" \in o
      /\ 15 \in w <=> "Y" \in o
  BY <1>00, DigitalNames DEF XinputBit
<1>3. /\ XinputPad(h).bLeftTrigger > kTriggerThreshold <=> "L2" \in o
      /\ XinputPad(h).bRightTrigger > kTriggerThreshold <=> "R2" \in o
  <2>1. /\ XinputPad(h).bLeftTrigger = h.left.pull \div 4
        /\ XinputPad(h).bRightTrigger = h.right.pull \div 4
    BY DEF XinputPad
  <2> QED BY <1>0, <2>1, TriggerPulled DEF AnyHand
<1> HIDE DEF w
<1>4. n \in Shifted(w \cap 12 .. 15, -12) <=>
          \/ (n = 0 /\ 12 \in w) \/ (n = 1 /\ 13 \in w)
          \/ (n = 2 /\ 14 \in w) \/ (n = 3 /\ 15 \in w)
  <2>1. \A b \in 12 .. 15 : b = 12 \/ b = 13 \/ b = 14 \/ b = 15
    OBVIOUS
  <2> QED BY <2>1 DEF Shifted
<1>5. n \in XinputButtons(XinputPad(h)) <=>
          \/ n \in Shifted(w \cap 12 .. 15, -12)
          \/ (n = 4 /\ 0 \in w) \/ (n = 5 /\ 1 \in w)
          \/ (n = 6 /\ 3 \in w) \/ (n = 7 /\ 2 \in w)
          \/ (n = 8 /\ 10 \in w) \/ (n = 9 /\ 5 \in w)
          \/ (n = 10 /\ 4 \in w) \/ (n = 11 /\ 11 \in w)
          \/ (n = 12 /\ 8 \in w) \/ (n = 13 /\ 9 \in w)
          \/ (n = 14 /\ XinputPad(h).bLeftTrigger > kTriggerThreshold)
          \/ (n = 15 /\ XinputPad(h).bRightTrigger > kTriggerThreshold)
          \/ (n = 16 /\ 6 \in w) \/ (n = 17 /\ 7 \in w)
  BY DEF XinputButtons, Picked, w
<1> QED BY <1>1, <1>2, <1>3, <1>4, <1>5 DEF Says, o

(* Bluepad32's three words. *)
LEMMA BluepadButtonBits ==
    ASSUME NEW names, NEW k
    PROVE  k \in BitsOf(names, BluepadButton) <=>
             \/ (k = 0 /\ "A" \in names) \/ (k = 1 /\ "B" \in names)
             \/ (k = 2 /\ "X" \in names) \/ (k = 3 /\ "Y" \in names)
             \/ (k = 4 /\ "L1" \in names) \/ (k = 5 /\ "R1" \in names)
             \/ (k = 6 /\ "L2" \in names) \/ (k = 7 /\ "R2" \in names)
             \/ (k = 8 /\ "L3" \in names) \/ (k = 9 /\ "R3" \in names)
BY DEF BitsOf, BluepadButton

LEMMA BluepadDpadBits ==
    ASSUME NEW names, NEW k
    PROVE  k \in BitsOf(names, BluepadDpad) <=>
             \/ (k = 0 /\ "UP" \in names) \/ (k = 1 /\ "DOWN" \in names)
             \/ (k = 2 /\ "RIGHT" \in names) \/ (k = 3 /\ "LEFT" \in names)
BY DEF BitsOf, BluepadDpad

LEMMA BluepadMiscBits ==
    ASSUME NEW names, NEW k
    PROVE  k \in BitsOf(names, BluepadMisc) <=>
             \/ (k = 0 /\ "SYSTEM" \in names) \/ (k = 1 /\ "SELECT" \in names)
             \/ (k = 2 /\ "START" \in names) \/ (k = 3 /\ "CAPTURE" \in names)
BY DEF BitsOf, BluepadMisc

LEMMA ShiftedBit ==
    ASSUME NEW S, NEW a \in Nat, NEW b \in Nat, NEW k \in Nat, NEW n
    PROVE  n \in Shifted(S \cap a .. b, k) <=>
             n \in Nat /\ n - k \in S /\ n - k \in a .. b
<1>1. ASSUME n \in Shifted(S \cap a .. b, k)
      PROVE  n \in Nat /\ n - k \in S /\ n - k \in a .. b
  <2>1. PICK c \in S \cap a .. b : n = c + k
    BY <1>1 DEF Shifted
  <2>2. n \in Nat /\ n - k = c
    BY <2>1
  <2> QED BY <2>1, <2>2
<1>2. ASSUME n \in Nat, n - k \in S, n - k \in a .. b
      PROVE  n \in Shifted(S \cap a .. b, k)
  <2>1. n = (n - k) + k
    BY <1>2
  <2> QED BY <1>2, <2>1 DEF Shifted
<1> QED BY <1>1, <1>2

LEMMA BluepadBitByBit ==
    ASSUME NEW h, AnyHand(h), NEW n
    PROVE  n \in BtData16(BluepadPad(h)).buttons <=> Says(n, h.held)
<1> DEFINE g == BitsOf(h.held, BluepadButton)
           d == BitsOf(h.held, BluepadDpad)
           m == BitsOf(h.held, BluepadMisc)
<1>1. BtData16(BluepadPad(h)).buttons =
          (g \cap 0 .. 3) \cup Shifted(d \cap 0 .. 3, 4)
              \cup Shifted(m \cap 0 .. 3, 8) \cup Shifted(g \cap 4 .. 9, 8)
  BY DEF BtData16, BluepadPad
<1> HIDE DEF g, d, m
<1>4. n \in g \cap 0 .. 3 <=>
          \/ (n = 0 /\ "A" \in h.held) \/ (n = 1 /\ "B" \in h.held)
          \/ (n = 2 /\ "X" \in h.held) \/ (n = 3 /\ "Y" \in h.held)
  BY BluepadButtonBits DEF g
<1>5. n \in Shifted(d \cap 0 .. 3, 4) <=>
          \/ (n = 4 /\ "UP" \in h.held) \/ (n = 5 /\ "DOWN" \in h.held)
          \/ (n = 6 /\ "RIGHT" \in h.held) \/ (n = 7 /\ "LEFT" \in h.held)
  <2>1. n \in Shifted(d \cap 0 .. 3, 4) <=> n \in Nat /\ n - 4 \in d /\ n - 4 \in 0 .. 3
    BY ShiftedBit
  <2>2. n - 4 \in d <=>
            \/ (n - 4 = 0 /\ "UP" \in h.held) \/ (n - 4 = 1 /\ "DOWN" \in h.held)
            \/ (n - 4 = 2 /\ "RIGHT" \in h.held) \/ (n - 4 = 3 /\ "LEFT" \in h.held)
    BY BluepadDpadBits DEF d
  <2> QED BY <2>1, <2>2
<1>6. n \in Shifted(m \cap 0 .. 3, 8) <=>
          \/ (n = 8 /\ "SYSTEM" \in h.held) \/ (n = 9 /\ "SELECT" \in h.held)
          \/ (n = 10 /\ "START" \in h.held) \/ (n = 11 /\ "CAPTURE" \in h.held)
  <2>1. n \in Shifted(m \cap 0 .. 3, 8) <=> n \in Nat /\ n - 8 \in m /\ n - 8 \in 0 .. 3
    BY ShiftedBit
  <2>2. n - 8 \in m <=>
            \/ (n - 8 = 0 /\ "SYSTEM" \in h.held) \/ (n - 8 = 1 /\ "SELECT" \in h.held)
            \/ (n - 8 = 2 /\ "START" \in h.held) \/ (n - 8 = 3 /\ "CAPTURE" \in h.held)
    BY BluepadMiscBits DEF m
  <2> QED BY <2>1, <2>2
<1>7. n \in Shifted(g \cap 4 .. 9, 8) <=>
          \/ (n = 12 /\ "L1" \in h.held) \/ (n = 13 /\ "R1" \in h.held)
          \/ (n = 14 /\ "L2" \in h.held) \/ (n = 15 /\ "R2" \in h.held)
          \/ (n = 16 /\ "L3" \in h.held) \/ (n = 17 /\ "R3" \in h.held)
  <2>1. n \in Shifted(g \cap 4 .. 9, 8) <=> n \in Nat /\ n - 8 \in g /\ n - 8 \in 4 .. 9
    BY ShiftedBit
  <2>2. n - 8 \in 4 .. 9 =>
          (n - 8 \in g <=>
             \/ (n - 8 = 4 /\ "L1" \in h.held) \/ (n - 8 = 5 /\ "R1" \in h.held)
             \/ (n - 8 = 6 /\ "L2" \in h.held) \/ (n - 8 = 7 /\ "R2" \in h.held)
             \/ (n - 8 = 8 /\ "L3" \in h.held) \/ (n - 8 = 9 /\ "R3" \in h.held))
    BY BluepadButtonBits DEF g
  <2> QED BY <2>1, <2>2
<1> QED BY <1>1, <1>4, <1>5, <1>6, <1>7 DEF Says

-----------------------------------------------------------------------------
(* The range of an axis, by its ends. *)
Axis(m) == m \in Int /\ -32768 <= m /\ m <= 32767

LEMMA AxisRange == \A m \in INT16_MIN .. INT16_MAX : Axis(m)
<1>1. INT16_MIN \in Int /\ INT16_MAX \in Int
  BY DEF INT16_MIN, INT16_MAX
<1>2. \A m \in INT16_MIN .. INT16_MAX : m \in Int /\ INT16_MIN <= m /\ m <= INT16_MAX
  BY <1>1
<1>3. \A m \in Int : INT16_MIN <= m /\ m <= INT16_MAX => Axis(m)
  BY DEF Axis, INT16_MIN, INT16_MAX
<1> QED BY <1>2, <1>3

LEMMA FitsInt16 == ASSUME NEW m, Axis(m) PROVE Int16(m) = m
<1>1. m + 32768 \in Int /\ 0 <= m + 32768 /\ m + 32768 < 65536
  BY DEF Axis
<1>2. (m + 32768) % 65536 = m + 32768
  BY <1>1
<1> QED BY <1>2 DEF Int16, Axis

(* Ten bits for an axis are the upper ten of the sixteen. *)
LEMMA TenBits ==
    ASSUME NEW m, Axis(m)
    PROVE  LET b == Int16((m \div 64) * 64) IN b \in Int /\ b <= m /\ m - b <= 63
<1>1. PICK q \in Int : q = m \div 64
  BY DEF Axis
<1>2. q * 64 <= m /\ m - q * 64 <= 63
  BY <1>1 DEF Axis
<1>3. Axis(q * 64)
  BY <1>1, <1>2 DEF Axis
<1> QED BY <1>1, <1>2, <1>3, FitsInt16 DEF Axis

LEMMA NegatedIs ==
    ASSUME NEW y, Axis(y)
    PROVE  Negated(y) = IF y = -32768 THEN 32767 ELSE -y
<1>1. y # -32768 => Axis(-y)
  BY DEF Axis
<1> QED BY <1>1, FitsInt16 DEF Negated, INT16_MIN, INT16_MAX

(* One axis of a stick, across and upright, and a trigger. *)
LEMMA AcrossAgrees ==
    ASSUME NEW x \in INT16_MIN .. INT16_MAX PROVE Near(x, Int16((x \div 64) * 64), 64)
<1>1. Axis(x)
  BY AxisRange
<1>2. PICK r \in Int : r = Int16((x \div 64) * 64) /\ r <= x /\ x - r <= 63
  BY <1>1, TenBits
<1> QED BY <1>1, <1>2 DEF Near, Axis

LEMMA UprightAgrees ==
    ASSUME NEW y \in INT16_MIN .. INT16_MAX
    PROVE  Near(Negated(y), Int16(((-1 - y) \div 64) * 64), 64)
<1>1. Axis(y)
  BY AxisRange
<1>2. Axis(-1 - y)
  BY <1>1 DEF Axis
<1>3. PICK r \in Int : /\ r = Int16(((-1 - y) \div 64) * 64)
                       /\ r <= -1 - y /\ (-1 - y) - r <= 63
  BY <1>2, TenBits
<1> QED BY <1>1, <1>3, NegatedIs DEF Near, Axis

LEMMA TriggerAgrees ==
    ASSUME NEW p \in 0 .. 1023 PROVE Near(Uint16((p \div 4) * 256), Uint16(p * 64), 192)
<1>1. PICK q \in Int : q = p \div 4 /\ 4 * q <= p /\ p <= 4 * q + 3 /\ 0 <= q
  OBVIOUS
<1>2. 0 <= q * 256 /\ q * 256 < 65536 /\ 0 <= p * 64 /\ p * 64 < 65536
  BY <1>1
<1>3. Uint16(q * 256) = q * 256 /\ Uint16(p * 64) = p * 64
  BY <1>1, <1>2 DEF Uint16
<1>4. q * 256 - p * 64 <= 192 /\ p * 64 - q * 256 <= 192
  BY <1>1
<1> QED BY <1>1, <1>3, <1>4 DEF Near

LEMMA SidesAgree ==
    ASSUME NEW h, AnyHand(h)
    PROVE  LET u == XinputData(XinputPad(h))
               b == BtData16(BluepadPad(h))
           IN  /\ Near(u.lx, b.lx, 64) /\ Near(u.ly, b.ly, 64) /\ Near(u.lz, b.lz, 192)
               /\ Near(u.rx, b.rx, 64) /\ Near(u.ry, b.ry, 64) /\ Near(u.rz, b.rz, 192)
<1>1. /\ XinputData(XinputPad(h)).lx = h.left.x
      /\ XinputData(XinputPad(h)).ly = Negated(h.left.y)
      /\ XinputData(XinputPad(h)).lz = Uint16((h.left.pull \div 4) * 256)
      /\ XinputData(XinputPad(h)).rx = h.right.x
      /\ XinputData(XinputPad(h)).ry = Negated(h.right.y)
      /\ XinputData(XinputPad(h)).rz = Uint16((h.right.pull \div 4) * 256)
  BY DEF XinputData, XinputPad
<1>2. /\ BtData16(BluepadPad(h)).lx = Int16((h.left.x \div 64) * 64)
      /\ BtData16(BluepadPad(h)).ly = Int16(((-1 - h.left.y) \div 64) * 64)
      /\ BtData16(BluepadPad(h)).lz = Uint16(h.left.pull * 64)
      /\ BtData16(BluepadPad(h)).rx = Int16((h.right.x \div 64) * 64)
      /\ BtData16(BluepadPad(h)).ry = Int16(((-1 - h.right.y) \div 64) * 64)
      /\ BtData16(BluepadPad(h)).rz = Uint16(h.right.pull * 64)
  BY DEF BtData16, BluepadPad
<1>3. ASSUME NEW side, ASide(side)
      PROVE  /\ Near(side.x, Int16((side.x \div 64) * 64), 64)
             /\ Near(Negated(side.y), Int16(((-1 - side.y) \div 64) * 64), 64)
             /\ Near(Uint16((side.pull \div 4) * 256), Uint16(side.pull * 64), 192)
  BY <1>3, AcrossAgrees, UprightAgrees, TriggerAgrees DEF ASide
<1>4. ASide(h.left) /\ ASide(h.right)
  BY DEF AnyHand
<1> QED BY <1>1, <1>2, <1>3, <1>4

PadInv ==
    /\ hand \in Hands
    /\ overUsb \in {NoData, XinputData(XinputPad(hand))}
    /\ overBt \in {NoData, BtData16(BluepadPad(hand))}

LEMMA HandsAreHands == ASSUME NEW h \in Hands PROVE AnyHand(h)
<1>1. h \in [held : SUBSET DOMAIN Bit, left : Sides, right : Sides]
  BY PadAssumption DEF PadAssumption
<1>2. h.held \in SUBSET DOMAIN Bit /\ h.left \in Sides /\ h.right \in Sides
  BY <1>1
<1>3. \A side \in Sides : ASide(side)
  BY DEF Sides, ASide
<1> QED BY <1>2, <1>3 DEF AnyHand

(* Whatever the player does with the eighteen buttons, the two sticks and   *)
(* the two triggers, a game gets the same from either driver: the buttons,  *)
(* but for the trigger buttons the pad's own, every axis but for 64 and     *)
(* every trigger but for 192 of its 65536 steps (xinput.cpp:35-67 against   *)
(* bluetooth.cpp:110-117).                                                  *)
THEOREM PadFeelsTheSame == PadSpec => []SamePad
<1>1. PadInit => PadInv
  BY DEF PadInit, PadInv
<1>2. PadInv /\ [PadNext]_padVars => PadInv'
  BY DEF PadInv, PadNext, ReportOverUsb, ReportOverBt, padVars
<1>3. PadInv => SamePad
  <2> SUFFICES ASSUME PadInv PROVE SamePad
    OBVIOUS
  <2>1. AnyHand(hand)
    BY HandsAreHands DEF PadInv
  <2>2. XinputData(XinputPad(hand)).buttons = Named(HeldOverUsb)
    <3>1. XinputData(XinputPad(hand)).buttons = XinputButtons(XinputPad(hand))
      BY DEF XinputData
    <3>2. HeldOverUsb = OverUsb(hand)
      BY DEF HeldOverUsb, OverUsb
    <3>3. OverUsb(hand) \in SUBSET DOMAIN Bit
      BY <2>1, ButtonNames DEF AnyHand, OverUsb, Pulled
    <3>4. \A n : n \in XinputButtons(XinputPad(hand)) <=> n \in Named(OverUsb(hand))
      BY <2>1, <3>3, XinputBitByBit, NamedBitByBit
    <3> QED BY <3>1, <3>2, <3>4
  <2>3. BtData16(BluepadPad(hand)).buttons = Named(hand.held)
    <3>1. \A n : n \in BtData16(BluepadPad(hand)).buttons <=> n \in Named(hand.held)
      BY <2>1, BluepadBitByBit, NamedBitByBit DEF AnyHand
    <3>2. PICK S : S = BtData16(BluepadPad(hand)).buttons
      OBVIOUS
    <3> QED BY <3>1, <3>2 DEF BtData16
  <2> QED BY <2>1, <2>2, <2>3, SidesAgree DEF PadInv, SamePad
<1> QED BY <1>1, <1>2, <1>3, PTL DEF PadSpec
=============================================================================
