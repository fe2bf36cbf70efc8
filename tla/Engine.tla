------------------------------- MODULE Engine -------------------------------
(***************************************************************************)
(* The engine task (src/rust/src/engine.rs, with handheld.rs and           *)
(* bluetooth.rs that it calls): the state machine that docks a handheld,   *)
(* keeps the list of gamepads and runs Bluetooth pairing.                  *)
(*                                                                         *)
(* The task receives one message, handles it, and receives the next.  Its  *)
(* own state (the fields of Engine and Handheld) is seen by nobody else    *)
(* and changes when the message is received.  What other tasks do see -    *)
(* the packet queue, the HDMI pin, Bluetooth scanning, the LED queue, the  *)
(* USB control pipe - is touched by calls made one after the other while   *)
(* they run: these calls wait in `todo', in program order, and each is a   *)
(* step of its own.                                                        *)
(***************************************************************************)
EXTENDS EngineQueue, PacketQueue, LedController, FiniteSets

CONSTANT MaxTx  \* bound: connects and disconnects stop while tx may grow longer

VARIABLES handheld,  \* "None", or the state of the Handheld in engine.handheld
          gamepads,  \* ids of engine.gamepads
          pairing,   \* is engine.bluetooth_pairing a session?
          todo,      \* calls the current handler has still to make
          hdmi,      \* the HDMI pin
          scanning,  \* is Bluetooth scanning for new gamepads?
          btReady    \* has the Bluetooth stack finished its initialisation?

engineOnly == <<handheld, gamepads, pairing>>
engineVars == <<queue, lost, tx, ledVars, engineOnly, todo, hdmi, scanning, btReady>>

-----------------------------------------------------------------------------
(* The calls. *)
ResetTx == [op |-> "ResetTx"]
Push(request, id) == [op |-> "Push", packet |-> Packet(request, id)]
SetHdmi(on) == [op |-> "SetHdmi", on |-> on]
EnablePairing(on) == [op |-> "EnablePairing", on |-> on]
PostLed(state, set) == [op |-> "PostLed", state |-> state, set |-> set]
Control(request) == [op |-> "Control", request |-> request]

Calls ==
    {ResetTx} \cup {SetHdmi(on) : on \in BOOLEAN} \cup {EnablePairing(on) : on \in BOOLEAN}
        \cup {[op |-> "Push", packet |-> p] : p \in Packets}
        \cup {PostLed(s, b) : s \in LedStates, b \in BOOLEAN}
        \cup {Control(r) : r \in Requests}

(* BluetoothPairingSession::begin, and its drop. *)
BeginPairing == <<EnablePairing(TRUE), PostLed("BluetoothPairing", TRUE)>>

(* Mutant: the session's LED session is not dropped with it. *)
EndPairingKeepsLed == <<EnablePairing(FALSE)>>

EndPairing   == <<EnablePairing(FALSE), PostLed("BluetoothPairing", FALSE)>>

(* The gamepads announced to a handheld that has just docked, in some order. *)
Announcements ==
    {[i \in 1 .. Cardinality(gamepads) |-> Push("CONNECT", order[i])] :
        order \in {f \in [1 .. Cardinality(gamepads) -> gamepads] :
                     \A i, j \in DOMAIN f : f[i] = f[j] => i = j}}

-----------------------------------------------------------------------------
EngineInit ==
    /\ QueueInit /\ LedInit
    /\ tx = <<>>
    /\ handheld = "None" /\ gamepads = {} /\ pairing = FALSE
    /\ todo = <<>>
    /\ hdmi = FALSE /\ scanning = FALSE /\ btReady = FALSE

(* task: the next message is received once the last one is dealt with.     *)
(* `calls' is what is left to do for it.                                   *)
Receive(m, calls) ==
    /\ todo = <<>>
    /\ queue # <<>> /\ m = Head(queue)
    /\ queue' = Tail(queue)
    /\ todo' = calls
    /\ UNCHANGED <<lost, tx, ledVars, hdmi, scanning, btReady>>

(* Mutant: the handheld is not asked for its information. *)
HandleMountAsksNothing ==
    /\ handheld = "None"
    /\ Receive(Mount, <<ResetTx>>)
    /\ handheld' = "WaitForGetInfo"
    /\ UNCHANGED <<gamepads, pairing>>

HandleMount ==
    /\ handheld = "None"
    /\ Receive(Mount, <<ResetTx, Control("GET_INFO")>>)
    /\ handheld' = "WaitForGetInfo"
    /\ UNCHANGED <<gamepads, pairing>>

(* "Unexpected handheld mount" *)
HandleUnexpectedMount ==
    /\ handheld # "None"
    /\ Receive(Mount, <<>>)
    /\ UNCHANGED engineOnly

(* What HandleUnmount's mutants share: `calls' where there was a handheld,   *)
(* and `last' after them where it was docked.                                *)
UnmountWith(calls, last) ==
    /\ \/ handheld = "None" /\ Receive(Unmount, <<>>)
       \/ handheld \in {"WaitForGetInfo", "WaitForDockBegin", "Error"} /\ Receive(Unmount, calls)
       \/ handheld = "Active" /\ Receive(Unmount, calls \o last)
    /\ handheld' = "None"
    /\ UNCHANGED <<gamepads, pairing>>

(* Mutants: one call is forgotten, or the LED session ended unconditionally. *)
HandleUnmountKeepsHdmi == UnmountWith(<<ResetTx>>, <<PostLed("DockActive", FALSE)>>)
HandleUnmountKeepsPackets == UnmountWith(<<SetHdmi(FALSE)>>, <<PostLed("DockActive", FALSE)>>)
HandleUnmountAlwaysUnsets ==
    UnmountWith(<<ResetTx, SetHdmi(FALSE), PostLed("DockActive", FALSE)>>, <<>>)

(* handle_unmount, then the Handheld is dropped with its LED session. *)
HandleUnmount ==
    /\ \/ handheld = "None" /\ Receive(Unmount, <<>>)
       \/ /\ handheld \in {"WaitForGetInfo", "WaitForDockBegin", "Error"}
          /\ Receive(Unmount, <<ResetTx, SetHdmi(FALSE)>>)
       \/ /\ handheld = "Active"
          /\ Receive(Unmount, <<ResetTx, SetHdmi(FALSE), PostLed("DockActive", FALSE)>>)
    /\ handheld' = "None"
    /\ UNCHANGED <<gamepads, pairing>>

(* Mutant: DOCK_BEGIN is waited for and never sent. *)
HandleGetInfoSendsNothing ==
    /\ handheld = "WaitForGetInfo"
    /\ \E o \in Outcomes :
          /\ Receive(XferComplete("GET_INFO", o), <<>>)
          /\ handheld' = IF o = "ok" THEN "WaitForDockBegin" ELSE "Error"
    /\ UNCHANGED <<gamepads, pairing>>

HandleGetInfo ==
    /\ handheld = "WaitForGetInfo"
    /\ \/ /\ Receive(XferComplete("GET_INFO", "ok"), <<Control("DOCK_BEGIN")>>)
          /\ handheld' = "WaitForDockBegin"
       \/ /\ \E o \in {"short", "failed"} : Receive(XferComplete("GET_INFO", o), <<>>)
          /\ handheld' = "Error"
    /\ UNCHANGED <<gamepads, pairing>>

(* Mutant: the result of DOCK_BEGIN is not looked at. *)
HandleDockBeginAnyResult ==
    /\ handheld = "WaitForDockBegin"
    /\ \E o \in Outcomes, announce \in Announcements :
          Receive(XferComplete("DOCK_BEGIN", o),
                  <<SetHdmi(TRUE), PostLed("DockActive", TRUE)>> \o announce)
    /\ handheld' = "Active"
    /\ UNCHANGED <<gamepads, pairing>>

HandleDockBegin ==
    /\ handheld = "WaitForDockBegin"
    /\ \/ /\ \E o \in {"ok", "short"}, announce \in Announcements :
                Receive(XferComplete("DOCK_BEGIN", o),
                        <<SetHdmi(TRUE), PostLed("DockActive", TRUE)>> \o announce)
          /\ handheld' = "Active"
       \/ /\ Receive(XferComplete("DOCK_BEGIN", "failed"), <<>>)
          /\ handheld' = "Error"
    /\ UNCHANGED <<gamepads, pairing>>

(* A completion the current state is not waiting for, or no handheld at all. *)
HandleOtherXfer ==
    /\ \E r \in Requests, o \in Outcomes :
          /\ <<handheld, r>> \notin {<<"WaitForGetInfo", "GET_INFO">>,
                                     <<"WaitForDockBegin", "DOCK_BEGIN">>}
          /\ Receive(XferComplete(r, o), <<>>)
    /\ UNCHANGED engineOnly

(* What a handheld, docked or not yet, is told about one gamepad. *)
Tell(request, id) == IF handheld = "None" THEN <<>> ELSE <<Push(request, id)>>

(* A wireless gamepad ends the pairing session. *)
HandleConnected(id, wired) ==
    /\ Receive(Connected(id, wired),
               (IF ~wired /\ pairing THEN EndPairing ELSE <<>>) \o Tell("CONNECT", id))
    /\ pairing' = (pairing /\ wired)
    /\ gamepads' = gamepads \cup {id}
    /\ UNCHANGED handheld

HandleDisconnected(id) ==
    /\ Receive(Disconnected(id), Tell("DISCONNECT", id))
    /\ gamepads' = gamepads \ {id}
    /\ UNCHANGED <<handheld, pairing>>

HandleData(id) ==
    /\ Receive(Data(id), Tell("DATA", id))
    /\ UNCHANGED engineOnly

HandleShortPress ==
    /\ Receive(ShortPress, <<>>)
    /\ UNCHANGED engineOnly

HandleLongPress ==
    /\ Receive(LongPress, IF pairing THEN EndPairing ELSE BeginPairing)
    /\ pairing' = ~pairing
    /\ UNCHANGED <<handheld, gamepads>>

Handle ==
    \/ HandleMount \/ HandleUnexpectedMount \/ HandleUnmount
    \/ HandleGetInfo \/ HandleDockBegin \/ HandleOtherXfer
    \/ \E id \in GamepadId :
          \/ \E wired \in BOOLEAN : HandleConnected(id, wired)
          \/ HandleDisconnected(id)
          \/ HandleData(id)
    \/ HandleShortPress \/ HandleLongPress

-----------------------------------------------------------------------------
(* The calls the handlers make. *)
Call(c) == todo # <<>> /\ c = Head(todo) /\ todo' = Tail(todo)

DoResetTx ==
    /\ Call(ResetTx) /\ Reset
    /\ UNCHANGED <<queue, lost, ledVars, engineOnly, hdmi, scanning, btReady>>

DoPush ==
    /\ \E p \in Packets : Call([op |-> "Push", packet |-> p]) /\ PushBack(p)
    /\ UNCHANGED <<queue, lost, ledVars, engineOnly, hdmi, scanning, btReady>>

DoSetHdmi ==
    /\ \E on \in BOOLEAN : Call(SetHdmi(on)) /\ hdmi' = on
    /\ UNCHANGED <<queue, lost, tx, ledVars, engineOnly, scanning, btReady>>

DoEnablePairing ==
    /\ \E on \in BOOLEAN : Call(EnablePairing(on)) /\ scanning' = on
    /\ UNCHANGED <<queue, lost, tx, ledVars, engineOnly, hdmi, btReady>>

(* Blocks while the LED queue is full. *)
DoPostLed ==
    /\ \E s \in LedStates, b \in BOOLEAN : Call(PostLed(s, b)) /\ LedSend(s, b)
    /\ UNCHANGED <<queue, lost, tx, engineOnly, hdmi, scanning, btReady>>

(* A transfer starts, or the USB stack refuses it.  A refused OUT transfer   *)
(* is reported to the engine itself; a refused IN transfer is only logged.   *)
StartControl(r) ==
    /\ Call(Control(r))
    /\ UNCHANGED <<queue, lost, tx, ledVars, engineOnly, hdmi, scanning, btReady>>

RefuseControlOut(r) ==
    /\ r = "DOCK_BEGIN"
    /\ Call(Control(r)) /\ Send(XferComplete(r, "failed"))
    /\ UNCHANGED <<tx, ledVars, engineOnly, hdmi, scanning, btReady>>

DoControl == \E r \in Requests : StartControl(r) \/ RefuseControlOut(r)

LocalCall == DoResetTx \/ DoPush \/ DoSetHdmi \/ DoEnablePairing \/ DoPostLed
MakeCall == LocalCall \/ DoControl

-----------------------------------------------------------------------------
(* The other tasks, as the engine sees them. *)

(* The USB, Bluetooth and timer tasks post messages. *)
Arrive(m) ==
    /\ Send(m)
    /\ UNCHANGED <<tx, ledVars, engineOnly, todo, hdmi, scanning, btReady>>

(* ... within the bound of the runs. *)
Post ==
    \E m \in Messages :
        /\ m.kind \in {"GamepadConnected", "GamepadDisconnected"}
             => Len(tx) + Len(todo) + Len(queue) < MaxTx
        /\ Arrive(m)

(* The USB host task takes a packet to send. *)
TakePacket ==
    /\ \E p \in Packets : PopFront(p)
    /\ UNCHANGED <<queue, lost, ledVars, engineOnly, todo, hdmi, scanning, btReady>>

LedTask ==
    /\ HandleLedMessage \/ BlinkTimeout
    /\ UNCHANGED <<queue, lost, tx, engineOnly, todo, hdmi, scanning, btReady>>

(* Mutant: the TODO of platform_on_init_complete ("don't allow new           *)
(* connections by default") done by switching scanning off there.            *)
BtInitStopsScanning ==
    /\ ~btReady
    /\ btReady' = TRUE /\ scanning' = FALSE
    /\ UNCHANGED <<queue, lost, tx, ledVars, engineOnly, todo, hdmi>>

(* platform_on_init_complete: scanning is on until it is switched off. *)
BtInitComplete ==
    /\ ~btReady
    /\ btReady' = TRUE /\ scanning' = TRUE
    /\ UNCHANGED <<queue, lost, tx, ledVars, engineOnly, todo, hdmi>>

EngineNext ==
    \/ Handle \/ MakeCall
    \/ Post \/ TakePacket \/ LedTask \/ BtInitComplete

(* The same with no bound on what arrives. *)
EngineOpenNext ==
    \/ Handle \/ MakeCall
    \/ (\E m \in Messages : Arrive(m)) \/ TakePacket \/ LedTask \/ BtInitComplete
EngineOpen == EngineInit /\ [][EngineOpenNext]_engineVars

(* The engine and LED tasks share the default priority, time-sliced, and the *)
(* tasks above them block between events, so both keep running.              *)
EngineSpec ==
    /\ EngineInit /\ [][EngineNext]_engineVars
    /\ WF_engineVars(Handle) /\ WF_engineVars(MakeCall) /\ WF_engineVars(LedTask)
-----------------------------------------------------------------------------
HandheldStates ==
    {"None", "WaitForGetInfo", "WaitForDockBegin", "Active", "Error"}

EngineTypeOK ==
    /\ QueueTypeOK /\ LedTypeOK
    /\ tx \in Seq(Packets)
    /\ handheld \in HandheldStates
    /\ gamepads \subseteq GamepadId
    /\ pairing \in BOOLEAN
    /\ todo \in Seq(Calls)
    /\ hdmi \in BOOLEAN /\ scanning \in BOOLEAN /\ btReady \in BOOLEAN

(* The HDMI output is on exactly while the handheld is docked, except while  *)
(* the handler that docks or undocks it has still to drive the pin.  An      *)
(* early return between the two would leave the picture on, or never show it.*)
HdmiTracksDock ==
    (\A i \in DOMAIN todo : todo[i].op # "SetHdmi") => hdmi = (handheld = "Active")

(* With no handheld, no packet waits for the next one: what was queued for   *)
(* the old one is reset, and nothing is queued until another is mounted.     *)
TxEmptyUndocked ==
    handheld = "None" /\ (\A i \in DOMAIN todo : todo[i].op # "ResetTx") => tx = <<>>

(* Requests for LED state `s' still on their way to, or counted by, the LED *)
(* task, less the withdrawals on their way.                                 *)
Count(q, m) == Cardinality({i \in DOMAIN q : q[i] = m})
LedBalance(s) ==
    counts[s] + Count(ledQueue, LedMessage(s, TRUE)) + Count(todo, PostLed(s, TRUE))
LedWithdrawals(s) ==
    Count(ledQueue, LedMessage(s, FALSE)) + Count(todo, PostLed(s, FALSE))

(* Every LED session the engine opens is closed once and only once: the LED  *)
(* task will end up counting one request per open session, whatever sequence *)
(* of docking, pairing and disconnection led here.                           *)
LedFollowsSessions ==
    \A s \in {"DockActive", "BluetoothPairing"} :
        LedBalance(s) =
            LedWithdrawals(s) +
            (IF (s = "DockActive" /\ handheld = "Active") \/ (s = "BluetoothPairing" /\ pairing)
             THEN 1 ELSE 0)

(* "Led state underflow" is never logged: a withdrawal always reaches the    *)
(* LED task behind the request it undoes.                                    *)
NoLedUnderflow ==
    ledQueue # <<>> /\ ~Head(ledQueue).set => counts[Head(ledQueue).state] > 0

(* While a pairing session is open Bluetooth scans, apart from the moment in *)
(* which the session is being opened; the stack's own start cannot stop it.  *)
PairingScans ==
    pairing /\ (\A i \in DOMAIN todo : todo[i].op # "EnablePairing") => scanning

(* A handheld that goes away takes the picture with it: once the engine has  *)
(* the Unmount, the HDMI output goes off even if the LED queue is full.      *)
UnmountTurnsHdmiOff ==
    (\E i \in DOMAIN queue : queue[i] = Unmount) ~> ~hdmi

(* The engine comes back for the next message again and again: it never      *)
(* stays blocked on the LED queue.                                           *)
EngineComesBack == []<>(todo = <<>>)
=============================================================================
