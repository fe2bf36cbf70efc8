----------------------------- MODULE ConfigWalk -----------------------------
(***************************************************************************)
(* How the handheld's vendor interface is found: its configuration is read *)
(* into one static buffer, used for every device in turn, and its          *)
(* descriptors are walked by the lengths they give                         *)
(* (config_descriptor_xfer_complete_cb, src/src/usb_host/usb_host.cpp).    *)
(* A descriptor takes as many cells of the buffer as its length; the first *)
(* stands for what the walk looks at.                                      *)
(*                                                                         *)
(* Every descriptor has a length and the last ends with the configuration: *)
(* one of length 0, on which the loop would not end, and one that the      *)
(* total length cuts are no part of the model.                             *)
(***************************************************************************)
EXTENDS Naturals, Sequences, SequencesExt

CONSTANTS BufLen,      \* cells of configDescriptorBuf
          MaxDescs     \* bound: descriptors of a configuration

ASSUME WalkAssumption == {BufLen, MaxDescs} \subseteq Nat

(* The configuration itself, interfaces by number, endpoints by address. *)
Config == [type |-> "config", len |-> 1]
Interface(n, vendor) == [type |-> "interface", len |-> 2, number |-> n, vendor |-> vendor]
Endpoint(a, xfer, dir) == [type |-> "endpoint", len |-> 1, address |-> a, xfer |-> xfer, dir |-> dir]
Descs ==
    {Interface(1, TRUE), Interface(2, FALSE), Endpoint(1, "bulk", "out"), Endpoint(2, "bulk", "in"),
     Endpoint(3, "interrupt", "in")}
Body == [type |-> "body"]

VARIABLES configBuf, \* configDescriptorBuf
          walk,      \* "none", "asked" or "known"
          found,     \* vendor_itf_num, vendor_ep_out, vendor_ep_in
          config     \* history: the descriptors of the device walked last

walkVars == <<configBuf, walk, found, config>>

NotFound == 255  \* 0xFF
NothingFound == [itf |-> NotFound, out |-> NotFound, in |-> NotFound]

WalkInit ==
    /\ configBuf = [i \in 1 .. BufLen |-> Body] /\ walk = "none"
    /\ found = NothingFound /\ config = <<>>

(* The cell each descriptor begins at, and the one after the last. *)
DescStarts(c) ==
    LET start[i \in 1 .. Len(c) + 1] == IF i = 1 THEN 1 ELSE start[i - 1] + c[i - 1].len
    IN start
CellCount(c) == DescStarts(c)[Len(c) + 1] - 1
CellAt(c, p) ==
    IF \E i \in DOMAIN c : DescStarts(c)[i] = p
    THEN c[CHOOSE i \in DOMAIN c : DescStarts(c)[i] = p] ELSE Body

-----------------------------------------------------------------------------
(* Mutant: an interface of another class does not end the vendor's. *)
SeeKeepingVendor(s, d) ==
    IF d.type = "interface" /\ d.vendor THEN [s EXCEPT !.vendor = TRUE, !.found.itf = d.number]
    ELSE IF d.type = "endpoint" /\ s.vendor /\ d.xfer = "bulk"
         THEN [s EXCEPT !.found[d.dir] = d.address]
         ELSE s

(* What a turn of the loop makes of its descriptor. *)
See(s, d) ==
    CASE d.type = "interface" ->
            IF d.vendor THEN [s EXCEPT !.vendor = TRUE, !.found.itf = d.number]
                        ELSE [s EXCEPT !.vendor = FALSE]
      [] d.type = "endpoint" /\ s.vendor /\ d.xfer = "bulk" ->
            [s EXCEPT !.found[d.dir] = d.address]
      [] OTHER -> s

(* One turn, while there are bytes left: the next descriptor is found by   *)
(* the length of this one.                                                 *)
WalkTurn(t, buf, end) ==
    IF t.at > end THEN t
    ELSE [at |-> t.at + buf[t.at].len, seen |-> See(t.seen, buf[t.at])]

(* The loop: no more turns than bytes. *)
WalkTurns(buf, end, s) ==
    LET turn[n \in 0 .. end] ==
            IF n = 0 THEN [at |-> 1, seen |-> s] ELSE WalkTurn(turn[n - 1], buf, end)
    IN turn
Walk(buf, end, s) == WalkTurns(buf, end, s)[end].seen.found

WalkMount ==
    /\ walk # "asked" /\ walk' = "asked" /\ found' = NothingFound
    /\ UNCHANGED <<configBuf, config>>

(* The configuration arrives, over what the last one left. *)
WalkConfig(c) ==
    /\ walk = "asked" /\ walk' = "known" /\ config' = c
    /\ configBuf' = [p \in 1 .. BufLen |-> IF p <= CellCount(c) THEN CellAt(c, p) ELSE configBuf[p]]
    /\ found' = Walk(configBuf', CellCount(c), [vendor |-> FALSE, found |-> found])

(* The endpoints of a handheld whose request fails stay unknown. *)
WalkFailed == walk = "asked" /\ walk' = "none" /\ UNCHANGED <<configBuf, found, config>>

WalkUmount ==
    /\ walk # "none" /\ walk' = "none" /\ found' = NothingFound
    /\ UNCHANGED <<configBuf, config>>

(* A handheld's configuration fits the buffer. *)
Configs == {c \in {<<Config>> \o ds : ds \in SeqOf(Descs, MaxDescs)} : CellCount(c) <= BufLen}

WalkNext == WalkMount \/ WalkFailed \/ WalkUmount \/ \E c \in Configs : WalkConfig(c)
WalkSpec == WalkInit /\ [][WalkNext]_walkVars
-----------------------------------------------------------------------------
(* The interface an endpoint belongs to is the last one before it. *)
Interfaces(c) == {i \in DOMAIN c : c[i].type = "interface"}
OfVendor(c, e) ==
    \E i \in Interfaces(c) :
        i < e /\ c[i].vendor /\ \A j \in Interfaces(c) : j < e => j <= i
LastOf(S) == CHOOSE i \in S : \A j \in S : j <= i
VendorInterfaces(c) == {i \in Interfaces(c) : c[i].vendor}
VendorEndpoints(c, dir) ==
    {e \in DOMAIN c : /\ c[e].type = "endpoint" /\ c[e].xfer = "bulk" /\ c[e].dir = dir
                      /\ OfVendor(c, e)}
NumberOf(c, S) == IF S = {} THEN NotFound ELSE c[LastOf(S)].number
AddressOf(c, S) == IF S = {} THEN NotFound ELSE c[LastOf(S)].address

(* What is found is the vendor interface of the device that is there and    *)
(* bulk endpoints of its own: no endpoint of a neighbouring interface, and  *)
(* nothing an earlier device left in the buffer (usb_host.cpp:245-257).     *)
FindsVendorEndpoints ==
    walk = "known" =>
        /\ found.itf = NumberOf(config, VendorInterfaces(config))
        /\ \A dir \in {"out", "in"} :
               found[dir] = AddressOf(config, VendorEndpoints(config, dir))
=============================================================================
