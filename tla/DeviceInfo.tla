----------------------------- MODULE DeviceInfo -----------------------------
(***************************************************************************)
(* What the dock tells of itself over USB: the answer to GetInfo and the   *)
(* numbers in it (src/rust/src/info.rs), and the string descriptors         *)
(* (src/src/usb_device/descriptors.c).  The fuses never change; the buffer *)
(* of the string descriptor is shared by all requests.                     *)
(*                                                                         *)
(* A word keeps its eight digits and four bytes; only the digit is scaled  *)
(* from 16 values to Digit.  A letter is its string's index and its place, *)
(* in the serial number's string its value.                                *)
(***************************************************************************)
EXTENDS Naturals, Sequences, SequencesExt

CONSTANTS Digit,        \* values of a hex digit
          Words,        \* words the fuses may hold
          Versions,     \* firmware versions: [major, minor, patch]
          StrMax,       \* USBD_DESC_STR_MAX, in the range its #error lines allow
          StrLen        \* lengths of the fixed strings, by index

Byte == Digit * Digit
Word == 0 .. Byte * Byte * Byte * Byte - 1

ASSUME InfoAssumption ==
    /\ Digit \in Nat \ {0, 1} /\ Words \subseteq Word /\ StrMax \in 17 .. 127
    /\ StrLen \in Seq(Nat) /\ Len(StrLen) >= 2
    /\ Versions \subseteq [major : 0 .. Byte - 1, minor : 0 .. Byte - 1, patch : 0 .. Byte - 1]

Fuses == [serial : Words, hardware : Words, chipLo : Words, chipHi : Words]

VARIABLES fuses,     \* [serial, hardware, chipLo, chipHi]
          version,   \* the firmware's version
          serialStr, \* usbd_serial_str
          descStr,   \* desc_str without its header
          descLen,   \* the length in its header, in characters
          asked      \* history: the index last asked for

infoVars == <<fuses, version, serialStr, descStr, descLen, asked>>

-----------------------------------------------------------------------------
(* n without its low places: none dropped, then one, up to k of them. *)
Quotients(n, base, k) ==
    LET rest[i \in 0 .. k] == IF i = 0 THEN n ELSE rest[i - 1] \div base
    IN rest

(* The k low bytes of n, least significant first: to_le_bytes. *)
LeBytes(n, k) == [i \in 1 .. k |-> Quotients(n, Byte, k)[i - 1] % Byte]

(* The k low digits of n, most significant first: %0kX. *)
Serial == 3
Hex(n, k) == [i \in 1 .. k |-> <<Serial, Quotients(n, Digit, k)[k - i] % Digit>>]

(* FirmwareVersion::as_u32; `pre' is zero. *)
FirmwareWord(v) == Byte * (v.patch + Byte * (v.minor + Byte * v.major))

(* get_chip_id, digit by digit as it is only printed. *)
ChipId(f) == Hex(f.chipHi, 8) \o Hex(f.chipLo, 8)

Git == [i \in 1 .. 20 |-> i % Byte]

(* get_info_for_usb *)
GetInfo ==
    [i \in 1 .. 4 |-> 0] \o LeBytes(fuses.serial, 4) \o LeBytes(fuses.hardware, 4)
        \o LeBytes(FirmwareWord(version), 4) \o SubSeq(Git, 1, 8)

Unprovisioned(f) == f.serial = 0 /\ f.hardware = 0

Underscore == <<Serial, Digit>>

(* The serial number's string; "_" marks a chip's id. *)
SerialStr(f) == IF Unprovisioned(f) THEN <<Underscore>> \o ChipId(f) ELSE Hex(f.serial, 8)

Language == <<<<0, 1>>>>
Indices == 1 .. Len(StrLen) + 1

(* The string at an index; the serial number's is the one just made. *)
StringAt(i) ==
    IF i = Serial THEN SerialStr(fuses)
    ELSE [k \in 1 .. StrLen[IF i < Serial THEN i ELSE i - 1] |-> <<i, k>>]

Cut(s) == SubSeq(s, 1, IF Len(s) < StrMax THEN Len(s) ELSE StrMax - 1)
-----------------------------------------------------------------------------
InfoInit ==
    /\ fuses \in Fuses
    /\ version \in Versions
    /\ serialStr = <<>> /\ descStr = <<>> /\ descLen = 0 /\ asked = 0

(* Characters are written over what the buffer held. *)
Overwrite(s) == s \o SubSeq(descStr, Len(s) + 1, Len(descStr))

(* Mutant: the header keeps the longest length. *)
AnswerLongest(i, s) ==
    /\ descStr' = Overwrite(s) /\ asked' = i
    /\ descLen' = IF Len(s) > descLen THEN Len(s) ELSE descLen

Answer(i, s) == descStr' = Overwrite(s) /\ asked' = i /\ descLen' = Len(s)

(* tud_descriptor_string_cb; an unknown index is stalled. *)
GetString(i) ==
    /\ serialStr' = SerialStr(fuses)
    /\ \/ i = 0 /\ Answer(i, Language)
       \/ i \in Indices /\ Answer(i, Cut(StringAt(i)))
       \/ i > Len(StrLen) + 1 /\ UNCHANGED <<descStr, descLen, asked>>
    /\ UNCHANGED <<fuses, version>>

InfoNext == \E i \in 0 .. Len(StrLen) + 2 : GetString(i)
InfoSpec == InfoInit /\ [][InfoNext]_infoVars
-----------------------------------------------------------------------------
(* What a host makes of the dock's answers: the string it last asked for,   *)
(* and four bytes of the block from a given place.                          *)
StringRead == SubSeq(descStr, 1, descLen)
ReadLe(block, from) ==
    block[from + 1] + Byte * (block[from + 2]
        + Byte * (block[from + 3] + Byte * block[from + 4]))
SameDock(f, g) ==
    IF Unprovisioned(f) \/ Unprovisioned(g) THEN f = g ELSE f.serial = g.serial

(* The serial number's string identifies the dock, whatever longer string   *)
(* was in the shared buffer before: no other dock answers with it, be it    *)
(* the chip's id or a number; and GetInfo tells the same number             *)
(* (descriptors.c:144, 150, info.rs:83).                                    *)
IdentityAgrees ==
    asked = Serial =>
        /\ \A f \in Fuses : SerialStr(f) = StringRead <=> SameDock(f, fuses)
        /\ IF ReadLe(GetInfo, 4) = 0 /\ ReadLe(GetInfo, 8) = 0
           THEN StringRead = <<Underscore>> \o ChipId(fuses)
           ELSE StringRead = Hex(ReadLe(GetInfo, 4), 8)
=============================================================================
