-------------------------------- MODULE Wire --------------------------------
(***************************************************************************)
(* The byte layouts of the node protocol (crates/ingestion/src/decoders.rs *)
(* and crates/core/src/identity.rs).  A decoder is described by the byte   *)
(* ranges it reads of a payload; what matters is that a payload it accepts *)
(* holds them all.  The packed log events, dates and identities are        *)
(* computed as the code computes them, next to a reference definition.     *)
(***************************************************************************)
EXTENDS Integers, Sequences, FiniteSets

CONSTANTS
  NumberOfComputors,   \* NUMBER_OF_COMPUTORS (676 in the code)
  LogTxPerTick,        \* LOG_TX_PER_TICK (4102 in the code)
  Base,                \* letters of an identity (26 in the code)
  Digits,              \* letters per fragment (14 in the code)
  FragmentLimit,       \* values of a fragment (2^64 in the code)
  ChecksumLimit,       \* values of the checksum (2^18 in the code)
  AllocLimit,          \* digests (24 bytes each) the process can allocate room for
  K12(_)               \* the KangarooTwelve hash of a key, a natural number

ASSUME WireAssumption ==
  /\ NumberOfComputors \in Nat \ {0} /\ LogTxPerTick \in Nat \ {0}
  /\ Base \in Nat \ {0, 1} /\ Digits \in Nat \ {0}
  /\ FragmentLimit \in Nat \ {0}
  /\ ChecksumLimit \in Nat \ {0}
  /\ AllocLimit \in Nat

-----------------------------------------------------------------------------
(* Byte ranges: <<from, to>> is the slice payload[from..to].               *)

\* Consecutive fields between the given offsets.
Cut(offsets) == {<<offsets[i], offsets[i + 1]>> : i \in 1..(Len(offsets) - 1)}

\* n fields of the given width.
Array(from, n, width) == {<<from + i * width, from + (i + 1) * width>> : i \in 0..(n - 1)}

TxHeaderSize == 80
SignatureSize == 64
PublicKeySize == 32
LogHeaderSize == 26

DecodeTickVote(p) == Cut(<<0, 2, 4, 8>>)

\* Mutant: the signature is not counted in the full length.
DecodeTickUnsigned(p) ==
  Cut(<<0, 2, 4, 8, 10, 11, 12, 13, 14, 15, 16, 48>>)
    \cup (IF p.len >= 139312 THEN Cut(<<48, 131120, 139312, 139376>>)
          ELSE IF p.len > 48 THEN Cut(<<48, p.len>>) ELSE {})

\* Digests, fees and signature are read of a full payload only.
DecodeTick(p) ==
  Cut(<<0, 2, 4, 8, 10, 11, 12, 13, 14, 15, 16, 48>>)
    \cup (IF p.len >= 139376 THEN Cut(<<48, 131120, 139312, 139376>>)
          ELSE IF p.len > 48 THEN Cut(<<48, p.len>>) ELSE {})

\* The input follows the header, the signature follows the input.
DecodeTransaction(p) ==
  LET inputEnd == TxHeaderSize + p.body.inputSize
      sigEnd == inputEnd + SignatureSize
  IN Cut(<<0, 32, 64, 72, 76, 78, 80>>)
       \cup (IF p.body.inputSize > 0 /\ p.len >= inputEnd
             THEN Cut(<<TxHeaderSize, inputEnd>>) ELSE {})
       \cup (IF p.len >= sigEnd THEN Cut(<<inputEnd, sigEnd>>) ELSE {})

DecodeComputors(p) ==
  {<<0, 2>>} \cup {r \in Array(2, NumberOfComputors, PublicKeySize) : r[2] <= p.len}

DecodeEntity(p) == Cut(<<0, 32, 40, 48, 52, 56, 60, 64>>)

DecodeCurrentTickInfo(p) ==
  Cut(<<0, 2, 4, 8, 10, 12, 16>>)
    \cup (IF p.len >= 20 THEN {<<16, 20>>} ELSE {})
    \cup (IF p.len >= 28 THEN {<<20, 28>>} ELSE {})

DecodeSystemInfo(p) ==
  Cut(<<0, 2, 4, 8, 12, 16, 18, 19, 20, 21, 22, 23, 24, 28, 32, 64, 68, 76, 84,
        88, 96, 104>>)

DecodeContractIpo(p) ==
  {<<0, 4>>} \cup Array(8, NumberOfComputors, PublicKeySize)
    \cup Array(8 + NumberOfComputors * PublicKeySize, NumberOfComputors, 8)

DecodeOracleData(p) == {<<0, 4>>} \cup IF p.len > 4 THEN {<<4, p.len>>} ELSE {}

DecodeOracleQueryMetadata(p) == Cut(<<0, 8, 9, 10, 12, 16, 48, 56, 60, 64, 68, 70, 72>>)

\* The payload proper lies between the type and the signature at the end.
DecodeCustomMiningTask(p) ==
  {<<0, 32>>} \cup Cut(<<96, 128, 160, 168, 169, p.len - 64, p.len>>)

DecodeCustomMiningSolution(p) ==
  {<<0, 32>>} \cup Cut(<<96, 128, 136, 137, p.len - 64, p.len>>)

DecodePruningLog(p) == {<<0, 8>>}

DecodeLogStateDigest(p) == {<<0, 32>>}

\* The digests are read when all of them are there.
DecodeTxStatus(p) ==
  Cut(<<0, 4, 8, 12, 524>>)
    \cup (IF 524 + p.body.count * 32 <= p.len THEN Array(524, p.body.count, 32) ELSE {})

\* Room for the announced digests is allocated before their length is checked;
\* a failed allocation aborts.
AllocFails(p) == p.kind = "txStatus" /\ p.body.count > AllocLimit

DecodeAllLogIdRanges(p) ==
  Array(0, LogTxPerTick, 8) \cup Array(LogTxPerTick * 8, LogTxPerTick, 8)

\* The length below which a decoder refuses the payload.
MinSize(kind) ==
  CASE kind = "vote" -> 20
    [] kind = "tick" -> 48
    [] kind = "tx" -> TxHeaderSize
    [] kind = "computors" -> 2 + NumberOfComputors * 32
    [] kind = "entity" -> 64
    [] kind = "tickInfo" -> 16
    [] kind = "systemInfo" -> 128
    [] kind = "ipo" -> 8 + NumberOfComputors * 32 + NumberOfComputors * 8
    [] kind = "message" -> 8
    [] kind = "oracle" -> 4
    [] kind = "oracleQuery" -> 72
    [] kind = "miningTask" -> 233
    [] kind = "miningSolution" -> 201
    [] kind = "pruningLog" -> 8
    [] kind = "logDigest" -> 32
    [] kind = "txStatus" -> 524
    [] kind = "logIdRanges" -> LogTxPerTick * 8 * 2
    [] OTHER -> 0

\* The ranges read of a payload; log events are parsed below.
Reads(p) ==
  CASE p.kind = "vote" -> DecodeTickVote(p)
    [] p.kind = "tick" -> DecodeTick(p)
    [] p.kind = "tx" -> DecodeTransaction(p)
    [] p.kind = "computors" -> DecodeComputors(p)
    [] p.kind = "entity" -> DecodeEntity(p)
    [] p.kind = "tickInfo" -> DecodeCurrentTickInfo(p)
    [] p.kind = "systemInfo" -> DecodeSystemInfo(p)
    [] p.kind = "ipo" -> DecodeContractIpo(p)
    [] p.kind = "oracle" -> DecodeOracleData(p)
    [] p.kind = "oracleQuery" -> DecodeOracleQueryMetadata(p)
    [] p.kind = "miningTask" -> DecodeCustomMiningTask(p)
    [] p.kind = "miningSolution" -> DecodeCustomMiningSolution(p)
    [] p.kind = "pruningLog" -> DecodePruningLog(p)
    [] p.kind = "logDigest" -> DecodeLogStateDigest(p)
    [] p.kind = "txStatus" -> DecodeTxStatus(p)
    [] p.kind = "logIdRanges" -> DecodeAllLogIdRanges(p)
    [] OTHER -> {}

\* A slice outside the payload, or one that ends before it starts, panics.
OutOfBounds(p) == \E r \in Reads(p) : r[1] > r[2] \/ r[2] > p.len

-----------------------------------------------------------------------------
(* Dates: the day number since 1970-01-01; the seconds of the day are added *)
(* to it in the code.                                                      *)

IsLeapYear(year) == (year % 4 = 0 /\ year % 100 # 0) \/ year % 400 = 0

\* days_in_month; an index above 12 panics.
DaysInMonth == <<31, 28, 31, 30, 31, 30, 31, 31, 30, 31, 30, 31>>

DatePanics(date) == date.month > 13

QubicDateToDays(date) ==
  LET years == 1970..(date.year - 1)
      months[m \in 0..date.month] ==
        IF m <= 1 THEN 0
        ELSE months[m - 1] + DaysInMonth[m - 1]
             + (IF m = 3 /\ IsLeapYear(date.year) THEN 1 ELSE 0)
  IN 365 * Cardinality(years) + Cardinality({y \in years : IsLeapYear(y)})
       + months[date.month] + (IF date.day = 0 THEN 0 ELSE date.day - 1)

ValidDate(date) == date.year >= 1970 /\ date.month \in 1..12 /\ date.day > 0

\* Reference: the Gregorian calendar in closed form, years beginning in March.
GregorianDays(date) ==
  LET y == IF date.month <= 2 THEN date.year - 1 ELSE date.year
      m == (date.month + 9) % 12
  IN 365 * y + (y \div 4) - (y \div 100) + (y \div 400)
       + ((153 * m + 2) \div 5) + date.day - 1 - 719468

-----------------------------------------------------------------------------
(* Identities: a key is a sequence of fragments, an identity its letters,  *)
(* least significant first, and the checksum's.                            *)

\* A fragment is not too large for its letters.
Words == LET power[i \in 0..Digits] == IF i = 0 THEN 1 ELSE Base * power[i - 1] IN power[Digits]
ASSUME FragmentAssumption == FragmentLimit <= Words

\* Its first 18 bits.
Checksum(key) == K12(key) % ChecksumLimit

Letters(value, n) ==
  LET left[i \in 0..n] == IF i = 0 THEN value ELSE left[i - 1] \div Base
  IN [i \in 1..n |-> left[i - 1] % Base]

EncodeBase26(key) ==
  [text |-> [f \in DOMAIN key |-> Letters(key[f], Digits)],
   check |-> Letters(Checksum(key), 4)]

\* The u64 wraps: there are more words of Digits letters than fragments.
Fragment(letters) ==
  LET value[i \in 0..Digits] ==
        IF i = 0 THEN 0 ELSE value[i - 1] * Base + letters[Digits + 1 - i]
  IN value[Digits] % FragmentLimit

\* n characters, all of them upper-case letters.
IsText(s, n) == Len(s) = n /\ \A i \in 1..n : s[i] \in 0..(Base - 1)

\* The key, or the empty sequence when the length, a character or the checksum
\* is wrong.
DecodeBase26(identity) ==
  LET key == [f \in DOMAIN identity.text |-> Fragment(identity.text[f])]
  IN IF /\ \A f \in DOMAIN identity.text : IsText(identity.text[f], Digits)
        /\ identity.check = Letters(Checksum(key), 4)
     THEN key ELSE <<>>

-----------------------------------------------------------------------------
(* decode_log_events: events packed one after the other from byte 8 on.    *)
(* An event is [type, length, size, data]: its type, the two-byte length   *)
(* in front of its data, the size byte of its header, and the number of    *)
(* data bytes the node wrote.  A message's body is [events, other]: the     *)
(* events the node wrote and, for every other offset, the event a parser   *)
(* there would read.                                                       *)

LogEvents == [type : Nat, length : Nat, size : Nat, data : Nat]

FixedTypes == (0..3) \cup (8..14)
VariableTypes == (4..7) \cup {15, 255}

FixedSize(type) ==
  CASE type \in {0, 2, 3, 11, 12} -> 64
    [] type = 1 -> 816
    [] type = 10 -> 224
    [] OTHER -> 8

\* Mutant: the two bytes of the length are not skipped.
DataSizeBare(e) == IF e.type \in VariableTypes THEN e.length ELSE e.data

\* The data bytes the decoder takes an event to have.
DataSize(e) ==
  IF e.type \in FixedTypes THEN FixedSize(e.type)
  ELSE IF e.type \in VariableTypes THEN e.length + 2
  ELSE e.size

\* An event of unknown type without a size ends the parse.
Unskippable(e) == e.type \notin FixedTypes \cup VariableTypes /\ e.size = 0

\* Where the node's first n events end.
EndOf(events, n) ==
  LET end[i \in 0..n] == IF i = 0 THEN 8 ELSE end[i - 1] + LogHeaderSize + events[i].data
  IN end[n]

\* What the bytes at an offset read as: one of the node's events where it
\* begins, elsewhere (in an event, behind the last) whatever is there.
EventAt(body, o) ==
  LET at == {n \in 1..Len(body.events) : EndOf(body.events, n - 1) = o}
  IN IF at = {} THEN body.other[o] ELSE body.events[CHOOSE n \in at : TRUE]

\* The event pushed: with the data bytes the decoder takes it to have.
Taken(e) == [e EXCEPT !.data = DataSize(e)]

DecodeLogEvents(p) ==
  LET parse[o \in 0..p.len] ==
        LET e == EventAt(p.body, o)
            dataStart == o + LogHeaderSize
            dataEnd == dataStart + DataSize(e)
        IN IF \/ dataStart > p.len
              \/ e.type \in VariableTypes /\ dataStart + 2 > p.len
              \/ Unskippable(e)
              \/ dataEnd > p.len
           THEN <<>>
           ELSE <<Taken(e)>> \o parse[dataEnd]
  IN parse[8]

\* The node writes as many data bytes as the layout of the event says.
WellWritten(e) ==
  /\ e.type \in FixedTypes => e.data = FixedSize(e.type)
  /\ e.type \in VariableTypes => e.data = e.length + 2
  /\ e.type \notin FixedTypes \cup VariableTypes /\ e.size > 0 => e.data = e.size

\* Behind the node's events there is no room for the header of another.
EndsWithEvents(p) == p.len < EndOf(p.body.events, Len(p.body.events)) + LogHeaderSize

\* Reference: the longest prefix of the node's events that lies within the
\* payload and has no unskippable event.
LogEventsOf(p) ==
  LET events == p.body.events
      whole == {n \in 0..Len(events) :
                  /\ n > 0 => EndOf(events, n) <= p.len
                  /\ \A i \in 1..n : ~Unskippable(events[i])}
  IN SubSeq(events, 1, CHOOSE n \in whole : \A m \in whole : m <= n)
=============================================================================
