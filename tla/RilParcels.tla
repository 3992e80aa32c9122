----------------------------- MODULE RilParcels -----------------------------
(***************************************************************************)
(* configs/ril/SamsungU8500RIL.java: the answers it reads itself, the list *)
(* of calls, data calls, the signal strength and the cause of a failure.   *)
(* A parcel is read field by field: a field too many or too few, and all   *)
(* that follows is read as something else.  A field is its name and the    *)
(* call it is of; what rild writes, and Parcel, are not in this repository.*)
(***************************************************************************)
EXTENDS Integers, FiniteSets, Sequences

CONSTANTS MaxCalls,      \* bound: calls of a list
          Indexes,       \* of calls
          DataVersions,  \* versions of a data call list
          Signals,       \* the ints of a signal strength as rild sends them
          Causes         \* of a failed call

ASSUME ParcelAssumption ==
  /\ MaxCalls \in Nat /\ Indexes \subseteq Nat /\ DataVersions \subseteq Nat
  /\ Signals \subseteq [0..11 -> Int] /\ Causes \subseteq Int

VARIABLES
  reading,  \* "none", "calls", "data", or in capitals what was read; "refused"
  told,     \* what rild has to tell
  form,     \* version and features of a data call list, or the settings of the signal
  parcel,   \* the fields
  position, \* dataPosition
  heard,    \* the response so far
  thrown    \* an exception was thrown

parcelVars == <<reading, told, form, parcel, position, heard, thrown>>

NoForm == [version |-> 0, apn |-> FALSE, hcradio |-> FALSE]

ParcelInit ==
  /\ reading = "none" /\ told = << >> /\ form = NoForm
  /\ parcel = << >> /\ position = 1 /\ heard = << >> /\ thrown = FALSE

\* Fields of the i-th call.
Of(names, i) == [k \in 1..Len(names) |-> <<names[k], i>>]
\* The fields of one call after those of the other.
AllOf(fields) == LET f[i \in 0..Len(fields)] == IF i = 0 THEN << >> ELSE f[i - 1] \o fields[i] IN f[Len(fields)]

Receive(what, content, f, fields) ==
  /\ reading = "none"
  /\ reading' = what /\ told' = content /\ form' = f /\ parcel' = fields
  /\ UNCHANGED <<position, heard, thrown>>

-----------------------------------------------------------------------------
\* The list of calls as rild writes it: uus is what follows the 14 fields of a
\* call, nothing, the information of a user, or that with a null array; a call
\* is odd when its state or np is none that the framework knows.
CallNames == <<"state", "index", "TOA", "isMpty", "isMT", "als", "isVoice", "isVideo", "isVoicePrivacy",
               "number", "np", "name", "namePresentation", "uusInfoPresent">>
UusNames == <<"type", "dcs", "userData">>

ReceiveCalls ==
  \E n \in 0..MaxCalls : \E calls \in [1..n -> [index : Indexes, uus : {"none", "data", "null"}, odd : BOOLEAN]] :
    Receive("calls", calls, NoForm,
            AllOf([i \in 1..n |->
                     Of(CallNames, i) \o (IF calls[i].uus = "none" THEN << >> ELSE Of(UusNames, i))]))

\* A list that says it is shorter than empty.
RefuseCount ==
  /\ reading = "none"
  /\ reading' = "refused" /\ thrown' = TRUE
  /\ UNCHANGED <<told, form, parcel, position, heard>>

\* Mutant: the information of the user is not read.
CallReadsShort(i) == Of(CallNames, i)

\* What the loop of responseCallList reads of call i.
CallReads(i) == Of(CallNames, i) \o (IF told[i].uus = "none" THEN << >> ELSE Of(UusNames, i))

\* Which call the fields at the position are of, if they are the named ones.
InPlace(names) == SubSeq(parcel, position, position + Len(names) - 1) = names

\* stateFromCLCC and presentationFromCLIP throw for what they do not know; the
\* array of a user that is null is dereferenced.
Throws(c) == c.odd \/ c.uus = "null"

\* One call.
ReadCall ==
  /\ reading = "calls" /\ Len(heard) < Len(told)
  /\ LET i == Len(heard) + 1
     IN  IF Throws(told[i]) THEN thrown' = TRUE /\ reading' = "CALLS" /\ UNCHANGED <<heard, position>>
         ELSE /\ heard' = Append(heard, [index |-> told[i].index, right |-> InPlace(CallReads(i))])
              /\ position' = position + Len(CallReads(i))
              /\ UNCHANGED <<thrown, reading>>
  /\ UNCHANGED <<told, form, parcel>>

\* Collections.sort by the index of a call: equal ones stay in their order.
Rank(s, i) ==
  Cardinality({k \in 1..Len(s) : s[k].index < s[i].index \/ (s[k].index = s[i].index /\ k <= i)})
Sorted(s) == [j \in 1..Len(s) |-> s[CHOOSE i \in 1..Len(s) : Rank(s, i) = j]]

SortCalls ==
  /\ reading = "calls" /\ Len(heard) = Len(told)
  /\ heard' = Sorted(heard) /\ reading' = "CALLS"
  /\ UNCHANGED <<told, form, parcel, position, thrown>>

-----------------------------------------------------------------------------
\* A data call as rild of a version writes it (RIL_Data_Call_Response_v4, v6,
\* v9, v11): gateways are written, whoever wants them.
DataNames(f) ==
  IF f.version < 5
  THEN <<"cid", "active", "type">> \o (IF f.version < 4 \/ f.apn THEN <<"apn">> ELSE << >>) \o <<"addresses">>
  ELSE (IF f.hcradio THEN <<"status">> ELSE <<"status", "suggestedRetryTime">>)
       \o <<"cid", "active", "type", "ifname", "addresses", "dnses", "gateways">>
       \o (IF f.version >= 11 THEN <<"pcscf", "mtu">> ELSE IF f.version = 10 THEN <<"pcscf">> ELSE << >>)

ReceiveDataCalls ==
  \E f \in [version : DataVersions, apn : BOOLEAN, hcradio : BOOLEAN], n \in 0..MaxCalls :
  \E calls \in [1..n -> [failed : BOOLEAN, ifname : BOOLEAN, addresses : BOOLEAN]] :
    Receive("data", calls, f, AllOf([i \in 1..n |-> Of(DataNames(f), i)]))

\* What getDataCallResponse reads.
DataReads(f) ==
  LET old == <<"cid", "active", "type">> \o (IF f.version < 4 \/ f.apn THEN <<"apn">> ELSE << >>)
      new == <<"status">> \o (IF f.hcradio THEN << >> ELSE <<"suggestedRetryTime">>)
             \o <<"cid", "active", "type", "ifname", "addresses", "dnses", "gateways">>
  IN  IF f.version < 5 THEN old \o <<"addresses">>
      ELSE new \o (IF f.version >= 10 THEN <<"pcscf">> ELSE << >>) \o (IF f.version >= 11 THEN <<"mtu">> ELSE << >>)

\* "System expects addresses, not gateways"; an old rild has none.
Gateways(c) == IF form.version < 5 \/ ~c.addresses THEN "null" ELSE "addresses"

\* A call that did not fail has the name of an interface.
NoIfname(c) == form.version >= 5 /\ ~c.failed /\ ~c.ifname

ReadDataCall ==
  /\ reading = "data" /\ Len(heard) < Len(told)
  /\ LET i == Len(heard) + 1
         fields == Of(DataReads(form), i)
     IN  IF NoIfname(told[i])
         THEN thrown' = TRUE /\ reading' = "DATA" /\ UNCHANGED <<heard, position>>
         ELSE /\ heard' = Append(heard, [right |-> InPlace(fields), gateways |-> Gateways(told[i])])
              /\ position' = position + Len(fields)
              /\ UNCHANGED <<thrown, reading>>
  /\ UNCHANGED <<told, form, parcel>>

EndDataCalls ==
  /\ reading = "data" /\ Len(heard) = Len(told)
  /\ reading' = "DATA"
  /\ UNCHANGED <<told, form, parcel, position, heard, thrown>>

-----------------------------------------------------------------------------
\* x & 0xFF, and (x & 0xFF00) >> 8, of an int.
LowByte(x) == x % 256
HighByte(x) == (x \div 256) % 256

Negated(x, unknown) == IF x < 0 THEN unknown ELSE -x

\* responseSignalStrength: the framework gets seven of the ints, Samsung's CDMA
\* all twelve as they are.
ResponseSignalStrength ==
  /\ reading = "none"
  /\ \E r \in Signals, cdma, bars \in BOOLEAN :
       /\ told' = r
       /\ form' = [version |-> 0, apn |-> cdma, hcradio |-> bars]
       /\ heard' = IF cdma THEN r
                   ELSE <<IF bars THEN HighByte(r[0]) * 3 ELSE LowByte(r[0]), -1,
                          Negated(r[2], -120), Negated(r[3], -160),
                          Negated(r[4], -120), Negated(r[5], -1),
                          IF r[6] < 0 \/ r[6] > 8 THEN -1 ELSE r[6]>>
  /\ reading' = "SIGNAL"
  /\ UNCHANGED <<parcel, position, thrown>>

\* response[0] of an array that may be empty.
CauseOf(ints) == IF ints = << >> THEN << >> ELSE <<ints[1]>>

\* responseFailCause: numInts of them, then what is left is the vendor's.
ResponseFailCause ==
  /\ reading = "none"
  /\ \E n \in 0..2 : \E ints \in [1..n -> Causes], vendor \in BOOLEAN :
       /\ told' = <<ints, vendor>>
       /\ thrown' = (CauseOf(ints) = << >>)
       /\ heard' = IF CauseOf(ints) = << >> THEN << >> ELSE <<CauseOf(ints)[1], vendor>>
  /\ reading' = "CAUSE"
  /\ UNCHANGED <<form, parcel, position>>

ParcelNext ==
  \/ ReceiveCalls \/ RefuseCount \/ ReadCall \/ SortCalls
  \/ ReceiveDataCalls \/ ReadDataCall \/ EndDataCalls
  \/ ResponseSignalStrength \/ ResponseFailCause

ParcelSpec == ParcelInit /\ [][ParcelNext]_parcelVars
-----------------------------------------------------------------------------
(* Properties *)

\* Every call and data call is read from its own fields, wherever it is in the
\* list and whatever the version has (757-819, 941-989), and the whole parcel
\* is used.
FieldsInPlace ==
  /\ reading \in {"calls", "CALLS", "data", "DATA"} => \A i \in DOMAIN heard : heard[i].right
  /\ reading \in {"CALLS", "DATA"} /\ ~thrown => position = Len(parcel) + 1

\* The caller gets every call of the modem, in the order of their indexes, or
\* an exception and none; one bad call is enough for that, a good list never
\* throws (757-824).
CallsAreComplete ==
  reading = "CALLS" =>
    IF thrown THEN \E i \in DOMAIN told : Throws(told[i])
    ELSE /\ \A i \in DOMAIN told : ~Throws(told[i])
         /\ \A i \in 1..(Len(heard) - 1) : heard[i].index <= heard[i + 1].index
         /\ \A x \in Indexes : Cardinality({i \in DOMAIN heard : heard[i].index = x})
                               = Cardinality({i \in DOMAIN told : told[i].index = x})

\* The same of data calls: all of them, each with rild's addresses for its
\* gateways, or none if one that did not fail has no interface (941-989).
DataCallsAreComplete ==
  reading = "DATA" =>
    IF thrown THEN \E i \in DOMAIN told : NoIfname(told[i])
    ELSE Len(heard) = Len(told) /\ \A i \in DOMAIN told : ~NoIfname(told[i])

\* What rild does not know is below zero and becomes the lowest level or
\* "unknown", never a level above the range (862-878), in every setting but
\* Samsung's CDMA.  Only gsm, where -1 becomes 255, or 765 in bars, and the
\* Ec/Io of evdo, where it becomes -1, have no such case.
UnknownIsNotGood ==
  reading = "SIGNAL" /\ ~form.apn =>
    /\ heard[1] >= 0 /\ \A k \in 2..6 : heard[k] <= 0
    /\ heard[7] \in -1..8
    /\ told[2] < 0 => heard[3] = -120
    /\ told[3] < 0 => heard[4] = -160
    /\ told[4] < 0 => heard[5] = -120
    /\ told[6] < 0 => heard[7] = -1

\* What the readers of parcels tell the framework is all that rild wrote, from
\* where it wrote it.
ParcelsAreReadRight ==
  FieldsInPlace /\ CallsAreComplete /\ DataCallsAreComplete /\ UnknownIsNotGood
=============================================================================
