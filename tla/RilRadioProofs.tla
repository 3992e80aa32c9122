--------------------------- MODULE RilRadioProofs ---------------------------
(***************************************************************************)
(* Every message of the framework gets one true answer or is where the     *)
(* code shows that it cannot get one, for any number of messages, radio    *)
(* states and connections.  The invariant says where each message is: it   *)
(* is in one place only, but while the receiver thread has sent the kept   *)
(* one and not yet cleared it.  And, for parcels of any length, version    *)
(* and values: what the readers of RilParcels tell the framework is what   *)
(* rild wrote.  There the invariant says where in the parcel each call is. *)
(***************************************************************************)
EXTENDS RilRadio, RilParcels, FiniteSetTheorems, NaturalsInduction, SequenceTheorems, TLAPS,
        WellFoundedInduction

Result == [value : {"null", "capability", "payload", "zero"}, error : BOOLEAN]

\* A result that claims success has an answer of rild behind it.
True(m, r) ==
  r.error \/ r.value = "capability" \/
  \E e \in errors : /\ e.to = m
                    /\ IF r.value = "zero" THEN e.error = -1 /\ e.request = "SEND_SMS" ELSE e.error = 0

ResultsInv ==
  /\ DOMAIN results = 1..MaxMessages
  /\ \A m \in 1..MaxMessages : results[m] = << >> \/ \E r \in Result : results[m] = <<r>> /\ True(m, r)

\* Messages that were handed to the superclass.
Sent == HasResult \cup (Waiting \ {0})

ListInv ==
  /\ serials \in Nat
  /\ \A rr \in mRequestList : rr.serial \in 1..serials /\ rr.mResult \in 0..messages
  /\ \A q, r \in mRequestList : q.serial = r.serial \/ (q.mResult = r.mResult /\ q.mResult # 0) => q = r
  /\ HasResult \subseteq 1..messages /\ HasResult \cap Waiting = {}

CountInv == messages \in 0..MaxMessages

ShapeInv ==
  /\ mState \in {"off", "unavailable", "on"} /\ mRilVersion \in RadioVersions \cup {-1}
  /\ mPendingGetSimStatus \in 0..messages
  /\ asker \in [pc : {"idle", "keep"}, message : 0..messages]
  /\ noticed \in BOOLEAN
  /\ receiver \in [pc : {"idle", "switch", "test", "send", "clear"}, newState : {"off", "unavailable", "on"}]

\* A kept message is not sent.
KeptInv ==
  /\ asker.pc = "idle" => asker.message = 0
  /\ asker.pc = "keep" => /\ asker.message # 0 /\ asker.message \notin Sent
                          /\ asker.message # mPendingGetSimStatus
  /\ mPendingGetSimStatus # 0 /\ receiver.pc # "clear" => mPendingGetSimStatus \notin Sent

\* What the receiver thread knows while it switches.
SwitchInv ==
  /\ receiver.pc \in {"test", "send", "clear"} => mState = receiver.newState
  /\ receiver.pc \in {"send", "clear"} => receiver.newState = "on"
  /\ receiver.pc = "send" => mPendingGetSimStatus # 0
  /\ asker.pc = "keep" /\ mState = "on" => asker.message \in stale
  /\ receiver.pc = "clear" /\ mPendingGetSimStatus # 0 => mPendingGetSimStatus \in Sent \cup stale

\* Every message is somewhere.
PlaceInv == 1..messages \subseteq Sent \cup Kept \cup overwritten \cup blocked \cup stale

IInv == CountInv /\ ResultsInv /\ ListInv /\ ShapeInv /\ KeptInv /\ SwitchInv /\ PlaceInv /\ DelayedUntilOn

-----------------------------------------------------------------------------
LEMMA OneResult ==
  ASSUME NEW r
  PROVE  <<r>> # << >> /\ Len(<<r>>) = 1 /\ Append(<< >>, r) = <<r>> /\ Len(<< >>) = 0
  OBVIOUS

\* The property from the invariant.
LEMMA Settled == IInv => RequestsAreSettled
<1> SUFFICES ASSUME IInv PROVE RequestsAreSettled
  OBVIOUS
<1>1. \A m \in 1..MaxMessages : Len(results[m]) <= 1
  <2> SUFFICES ASSUME NEW m \in 1..MaxMessages PROVE Len(results[m]) <= 1
    OBVIOUS
  <2>1. CASE results[m] = << >>
    BY <2>1
  <2>2. CASE \E r \in Result : results[m] = <<r>>
    BY <2>2
  <2> QED
    BY <2>1, <2>2 DEF IInv, ResultsInv
<1>2. AnsweredOnce
  BY <1>1 DEF AnsweredOnce, IInv, ResultsInv, ListInv
<1>3. RadioTypeOK
  BY DEF RadioTypeOK, IInv, ShapeInv, ListInv, HasResult
<1>4. NoMessageIsLost
  BY DEF NoMessageIsLost, IInv, PlaceInv, Sent
<1>5. SuccessIsTrue
  <2> SUFFICES ASSUME NEW m \in HasResult, NEW i \in DOMAIN results[m],
                      ~results[m][i].error, results[m][i].value # "capability"
               PROVE  \E e \in errors : /\ e.to = m
                        /\ IF results[m][i].value = "zero" THEN e.error = -1 /\ e.request = "SEND_SMS"
                           ELSE e.error = 0
    BY DEF SuccessIsTrue
  <2>1. m \in 1..MaxMessages /\ results[m] # << >>
    BY DEF HasResult, IInv, ResultsInv
  <2>2. PICK r \in Result : results[m] = <<r>> /\ True(m, r)
    BY <2>1 DEF IInv, ResultsInv
  <2>3. i = 1 /\ results[m][i] = r
    BY <2>2
  <2> QED
    BY <2>2, <2>3 DEF True
<1> QED
  BY <1>2, <1>3, <1>4, <1>5 DEF RequestsAreSettled, IInv

LEMMA InitInv == RadioInit => IInv
<1> SUFFICES ASSUME RadioInit PROVE IInv
  OBVIOUS
<1>1. HasResult = {} /\ Waiting = {} /\ Sent = {}
  BY DEF RadioInit, HasResult, Waiting, Sent
<1>2. ShapeInv
  <2>1. messages = 0 /\ noticed = FALSE /\ mPendingGetSimStatus = 0
    BY DEF RadioInit
  <2>2. asker = [pc |-> "idle", message |-> 0] /\ receiver = [pc |-> "idle", newState |-> "off"]
    BY DEF RadioInit
  <2>3. mState = "unavailable" /\ mRilVersion = -1
    BY DEF RadioInit
  <2>4. noticed \in BOOLEAN
    BY <2>1
  <2> QED
    BY <2>1, <2>2, <2>3, <2>4 DEF ShapeInv
<1>3. CountInv /\ ListInv
  BY <1>1, RadioAssumption DEF RadioInit, CountInv, ListInv
<1>4. ResultsInv
  BY DEF RadioInit, ResultsInv
<1> QED
  BY <1>1, <1>2, <1>3, <1>4 DEF RadioInit, IInv, KeptInv, SwitchInv, PlaceInv, DelayedUntilOn

\* A message that has no result gets one.
LEMMA AnsweredEffect ==
  ASSUME ResultsInv, NEW m \in Nat, m \notin HasResult, NEW r \in Result,
         Answered(m, r.value, r.error), errors \subseteq errors', True(m, r)'
  PROVE  ResultsInv' /\ HasResult' = HasResult \cup ({m} \cap 1..MaxMessages)
<1>1. DOMAIN results = 1..MaxMessages /\ DOMAIN results' = 1..MaxMessages
  BY DEF ResultsInv, Answered
<1>2. \A k \in 1..MaxMessages : results'[k] =
        IF k = m THEN Append(results[k], [value |-> r.value, error |-> r.error]) ELSE results[k]
  BY <1>1 DEF Answered
<1>3. r = [value |-> r.value, error |-> r.error]
  BY DEF Result
<1>4. m \in 1..MaxMessages => results[m] = << >>
  BY <1>1 DEF HasResult
<1>5. \A k \in 1..MaxMessages : results'[k] = IF k = m THEN <<r>> ELSE results[k]
  <2> SUFFICES ASSUME NEW k \in 1..MaxMessages PROVE results'[k] = IF k = m THEN <<r>> ELSE results[k]
    OBVIOUS
  <2>1. CASE k = m
    <3>1. results'[k] = Append(results[k], r) /\ results[k] = << >>
      BY <1>2, <1>3, <1>4, <2>1
    <3>2. results'[k] = Append(<< >>, r)
      BY <3>1
    <3> QED
      BY <2>1, <3>2, OneResult
  <2>2. CASE k # m
    BY <1>2, <2>2
  <2> QED
    BY <2>1, <2>2
<1>6. \A k \in 1..MaxMessages, q \in Result : True(k, q) => True(k, q)'
  BY DEF True
<1>7. ResultsInv'
  BY <1>1, <1>5, <1>6 DEF ResultsInv
<1>8. HasResult' = HasResult \cup ({m} \cap 1..MaxMessages)
  <2>1. \A k \in 1..MaxMessages : results'[k] # << >> <=> k = m \/ results[k] # << >>
    <3>1. <<r>> # << >>
      BY OneResult
    <3> HIDE DEF Result
    <3> QED
      BY <1>5, <3>1, Zenon
  <2> QED
    BY <1>1, <2>1 DEF HasResult
<1> QED
  BY <1>7, <1>8

LEMMA ResultsStay ==
  ASSUME ResultsInv, UNCHANGED results, errors \subseteq errors'
  PROVE  ResultsInv' /\ HasResult' = HasResult
  BY DEF ResultsInv, HasResult, True

\* send: the request is in the list, or has failed.
LEMMA SendEffect ==
  ASSUME ResultsInv, ListInv, NEW request, NEW m \in 1..MaxMessages, m \notin Sent, m <= messages',
         messages <= messages', messages \in Nat, messages' \in Nat, Send(request, m)
  PROVE  ResultsInv' /\ ListInv' /\ Sent' = Sent \cup {m}
<1> DEFINE rr == [serial |-> serials + 1, mRequest |-> request, mResult |-> m]
<1>1. serials' = serials + 1 /\ errors' = errors /\ serials \in Nat /\ m # 0
  BY DEF Send, ListInv
<1>2. m \notin HasResult /\ m \notin Waiting
  BY <1>1 DEF Sent
<1>3. \A q \in mRequestList : /\ q.serial # serials + 1 /\ q.serial \in 1..serials'
                              /\ q.mResult # m /\ q.mResult \in 0..messages'
  BY <1>1, <1>2 DEF ListInv, Waiting
<1>4. rr.serial = serials + 1 /\ rr.mResult = m
  OBVIOUS
<1> HIDE DEF rr
<1>5. CASE Connected
  <2>1. mRequestList' = mRequestList \cup {rr} /\ results' = results
    BY <1>5 DEF Send, rr
  <2>2. ResultsInv' /\ HasResult' = HasResult
    BY <1>1, <2>1, ResultsStay
  <2>3. Waiting' = Waiting \cup {m}
    BY <1>4, <2>1 DEF Waiting
  <2>4. \A q, r \in mRequestList' : q.serial = r.serial \/ (q.mResult = r.mResult /\ q.mResult # 0) => q = r
    BY <1>3, <1>4, <2>1 DEF ListInv
  <2>5. \A q \in mRequestList' : q.serial \in 1..serials' /\ q.mResult \in 0..messages'
    BY <1>1, <1>3, <1>4, <2>1
  <2>6. HasResult' \subseteq 1..messages' /\ HasResult' \cap Waiting' = {}
    BY <1>2, <2>2, <2>3 DEF ListInv
  <2>7. ListInv'
    BY <1>1, <2>4, <2>5, <2>6 DEF ListInv
  <2> QED
    BY <1>1, <2>2, <2>3, <2>7 DEF Sent
<1>6. CASE ~Connected
  <2>1. Answered(m, "null", TRUE) /\ mRequestList' = mRequestList
    BY <1>6 DEF Send
  <2>2. PICK r \in Result : r = [value |-> "null", error |-> TRUE]
    BY DEF Result
  <2>3. Answered(m, r.value, r.error) /\ True(m, r)'
    BY <2>1, <2>2 DEF True
  <2>4. ResultsInv' /\ HasResult' = HasResult \cup {m}
    BY <1>1, <1>2, <2>3, AnsweredEffect
  <2>5. Waiting' = Waiting
    BY <2>1 DEF Waiting
  <2>6. HasResult' \subseteq 1..messages' /\ HasResult' \cap Waiting' = {}
    BY <1>2, <2>4, <2>5 DEF ListInv
  <2>7. ListInv'
    BY <1>1, <1>3, <2>1, <2>6 DEF ListInv
  <2> QED
    BY <1>1, <2>4, <2>5, <2>7 DEF Sent
<1> QED
  BY <1>5, <1>6

\* A step that hands over no message and keeps none.
Quiet == UNCHANGED <<mState, mPendingGetSimStatus, asker, receiver, messages, noticed, overwritten, blocked, stale>>

LEMMA QuietInv ==
  ASSUME IInv, Quiet, Sent' = Sent, ResultsInv', ListInv', mRilVersion' \in RadioVersions \cup {-1}
  PROVE  IInv'
<1>1. CountInv' /\ ShapeInv'
  BY DEF IInv, CountInv, ShapeInv, Quiet
<1>2. KeptInv' /\ SwitchInv' /\ PlaceInv' /\ DelayedUntilOn'
  BY DEF IInv, KeptInv, SwitchInv, PlaceInv, DelayedUntilOn, Quiet, Kept
<1> QED
  BY <1>1, <1>2 DEF IInv

\* The next message of the framework is new.
LEMMA NewMessage ==
  ASSUME IInv, Asks
  PROVE  /\ messages' = messages + 1 /\ messages \in Nat /\ messages' \in 1..MaxMessages
         /\ messages' \notin Sent /\ messages' # mPendingGetSimStatus
<1>1. messages' = messages + 1 /\ messages \in 0..MaxMessages /\ messages < MaxMessages /\ MaxMessages \in Nat
  BY RadioAssumption DEF Asks, IInv, CountInv
<1>2. HasResult \subseteq 1..messages /\ Waiting \subseteq 0..messages
  BY DEF IInv, ListInv, Waiting
<1>3. mPendingGetSimStatus \in 0..messages
  BY DEF IInv, ShapeInv
<1> QED
  BY <1>1, <1>2, <1>3 DEF Sent

\* A new message is handed over, or its request is blocked.
LEMMA AskedInv ==
  ASSUME IInv, Asks, ResultsInv', ListInv', Sent' \in {Sent, Sent \cup {messages'}},
         messages' \in Sent' \cup blocked', blocked \subseteq blocked',
         noticed' \in BOOLEAN, UNCHANGED <<radioState, asker, receiver, overwritten, stale>>
  PROVE  IInv'
<1>1. /\ messages' = messages + 1 /\ messages \in Nat /\ messages' \in 1..MaxMessages
      /\ messages' # mPendingGetSimStatus
  BY NewMessage
<1>2. asker.pc = "idle" /\ UNCHANGED <<mState, mPendingGetSimStatus, mRilVersion>>
  BY DEF Asks, radioState
<1>3. CountInv' /\ ShapeInv'
  BY <1>1, <1>2 DEF IInv, CountInv, ShapeInv
<1>4. KeptInv' /\ SwitchInv' /\ DelayedUntilOn'
  BY <1>1, <1>2 DEF IInv, KeptInv, SwitchInv, DelayedUntilOn
<1>5. PlaceInv'
  <2>1. 1..messages' = 1..messages \cup {messages'}
    BY <1>1
  <2> QED
    BY <1>2, <2>1 DEF IInv, PlaceInv, Kept
<1> QED
  BY <1>3, <1>4, <1>5 DEF IInv

LEMMA ExchangeStays ==
  ASSUME ResultsInv, ListInv, UNCHANGED exchange, messages <= messages', messages \in Nat, messages' \in Nat
  PROVE  ResultsInv' /\ ListInv' /\ Sent' = Sent
<1>1. ResultsInv' /\ HasResult' = HasResult
  BY ResultsStay DEF exchange
<1>2. Waiting' = Waiting
  BY DEF exchange, Waiting
<1>3. ListInv'
  BY <1>1, <1>2 DEF exchange, ListInv
<1> QED
  BY <1>1, <1>2, <1>3 DEF Sent

\* The framework sends, or its request is blocked.
LEMMA AskInv ==
  ASSUME IInv, AskRil \/ GetVoiceRadioTechnology \/ GetCdmaSubscriptionSource
  PROVE  IInv'
<1>1. /\ Asks /\ UNCHANGED <<radioState, asker, receiver, overwritten, stale>> /\ blocked \subseteq blocked'
      /\ noticed' \in BOOLEAN
  BY DEF AskRil, GetVoiceRadioTechnology, GetCdmaSubscriptionSource, IInv, ShapeInv
<1>2. /\ messages' = messages + 1 /\ messages \in Nat /\ messages' \in 1..MaxMessages
      /\ messages' \notin Sent
  BY <1>1, NewMessage
<1>3. (\E request : Send(request, messages')) \/ (UNCHANGED exchange /\ messages' \in blocked')
  BY DEF AskRil, GetVoiceRadioTechnology, GetCdmaSubscriptionSource
<1>4. CASE \E request : Send(request, messages')
  <2>1. ResultsInv' /\ ListInv' /\ Sent' = Sent \cup {messages'}
    BY <1>2, <1>4, SendEffect DEF IInv
  <2> QED
    BY <1>1, <2>1, AskedInv
<1>5. CASE UNCHANGED exchange /\ messages' \in blocked'
  <2>1. ResultsInv' /\ ListInv' /\ Sent' = Sent
    BY <1>2, <1>5, ExchangeStays DEF IInv
  <2> QED
    BY <1>1, <1>5, <2>1, AskedInv
<1> QED
  BY <1>3, <1>4, <1>5

LEMMA CapabilityInv == IInv /\ GetRadioCapability => IInv'
<1> SUFFICES ASSUME IInv, GetRadioCapability PROVE IInv'
  OBVIOUS
<1>1. /\ Asks /\ Answered(messages', "capability", FALSE)
      /\ UNCHANGED <<radioState, asker, receiver, mRequestList, serials, errors, overwritten, blocked, stale>>
      /\ noticed' \in BOOLEAN
  BY DEF GetRadioCapability, IInv, ShapeInv
<1>2. /\ messages' = messages + 1 /\ messages \in Nat /\ messages' \in 1..MaxMessages
      /\ messages' \notin Sent
  BY <1>1, NewMessage
<1>3. PICK r \in Result : r = [value |-> "capability", error |-> FALSE]
  BY DEF Result
<1>4. PICK n \in Nat : n = messages'
  BY <1>2
<1>5. messages' \notin HasResult /\ messages' \notin Waiting
  BY <1>2 DEF Sent
<1>6. ResultsInv' /\ HasResult' = HasResult \cup {messages'}
  <2>1. ResultsInv /\ n \notin HasResult /\ errors \subseteq errors'
    BY <1>1, <1>4, <1>5 DEF IInv
  <2>2. Answered(n, r.value, r.error)
    BY <1>1, <1>3, <1>4
  <2>3. True(n, r)'
    BY <1>3 DEF True
  <2>4. ResultsInv' /\ HasResult' = HasResult \cup ({n} \cap 1..MaxMessages)
    BY <2>1, <2>2, <2>3, AnsweredEffect
  <2> QED
    BY <1>2, <1>4, <2>4
<1>7. Waiting' = Waiting
  BY <1>1 DEF Waiting
<1>8. ListInv'
  BY <1>1, <1>2, <1>5, <1>6, <1>7 DEF ListInv, IInv
<1> QED
  BY <1>1, <1>2, <1>6, <1>7, <1>8, AskedInv DEF Sent

\* getIccCardStatus keeps the message in the hand of its caller, or sends it.
LEMMA IccInv == IInv /\ GetIccCardStatus => IInv'
<1> SUFFICES ASSUME IInv, GetIccCardStatus PROVE IInv'
  OBVIOUS
<1>1. Asks /\ UNCHANGED <<radioState, receiver, overwritten, blocked, stale>> /\ noticed' \in BOOLEAN
  BY DEF GetIccCardStatus
<1>2. /\ messages' = messages + 1 /\ messages \in Nat /\ messages' \in 1..MaxMessages
      /\ messages' \notin Sent /\ messages' # mPendingGetSimStatus
  BY <1>1, NewMessage
<1>3. CASE mState # "on"
  <2>1. asker' = [pc |-> "keep", message |-> messages'] /\ UNCHANGED exchange
    BY <1>3 DEF GetIccCardStatus
  <2>2. ResultsInv' /\ ListInv' /\ Sent' = Sent
    BY <1>2, <2>1, ExchangeStays DEF IInv
  <2>3. UNCHANGED <<mState, mPendingGetSimStatus, mRilVersion>>
    BY <1>1 DEF radioState
  <2>4. CountInv' /\ ShapeInv'
    BY <1>1, <1>2, <2>1, <2>3 DEF IInv, CountInv, ShapeInv
  <2>5. KeptInv' /\ SwitchInv' /\ DelayedUntilOn'
    BY <1>1, <1>2, <1>3, <2>1, <2>2, <2>3 DEF IInv, KeptInv, SwitchInv, DelayedUntilOn
  <2>6. PlaceInv'
    <3>1. 1..messages' = 1..messages \cup {messages'}
      BY <1>2
    <3>2. asker.message = 0
      BY <1>1 DEF Asks, IInv, KeptInv
    <3> QED
      BY <1>1, <2>1, <2>2, <2>3, <3>1, <3>2 DEF IInv, PlaceInv, Kept
  <2> QED
    BY <2>2, <2>4, <2>5, <2>6 DEF IInv
<1>4. CASE mState = "on"
  <2>1. Send("GET_SIM_STATUS", messages') /\ asker' = asker
    BY <1>4 DEF GetIccCardStatus
  <2>2. ResultsInv' /\ ListInv' /\ Sent' = Sent \cup {messages'}
    BY <1>2, <2>1, SendEffect DEF IInv
  <2> QED
    BY <1>1, <2>1, <2>2, AskedInv
<1> QED
  BY <1>3, <1>4

LEMMA KeepInv == IInv /\ KeepSimStatus => IInv'
<1> SUFFICES ASSUME IInv, KeepSimStatus PROVE IInv'
  OBVIOUS
<1>1. /\ asker.pc = "keep" /\ mPendingGetSimStatus' = asker.message
      /\ overwritten' = (overwritten \cup {mPendingGetSimStatus}) \ {0}
      /\ asker' = [pc |-> "idle", message |-> 0]
      /\ UNCHANGED <<mState, mRilVersion, receiver, exchange, messages, noticed, blocked, stale>>
  BY DEF KeepSimStatus
<1>2. asker.message \in 0..messages /\ messages \in Nat
  BY DEF IInv, ShapeInv, CountInv
<1>3. ResultsInv' /\ ListInv' /\ Sent' = Sent
  BY <1>1, <1>2, ExchangeStays DEF IInv
<1>4. CountInv' /\ ShapeInv'
  BY <1>1, <1>2 DEF IInv, CountInv, ShapeInv
<1>5. KeptInv' /\ SwitchInv'
  BY <1>1, <1>3 DEF IInv, KeptInv, SwitchInv
<1>6. DelayedUntilOn'
  BY <1>1 DEF IInv, DelayedUntilOn, SwitchInv
<1>7. PlaceInv'
  BY <1>1, <1>3 DEF IInv, PlaceInv, Kept
<1> QED
  BY <1>3, <1>4, <1>5, <1>6, <1>7 DEF IInv

-----------------------------------------------------------------------------
\* What the end of processSolicited tells is true of the answer.
LEMMA OutcomeTrue ==
  ASSUME NEW rr, NEW error \in {0, -1, 2}, NEW parsed \in {"good", "bad", "none"},
         errors' = errors \cup {[to |-> rr.mResult, request |-> rr.mRequest, error |-> error]}
  PROVE  Outcome(rr, error, parsed) \in Result /\ True(rr.mResult, Outcome(rr, error, parsed))'
<1> DEFINE e == [to |-> rr.mResult, request |-> rr.mRequest, error |-> error]
<1>1. e \in errors' /\ e.to = rr.mResult /\ e.request = rr.mRequest /\ e.error = error
  OBVIOUS
<1> HIDE DEF e
<1>2. CASE parsed = "bad" \/ (error # 0 /\ ~(error = -1 /\ rr.mRequest = "SEND_SMS"))
  <2>1. Outcome(rr, error, parsed) \in Result /\ Outcome(rr, error, parsed).error
    BY <1>2 DEF Outcome, Result
  <2> QED
    BY <2>1 DEF True
<1>3. CASE parsed # "bad" /\ error = 0
  <2>1. Outcome(rr, error, parsed) = [value |-> "payload", error |-> FALSE]
    BY <1>3 DEF Outcome
  <2>2. [value |-> "payload", error |-> FALSE] \in Result
    BY DEF Result
  <2>3. True(rr.mResult, [value |-> "payload", error |-> FALSE])'
    BY <1>1, <1>3 DEF True
  <2> QED
    BY <2>1, <2>2, <2>3
<1>4. CASE parsed # "bad" /\ error = -1 /\ rr.mRequest = "SEND_SMS"
  <2>1. Outcome(rr, error, parsed) = [value |-> "zero", error |-> FALSE]
    BY <1>4 DEF Outcome
  <2>2. [value |-> "zero", error |-> FALSE] \in Result
    BY DEF Result
  <2>3. True(rr.mResult, [value |-> "zero", error |-> FALSE])'
    BY <1>1, <1>4 DEF True
  <2> QED
    BY <2>1, <2>2, <2>3
<1> QED
  BY <1>2, <1>3, <1>4

\* An answer takes its request out of the list and gives its message a result.
LEMMA SolicitedInv == IInv /\ ProcessSolicited => IInv'
<1> SUFFICES ASSUME IInv, ProcessSolicited PROVE IInv'
  OBVIOUS
<1>1. Quiet /\ UNCHANGED <<mRilVersion, serials>>
  BY DEF ProcessSolicited, Quiet, radioState, radioHistory
<1>2. PICK serial \in 1..serials, error \in {0, -1, 2}, parsed \in {"good", "bad", "none"} :
        /\ FindAndRemove(serial)
        /\ \E rr \in mRequestList :
             LET o == Outcome(rr, error, parsed)
             IN  /\ rr.serial = serial
                 /\ Answered(rr.mResult, o.value, o.error)
                 /\ errors' = IF rr.mResult = 0 THEN errors
                              ELSE errors \cup {[to |-> rr.mResult, request |-> rr.mRequest, error |-> error]}
  BY ZenonT(60) DEF ProcessSolicited
<1>3. PICK rr \in mRequestList :
        /\ rr.serial = serial
        /\ Answered(rr.mResult, Outcome(rr, error, parsed).value, Outcome(rr, error, parsed).error)
        /\ errors' = IF rr.mResult = 0 THEN errors
                     ELSE errors \cup {[to |-> rr.mResult, request |-> rr.mRequest, error |-> error]}
  BY <1>2
<1> DEFINE m == rr.mResult
<1>4. m \in 0..messages /\ messages \in 0..MaxMessages /\ m \in Waiting
  BY DEF IInv, ListInv, CountInv, Waiting
<1>5. m \notin HasResult
  BY <1>4 DEF IInv, ListInv
<1>6. /\ mRequestList' = {q \in mRequestList : q.serial # serial}
      /\ \A q \in mRequestList : q.serial = serial => q = rr
  BY <1>2, <1>3 DEF FindAndRemove, IInv, ListInv
<1>7. Waiting' \subseteq Waiting /\ Waiting \subseteq Waiting' \cup {m} /\ (m # 0 => m \notin Waiting')
  <2>1. Waiting' = {q.mResult : q \in mRequestList'}
    BY DEF Waiting
  <2>2. \A q \in mRequestList : q \in mRequestList' \/ q = rr
    BY <1>6
  <2>3. m # 0 => \A q \in mRequestList' : q.mResult # m
    BY <1>3, <1>6 DEF IInv, ListInv
  <2> QED
    BY <1>6, <2>1, <2>2, <2>3 DEF Waiting
<1>8. ResultsInv' /\ HasResult' = HasResult \cup ({m} \ {0})
  <2>1. CASE m = 0
    <3>1. errors' = errors
      BY <1>3, <2>1
    <3>2. DOMAIN results = 1..MaxMessages
      BY DEF IInv, ResultsInv
    <3>3. DOMAIN results' = 1..MaxMessages /\ \A k \in 1..MaxMessages : results'[k] = results[k]
      BY <1>3, <2>1, <3>2 DEF Answered
    <3>4. ResultsInv'
      BY <3>1, <3>2, <3>3 DEF IInv, ResultsInv, True
    <3>5. HasResult' = HasResult
      BY <3>2, <3>3 DEF HasResult
    <3> QED
      BY <2>1, <3>4, <3>5
  <2>2. CASE m # 0
    <3>1. errors' = errors \cup {[to |-> rr.mResult, request |-> rr.mRequest, error |-> error]}
      BY <1>3, <2>2
    <3>2. Outcome(rr, error, parsed) \in Result /\ True(m, Outcome(rr, error, parsed))'
      BY <3>1, OutcomeTrue
    <3>3. ResultsInv' /\ HasResult' = HasResult \cup ({m} \cap 1..MaxMessages)
      <4>1. m \in Nat /\ errors \subseteq errors'
        BY <1>4, <3>1
      <4>2. ResultsInv
        BY DEF IInv
      <4> QED
        BY <1>3, <1>5, <3>2, <4>1, <4>2, AnsweredEffect
    <3>4. m \in 1..MaxMessages
      BY <1>4, <2>2, RadioAssumption
    <3> QED
      BY <2>2, <3>3, <3>4
  <2> QED
    BY <2>1, <2>2
<1>9. ListInv'
  <2>1. HasResult \subseteq 1..messages /\ HasResult \cap Waiting = {}
    BY DEF IInv, ListInv
  <2>2. m # 0 => m \in 1..messages
    BY <1>4
  <2>3. HasResult' = HasResult \cup ({m} \ {0})
    BY <1>8
  <2> HIDE DEF m
  <2>4. HasResult' \subseteq 1..messages /\ HasResult' \cap Waiting' = {}
    BY <1>7, <2>1, <2>2, <2>3
  <2> QED
    BY <1>1, <1>6, <2>4 DEF IInv, ListInv, Quiet
<1>10. Sent' = Sent
  BY <1>4, <1>7, <1>8 DEF Sent
<1> QED
  BY <1>1, <1>8, <1>9, <1>10, QuietInv DEF IInv, ShapeInv

-----------------------------------------------------------------------------
\* The three requests after a connection have no message.
LEMMA ConnectedInv == IInv /\ RilConnected => IInv'
<1> SUFFICES ASSUME IInv, RilConnected PROVE IInv'
  OBVIOUS
<1> DEFINE new(i) == [serial |-> serials + i, mRequest |-> <<"RADIO_POWER", "SET_PREFERRED_NETWORK_TYPE",
                                                "CDMA_SET_SUBSCRIPTION_SOURCE">>[i], mResult |-> 0]
<1>1. /\ Quiet /\ UNCHANGED <<results, errors>> /\ mRilVersion' \in RadioVersions \cup {-1}
      /\ serials' = serials + 3 /\ serials \in Nat
      /\ mRequestList' = mRequestList \cup {new(i) : i \in 1..3}
  BY DEF RilConnected, Quiet, IInv, ListInv
<1>2. \A i \in 1..3 : new(i).serial = serials + i /\ new(i).mResult = 0
  OBVIOUS
<1>3. \A i, j \in 1..3 : serials + i = serials + j => new(i) = new(j)
  <2>1. \A i, j \in 1..3 : serials + i = serials + j => i = j
    BY <1>1
  <2> QED
    BY <2>1
<1> HIDE DEF new
<1>4. ResultsInv' /\ HasResult' = HasResult
  BY <1>1, ResultsStay DEF IInv
<1>5. Waiting' = Waiting \cup {0}
  <2>1. {r.mResult : r \in {new(i) : i \in 1..3}} = {0}
    BY <1>2
  <2> QED
    BY <1>1, <2>1 DEF Waiting
<1>6. 0 \notin HasResult
  BY DEF IInv, ListInv
<1>7. \A q \in mRequestList : q.serial \in 1..serials
  BY DEF IInv, ListInv
<1>8. \A q, r \in mRequestList' : q.serial = r.serial \/ (q.mResult = r.mResult /\ q.mResult # 0) => q = r
  <2> SUFFICES ASSUME NEW q \in mRequestList', NEW r \in mRequestList',
                      q.serial = r.serial \/ (q.mResult = r.mResult /\ q.mResult # 0)
               PROVE  q = r
    OBVIOUS
  <2>1. CASE q \in mRequestList /\ r \in mRequestList
    BY <2>1 DEF IInv, ListInv
  <2>2. ASSUME NEW i \in 1..3, q = new(i), r \in mRequestList PROVE q = r
    BY <1>1, <1>2, <1>7, <2>2
  <2>3. ASSUME NEW i \in 1..3, r = new(i), q \in mRequestList PROVE q = r
    BY <1>1, <1>2, <1>7, <2>3
  <2>4. ASSUME NEW i \in 1..3, NEW j \in 1..3, q = new(i), r = new(j) PROVE q = r
    BY <1>1, <1>2, <1>3, <2>4
  <2> QED
    BY <1>1, <2>1, <2>2, <2>3, <2>4
<1>9. \A q \in mRequestList' : q.serial \in 1..serials' /\ q.mResult \in 0..messages'
  <2>1. \A i \in 1..3 : serials + i \in 1..serials' /\ 0 \in 0..messages'
    BY <1>1 DEF Quiet, IInv, CountInv
  <2>2. \A q \in mRequestList : q.serial \in 1..serials' /\ q.mResult \in 0..messages'
    BY <1>1 DEF Quiet, IInv, ListInv
  <2> QED
    BY <1>1, <1>2, <2>1, <2>2
<1>10. ListInv'
  BY <1>1, <1>4, <1>5, <1>6, <1>8, <1>9 DEF Quiet, IInv, ListInv
<1>11. Sent' = Sent
  BY <1>4, <1>5 DEF Sent
<1> QED
  BY <1>1, <1>4, <1>10, <1>11, QuietInv

\* When the connection ends each message that waits gets a result.
LEMMA CloseEffect ==
  ASSUME ResultsInv, ListInv, messages \in 0..MaxMessages, Close, UNCHANGED <<serials, errors, messages>>
  PROVE  ResultsInv' /\ ListInv' /\ Sent' = Sent
<1>1. DOMAIN results = 1..MaxMessages /\ Waiting \subseteq 0..messages
  BY DEF ResultsInv, ListInv, Waiting
<1>2. PICK failed \in Result : failed = [value |-> "null", error |-> TRUE]
  BY DEF Result
<1>3. /\ DOMAIN results' = 1..MaxMessages
      /\ \A m \in 1..MaxMessages : results'[m] = IF m \in Waiting THEN <<failed>> ELSE results[m]
  <2>1. \A m \in 1..MaxMessages \cap Waiting : results[m] = << >>
    BY <1>1 DEF ListInv, HasResult
  <2>2. results' = [m \in 1..MaxMessages |-> IF m \in Waiting THEN Append(results[m], failed) ELSE results[m]]
    BY <1>1, <1>2 DEF Close
  <2>3. \A m \in 1..MaxMessages \cap Waiting : Append(results[m], failed) = <<failed>>
    <3>1. Append(<< >>, failed) = <<failed>>
      BY OneResult
    <3> QED
      BY <2>1, <3>1, Zenon
  <2> QED
    BY <2>2, <2>3
<1>4. \A m : True(m, failed)'
  BY <1>2 DEF True
<1>5. ResultsInv'
  <2> SUFFICES ASSUME NEW m \in 1..MaxMessages
               PROVE  results'[m] = << >> \/ \E r \in Result : results'[m] = <<r>> /\ True(m, r)'
    BY <1>3 DEF ResultsInv
  <2>1. CASE m \in Waiting
    <3>1. results'[m] = <<failed>> /\ True(m, failed)'
      BY <1>3, <1>4, <2>1
    <3> QED
      BY <1>2, <3>1, Zenon
  <2>2. CASE m \notin Waiting
    <3>1. results'[m] = results[m]
      BY <1>3, <2>2
    <3>2. \A r : True(m, r) => True(m, r)'
      BY DEF True
    <3>3. results[m] = << >> \/ \E r \in Result : results[m] = <<r>> /\ True(m, r)
      BY DEF ResultsInv
    <3> QED
      BY <3>1, <3>2, <3>3, Zenon
  <2> QED
    BY <2>1, <2>2
<1>6. HasResult' = HasResult \cup (Waiting \ {0})
  <2>1. \A m \in 1..MaxMessages : results'[m] # << >> <=> m \in Waiting \/ results[m] # << >>
    <3>1. <<failed>> # << >>
      BY OneResult
    <3> QED
      BY <1>3, <3>1, Zenon
  <2>2. Waiting \ {0} \subseteq 1..MaxMessages /\ 0 \notin 1..MaxMessages
    BY <1>1, RadioAssumption
  <2> QED
    BY <1>1, <1>3, <2>1, <2>2 DEF HasResult
<1>7. Waiting' = {} /\ mRequestList' = {}
  BY DEF Waiting, Close
<1>8. HasResult' \subseteq 1..messages
  BY <1>1, <1>6, RadioAssumption DEF ListInv
<1>9. ListInv'
  BY <1>7, <1>8 DEF ListInv
<1> QED
  BY <1>5, <1>6, <1>7, <1>9 DEF Sent

LEMMA StateInv == IInv /\ RadioStateChanged => IInv'
<1> SUFFICES ASSUME IInv, RadioStateChanged PROVE IInv'
  OBVIOUS
<1>1. /\ receiver.pc = "idle" /\ noticed' \in BOOLEAN
      /\ UNCHANGED <<mPendingGetSimStatus, asker, serials, errors, messages, overwritten, blocked, stale>>
  BY DEF RadioStateChanged
<1>2. CountInv' /\ messages \in 0..MaxMessages /\ messages \in Nat
  BY <1>1, RadioAssumption DEF IInv, CountInv
<1>3. CASE Close /\ mState' = "unavailable" /\ mRilVersion' = -1 /\ UNCHANGED receiver
  <2>1. ResultsInv' /\ ListInv' /\ Sent' = Sent
    BY <1>1, <1>2, <1>3, CloseEffect DEF IInv
  <2>2. ShapeInv' /\ KeptInv' /\ SwitchInv' /\ DelayedUntilOn'
    BY <1>1, <1>3, <2>1 DEF IInv, ShapeInv, KeptInv, SwitchInv, DelayedUntilOn
  <2>3. PlaceInv'
    BY <1>1, <1>3, <2>1 DEF IInv, PlaceInv, Kept
  <2> QED
    BY <1>2, <2>1, <2>2, <2>3 DEF IInv
<1>4. ASSUME NEW state \in {0, 2, 3, 4, 5}, RadioStateOf(state) # "throws",
             receiver' = [pc |-> "switch", newState |-> RadioStateOf(state)],
             UNCHANGED <<mState, mRequestList, results, mRilVersion>>
      PROVE  IInv'
  <2>1. receiver'.pc = "switch" /\ receiver'.newState \in {"off", "unavailable", "on"}
    BY <1>4 DEF RadioStateOf
  <2>2. ResultsInv' /\ ListInv' /\ Sent' = Sent
    BY <1>1, <1>2, <1>4, ExchangeStays DEF exchange, IInv
  <2>3. ShapeInv'
    BY <1>1, <1>4, <2>1 DEF IInv, ShapeInv
  <2>4. KeptInv' /\ SwitchInv' /\ DelayedUntilOn'
    BY <1>1, <1>4, <2>1, <2>2 DEF IInv, KeptInv, SwitchInv, DelayedUntilOn
  <2>5. PlaceInv'
    BY <1>1, <1>4, <2>2 DEF IInv, PlaceInv, Kept
  <2> QED
    BY <1>2, <2>2, <2>3, <2>4, <2>5 DEF IInv
<1>5. PICK state \in {0, 2, 3, 4, 5} :
        IF RadioStateOf(state) = "throws"
        THEN /\ Close /\ mState' = "unavailable" /\ mRilVersion' = -1
             /\ UNCHANGED receiver
        ELSE /\ receiver' = [pc |-> "switch", newState |-> RadioStateOf(state)]
             /\ UNCHANGED <<mState, mRequestList, results, mRilVersion>>
  BY DEF RadioStateChanged
<1> QED
  BY <1>3, <1>4, <1>5

-----------------------------------------------------------------------------
\* A message whose caller has read mState before is stale once the radio is on.
LEMMA SwitchedInv == IInv /\ SwitchToRadioState => IInv'
<1> SUFFICES ASSUME IInv, SwitchToRadioState PROVE IInv'
  OBVIOUS
<1>1. /\ receiver.pc = "switch" /\ mState' = receiver.newState
      /\ receiver' = [receiver EXCEPT !.pc = "test"]
      /\ stale' = IF mState' = "on" /\ asker.pc = "keep" THEN stale \cup {asker.message} ELSE stale
      /\ UNCHANGED <<mPendingGetSimStatus, mRilVersion, asker, exchange, messages, noticed, overwritten,
                     blocked>>
  BY DEF SwitchToRadioState
<1>2. /\ receiver'.pc = "test" /\ receiver'.newState = receiver.newState
      /\ receiver' \in [pc : {"idle", "switch", "test", "send", "clear"}, newState : {"off", "unavailable", "on"}]
      /\ mState' \in {"off", "unavailable", "on"}
  BY <1>1 DEF IInv, ShapeInv
<1>3. ResultsInv' /\ ListInv' /\ Sent' = Sent
  BY <1>1, ExchangeStays DEF IInv, CountInv
<1>4. CountInv' /\ ShapeInv'
  BY <1>1, <1>2 DEF IInv, CountInv, ShapeInv
<1>5. KeptInv' /\ SwitchInv' /\ DelayedUntilOn'
  BY <1>1, <1>2, <1>3 DEF IInv, KeptInv, SwitchInv, DelayedUntilOn
<1>6. PlaceInv'
  <2>1. stale \subseteq stale'
    BY <1>1
  <2> QED
    BY <1>1, <1>3, <2>1 DEF IInv, PlaceInv, Kept
<1> QED
  BY <1>3, <1>4, <1>5, <1>6 DEF IInv

LEMMA SwitchTestsInv == IInv /\ SwitchTests => IInv'
<1> SUFFICES ASSUME IInv, SwitchTests PROVE IInv'
  OBVIOUS
<1>1. /\ receiver.pc = "test" /\ UNCHANGED <<radioState, asker, exchange, radioHistory>>
      /\ receiver' = [receiver EXCEPT !.pc =
           IF receiver.newState = "on" /\ mPendingGetSimStatus # 0 THEN "send" ELSE "idle"]
  BY DEF SwitchTests
<1>2. UNCHANGED <<mState, mPendingGetSimStatus, mRilVersion, messages, noticed, overwritten, blocked, stale>>
  BY <1>1 DEF radioState, radioHistory
<1>3. ResultsInv' /\ ListInv' /\ Sent' = Sent
  BY <1>1, <1>2, ExchangeStays DEF IInv, CountInv
<1>4. /\ receiver'.newState = receiver.newState
      /\ receiver'.pc = IF receiver.newState = "on" /\ mPendingGetSimStatus # 0 THEN "send" ELSE "idle"
      /\ receiver' \in [pc : {"idle", "switch", "test", "send", "clear"}, newState : {"off", "unavailable", "on"}]
  BY <1>1 DEF IInv, ShapeInv
<1>5. CountInv' /\ ShapeInv'
  BY <1>1, <1>2, <1>4 DEF IInv, CountInv, ShapeInv
<1>6. KeptInv' /\ SwitchInv' /\ DelayedUntilOn'
  BY <1>1, <1>2, <1>3, <1>4 DEF IInv, KeptInv, SwitchInv, DelayedUntilOn
<1>7. PlaceInv'
  BY <1>1, <1>2, <1>3 DEF IInv, PlaceInv, Kept
<1> QED
  BY <1>3, <1>5, <1>6, <1>7 DEF IInv

LEMMA SwitchSendsInv == IInv /\ SwitchSends => IInv'
<1> SUFFICES ASSUME IInv, SwitchSends PROVE IInv'
  OBVIOUS
<1>1. /\ receiver.pc = "send" /\ Send("GET_SIM_STATUS", mPendingGetSimStatus)
      /\ receiver' = [pc |-> "clear", newState |-> receiver.newState]
      /\ UNCHANGED <<radioState, asker, radioHistory>>
  BY DEF SwitchSends
<1>2. UNCHANGED <<mState, mPendingGetSimStatus, mRilVersion, messages, noticed, overwritten, blocked, stale>>
  BY <1>1 DEF radioState, radioHistory
<1>3. /\ mPendingGetSimStatus \in 1..MaxMessages /\ mPendingGetSimStatus <= messages
      /\ mPendingGetSimStatus \notin Sent /\ messages \in Nat
  BY <1>1, RadioAssumption DEF IInv, ShapeInv, CountInv, SwitchInv, KeptInv
<1>4. ResultsInv' /\ ListInv' /\ Sent' = Sent \cup {mPendingGetSimStatus}
  BY <1>1, <1>2, <1>3, SendEffect DEF IInv
<1>5. CountInv' /\ ShapeInv'
  BY <1>1, <1>2 DEF IInv, CountInv, ShapeInv
<1>6. KeptInv' /\ SwitchInv' /\ DelayedUntilOn'
  BY <1>1, <1>2, <1>4 DEF IInv, KeptInv, SwitchInv, DelayedUntilOn
<1>7. PlaceInv'
  BY <1>1, <1>2, <1>4 DEF IInv, PlaceInv, Kept
<1> QED
  BY <1>4, <1>5, <1>6, <1>7 DEF IInv

LEMMA SwitchClearsInv == IInv /\ SwitchClears => IInv'
<1> SUFFICES ASSUME IInv, SwitchClears PROVE IInv'
  OBVIOUS
<1>1. /\ receiver.pc = "clear" /\ mPendingGetSimStatus' = 0
      /\ receiver' = [receiver EXCEPT !.pc = "idle"]
      /\ UNCHANGED <<mState, mRilVersion, asker, exchange, radioHistory>>
  BY DEF SwitchClears
<1>2. UNCHANGED <<messages, noticed, overwritten, blocked, stale>>
  BY <1>1 DEF radioHistory
<1>3. ResultsInv' /\ ListInv' /\ Sent' = Sent
  BY <1>1, <1>2, ExchangeStays DEF IInv, CountInv
<1>4. /\ receiver'.pc = "idle"
      /\ receiver' \in [pc : {"idle", "switch", "test", "send", "clear"}, newState : {"off", "unavailable", "on"}]
  BY <1>1 DEF IInv, ShapeInv
<1>5. CountInv' /\ ShapeInv'
  BY <1>1, <1>2, <1>4 DEF IInv, CountInv, ShapeInv
<1>6. KeptInv' /\ SwitchInv' /\ DelayedUntilOn'
  BY <1>1, <1>2, <1>3, <1>4 DEF IInv, KeptInv, SwitchInv, DelayedUntilOn
<1>7. PlaceInv'
  BY <1>1, <1>2, <1>3 DEF IInv, PlaceInv, SwitchInv, Kept
<1> QED
  BY <1>3, <1>5, <1>6, <1>7 DEF IInv

-----------------------------------------------------------------------------
LEMMA StutterInv == IInv /\ UNCHANGED radioVars => IInv'
<1> SUFFICES ASSUME IInv, UNCHANGED radioVars PROVE IInv'
  OBVIOUS
<1>1. Quiet /\ UNCHANGED exchange /\ mRilVersion' = mRilVersion
  BY DEF radioVars, radioState, radioHistory, Quiet
<1>2. ResultsInv' /\ ListInv' /\ Sent' = Sent
  BY <1>1, ExchangeStays DEF Quiet, IInv, CountInv
<1> QED
  BY <1>1, <1>2, QuietInv DEF IInv, ShapeInv

LEMMA NextInv == IInv /\ [RadioNext]_radioVars => IInv'
<1> SUFFICES ASSUME IInv, [RadioNext]_radioVars PROVE IInv'
  OBVIOUS
<1>1. CASE AskRil \/ GetVoiceRadioTechnology \/ GetCdmaSubscriptionSource
  BY <1>1, AskInv
<1>2. CASE GetRadioCapability
  BY <1>2, CapabilityInv
<1>3. CASE GetIccCardStatus
  BY <1>3, IccInv
<1>4. CASE KeepSimStatus
  BY <1>4, KeepInv
<1>5. CASE ProcessSolicited
  BY <1>5, SolicitedInv
<1>6. CASE RilConnected
  BY <1>6, ConnectedInv
<1>7. CASE RadioStateChanged
  BY <1>7, StateInv
<1>8. CASE SwitchTests
  BY <1>8, SwitchTestsInv
<1>9. CASE SwitchSends
  BY <1>9, SwitchSendsInv
<1>10. CASE SwitchClears
  BY <1>10, SwitchClearsInv
<1>11. CASE SwitchToRadioState
  BY <1>11, SwitchedInv
<1>12. CASE UNCHANGED radioVars
  BY <1>12, StutterInv
<1> QED
  BY <1>1, <1>2, <1>3, <1>4, <1>5, <1>6, <1>7, <1>8, <1>9, <1>10, <1>11, <1>12 DEF RadioNext

\* The invariant, over the caller and the receiver thread
\* (SamsungU8500RIL.java:391-669, 886-932).
THEOREM Invariance == RadioSpec => []IInv
  BY InitInv, NextInv, PTL DEF RadioSpec

\* Each message is answered once and truly, or is where the code shows that it
\* cannot be (SamsungU8500RIL.java:391-669, 886-932).
THEOREM RequestsSettled == RadioSpec => []RequestsAreSettled
  BY Invariance, Settled, PTL

-----------------------------------------------------------------------------
(* The parcels *)

\* A set of numbers that is not empty has a least one.
LEMMA HasLeast ==
  ASSUME NEW T \in SUBSET Nat, T # {}
  PROVE  \E x \in T : \A y \in T : x <= y
<1>1. PICK x \in T : \A y \in T : ~(<<y, x>> \in OpToRel(<, Nat))
  BY NatLessThanWellFounded, WFMin
<1>2. ASSUME NEW y \in T PROVE x <= y
  <2>1. ~(y < x)
    BY <1>1 DEF OpToRel
  <2> QED
    BY <2>1
<1> QED
  BY <1>2

\* One sequence after the other.
Cat(a, b) == a \o b

LEMMA CatParts ==
  ASSUME NEW s, NEW a \in Seq(s), NEW b \in Seq(s)
  PROVE  /\ Cat(a, b) \in Seq(s) /\ Len(Cat(a, b)) = Len(a) + Len(b)
         /\ Len(a) \in Nat /\ Len(b) \in Nat
         /\ \A k \in 1..Len(a) : Cat(a, b)[k] = a[k]
         /\ \A k \in 1..Len(b) : Cat(a, b)[Len(a) + k] = b[k]
BY DEF Cat

\* f is the first n of the parts, one after the other.
Joins(f, parts, n) == f = [i \in 0..n |-> IF i = 0 THEN << >> ELSE Cat(f[i - 1], parts[i])]

LEMMA JoinBegins ==
  ASSUME NEW parts, NEW n \in Nat
  PROVE  \E f : Joins(f, parts, n)
<1> DEFINE Bad == {k \in Nat : ~\E f : Joins(f, parts, k)}
<1>1. SUFFICES ASSUME Bad # {} PROVE FALSE
  OBVIOUS
<1>2. PICK x \in Bad : \A y \in Bad : x <= y
  <2>1. Bad \in SUBSET Nat
    OBVIOUS
  <2> HIDE DEF Bad
  <2> QED
    BY <1>1, <2>1, HasLeast
<1>3. CASE x = 0
  <2>1. Joins([k \in 0..0 |-> << >>], parts, 0)
    BY DEF Joins
  <2> QED
    BY <1>2, <1>3, <2>1
<1>4. CASE x # 0
  <2>1. x - 1 \in Nat /\ x - 1 \notin Bad
    BY <1>2, <1>4
  <2>2. PICK f : Joins(f, parts, x - 1)
    BY <2>1
  <2> DEFINE g == [i \in 0..x |-> IF i = 0 THEN << >> ELSE Cat(f[i - 1], parts[i])]
  <2>3. \A k \in 0..(x - 1) : g[k] = f[k]
    BY <2>1, <2>2 DEF Joins
  <2>4. g = [i \in 0..x |-> IF i = 0 THEN << >> ELSE Cat(g[i - 1], parts[i])]
    <3>1. \A k \in 0..x : k = 0 \/ k - 1 \in 0..(x - 1)
      BY <2>1
    <3>2. \A k \in 0..x : k # 0 => g[k - 1] = f[k - 1]
      BY <2>3, <3>1
    <3> QED
      BY <3>2
  <2> QED
    BY <1>2, <2>4 DEF Joins
<1> QED
  BY <1>3, <1>4

\* The joined parts: f says where each of them begins.
Layout(f, parts, n, s) ==
  f[0] = << >> /\ f[n] = AllOf(parts) /\ \A i \in 1..n : f[i - 1] \in Seq(s) /\ f[i] = Cat(f[i - 1], parts[i])

LEMMA AllJoined ==
  ASSUME NEW s, NEW n \in Nat, NEW parts \in [1..n -> Seq(s)]
  PROVE  /\ \E f : Layout(f, parts, n, s)
         /\ AllOf(parts) \in Seq(s)
<1> DEFINE f == CHOOSE f : Joins(f, parts, n)
<1>1. Len(parts) = n
  OBVIOUS
<1>2. Joins(f, parts, n)
  BY JoinBegins
<1>3. f[n] = AllOf(parts)
  BY <1>1 DEF AllOf, Joins, Cat
<1> HIDE DEF f
<1>4. f[0] = << >> /\ \A i \in 1..n : f[i] = Cat(f[i - 1], parts[i])
  BY <1>2 DEF Joins
<1> DEFINE Bad == {k \in 0..n : f[k] \notin Seq(s)}
<1>5. Bad = {}
  <2> SUFFICES ASSUME Bad # {} PROVE FALSE
    OBVIOUS
  <2>1. PICK x \in Bad : \A y \in Bad : x <= y
    <3>1. Bad \in SUBSET Nat
      OBVIOUS
    <3> HIDE DEF Bad
    <3> QED
      BY <3>1, HasLeast
  <2>2. x \in 1..n
    <3>1. f[0] \in Seq(s)
      BY <1>4
    <3> QED
      BY <2>1, <3>1
  <2>3. x - 1 \in 0..n /\ x - 1 \notin Bad
    BY <2>1, <2>2
  <2>4. f[x - 1] \in Seq(s) /\ parts[x] \in Seq(s)
    BY <2>2, <2>3
  <2>5. f[x] \in Seq(s)
    BY <1>4, <2>2, <2>4, CatParts
  <2> QED
    BY <2>1, <2>5
<1>6. \A i \in 1..n : f[i - 1] \in Seq(s)
  BY <1>5
<1>7. Layout(f, parts, n, s)
  BY <1>3, <1>4, <1>6 DEF Layout
<1>8. f[n] \in Seq(s)
  BY <1>5
<1> QED
  BY <1>3, <1>7, <1>8

\* What comes first in the joined parts stays there.
LEMMA PrefixStays ==
  ASSUME NEW s, NEW n \in Nat, NEW parts \in [1..n -> Seq(s)], NEW f, Layout(f, parts, n, s), NEW i \in 0..n
  PROVE  /\ f[i] \in Seq(s) /\ AllOf(parts) \in Seq(s)
         /\ Len(f[i]) <= Len(AllOf(parts))
         /\ \A k \in 1..Len(f[i]) : AllOf(parts)[k] = f[i][k]
<1>1. ASSUME NEW j \in 0..n PROVE f[j] \in Seq(s)
  <2>1. CASE j = n
    BY <2>1, AllJoined DEF Layout
  <2>2. CASE j # n
    <3>1. j + 1 \in 1..n /\ (j + 1) - 1 = j
      BY <2>2
    <3> QED
      BY <3>1 DEF Layout
  <2> QED
    BY <2>1, <2>2
<1> DEFINE Keeps(j) == Len(f[i]) <= Len(f[j]) /\ \A k \in 1..Len(f[i]) : f[j][k] = f[i][k]
           Bad == {j \in i..n : ~Keeps(j)}
<1>2. Bad = {}
  <2> SUFFICES ASSUME Bad # {} PROVE FALSE
    OBVIOUS
  <2>1. PICK x \in Bad : \A y \in Bad : x <= y
    <3>1. Bad \in SUBSET Nat
      OBVIOUS
    <3> HIDE DEF Bad
    <3> QED
      BY <3>1, HasLeast
  <2>2. Keeps(i)
    BY <1>1
  <2>3. x # i /\ x \in 1..n
    BY <2>1, <2>2
  <2>4. x - 1 \in i..n /\ x - 1 \notin Bad /\ x - 1 \in 0..n
    BY <2>1, <2>3
  <2>5. Keeps(x - 1)
    BY <2>4
  <2>6. f[x] = Cat(f[x - 1], parts[x]) /\ parts[x] \in Seq(s) /\ f[x - 1] \in Seq(s) /\ f[i] \in Seq(s)
    BY <1>1, <2>3, <2>4 DEF Layout
  <2>7. Len(f[x]) >= Len(f[x - 1]) /\ \A k \in 1..Len(f[x - 1]) : f[x][k] = f[x - 1][k]
    <3> DEFINE a == f[x - 1]
               b == parts[x]
    <3>1. a \in Seq(s) /\ b \in Seq(s) /\ f[x] = Cat(a, b)
      BY <2>6
    <3> HIDE DEF a, b
    <3>2. Len(f[x]) >= Len(a) /\ \A k \in 1..Len(a) : f[x][k] = a[k]
      <4>1. /\ Len(Cat(a, b)) = Len(a) + Len(b) /\ Len(a) \in Nat /\ Len(b) \in Nat
            /\ \A k \in 1..Len(a) : Cat(a, b)[k] = a[k]
        BY <3>1, CatParts
      <4> QED
        BY <3>1, <4>1
    <3> QED
      BY <3>2 DEF a
  <2>8. Len(f[i]) \in Nat /\ Len(f[x - 1]) \in Nat /\ Len(f[x]) \in Nat
    BY <1>1, <2>3, <2>4
  <2>9. Keeps(x)
    BY <2>5, <2>7, <2>8
  <2> QED
    BY <2>1, <2>9
<1>3. Keeps(n)
  <2>1. n \in i..n
    OBVIOUS
  <2>2. n \notin Bad
    BY <1>2
  <2> QED
    BY <2>1, <2>2
<1> QED
  BY <1>1, <1>3 DEF Layout

\* Each part is where the parts before it end.
LEMMA PartInPlace ==
  ASSUME NEW s, NEW n \in Nat, NEW parts \in [1..n -> Seq(s)], NEW f, Layout(f, parts, n, s), NEW i \in 1..n,
         parcel = AllOf(parts), position = Len(f[i - 1]) + 1
  PROVE  InPlace(parts[i]) /\ position + Len(parts[i]) = Len(f[i]) + 1
<1> DEFINE a == f[i - 1]
           b == parts[i]
           all == AllOf(parts)
<1>1. a \in Seq(s) /\ b \in Seq(s) /\ f[i] = Cat(a, b)
  BY DEF Layout
<1>2. all \in Seq(s) /\ Len(f[i]) <= Len(all) /\ \A k \in 1..Len(f[i]) : all[k] = f[i][k]
  <2>1. i \in 0..n
    OBVIOUS
  <2> QED
    BY <2>1, PrefixStays
<1> HIDE DEF a, b, all
<1>3. Len(f[i]) = Len(a) + Len(b)
  BY <1>1, CatParts
<1>4. SubSeq(all, Len(a) + 1, Len(a) + Len(b)) = b
  <2> DEFINE sub == SubSeq(all, Len(a) + 1, Len(a) + Len(b))
  <2>1. Len(a) \in Nat /\ Len(b) \in Nat
    BY <1>1
  <2>2. sub \in Seq(s) /\ Len(sub) = Len(b)
    BY <1>2, <1>3, <2>1
  <2>3. ASSUME NEW k \in 1..Len(b) PROVE sub[k] = b[k]
    <3>1. sub[k] = all[Len(a) + k]
      BY <1>2, <1>3, <2>1
    <3>2. all[Len(a) + k] = f[i][Len(a) + k]
      BY <1>2, <1>3, <2>1
    <3>3. f[i][Len(a) + k] = b[k]
      BY <1>1, CatParts
    <3> QED
      BY <3>1, <3>2, <3>3
  <2> HIDE DEF sub
  <2>4. sub = b
    BY <1>1, <2>2, <2>3, SeqEqual
  <2> QED
    BY <2>4 DEF sub
<1>5. InPlace(b)
  <2>1. position = Len(a) + 1 /\ parcel = all
    BY DEF a, all
  <2>2. position + Len(b) - 1 = Len(a) + Len(b)
    <3>1. \A p, x, y \in Nat : p = x + 1 => p + y - 1 = x + y
      OBVIOUS
    <3>2. Len(a) \in Nat /\ Len(b) \in Nat
      BY <1>1
    <3>3. position \in Nat
      BY <2>1, <3>2
    <3> QED
      BY <2>1, <3>1, <3>2, <3>3, Zenon
  <2>3. SubSeq(parcel, position, position + Len(b) - 1) = b
    BY <1>4, <2>1, <2>2
  <2> QED
    BY <2>3 DEF InPlace
<1> QED
  BY <1>1, <1>3, <1>5 DEF a, b

\* The calls that come before call i when they are sorted, and itself.
Ahead(s, i) == {k \in 1..Len(s) : s[k].index < s[i].index \/ (s[k].index = s[i].index /\ k <= i)}

\* The call that comes to place j.
At(s, j) == CHOOSE i \in 1..Len(s) : Rank(s, i) = j

\* A sequence of calls, whatever else they have.
Indexed(s) == Len(s) \in Nat /\ \A i \in 1..Len(s) : s[i].index \in Int

LEMMA AheadFinite ==
  ASSUME NEW s, Indexed(s), NEW i \in 1..Len(s)
  PROVE  /\ IsFiniteSet(Ahead(s, i)) /\ Rank(s, i) = Cardinality(Ahead(s, i)) /\ i \in Ahead(s, i)
         /\ Rank(s, i) \in 1..Len(s)
<1>1. Len(s) \in Nat /\ s[i].index \in Int
  BY DEF Indexed
<1>2. Ahead(s, i) \in SUBSET (1..Len(s)) /\ i \in Ahead(s, i)
  BY <1>1 DEF Ahead
<1>3. IsFiniteSet(1..Len(s)) /\ Cardinality(1..Len(s)) = Len(s)
  <2>1. ASSUME NEW n \in Nat PROVE IsFiniteSet(1..n) /\ Cardinality(1..n) = n
    BY FS_Interval
  <2> QED
    BY <1>1, <2>1
<1>4. IsFiniteSet(Ahead(s, i)) /\ Cardinality(Ahead(s, i)) <= Len(s)
  BY <1>2, <1>3, FS_Subset
<1>5. Cardinality(Ahead(s, i)) \in Nat /\ Cardinality(Ahead(s, i)) # 0
  BY <1>2, <1>4, FS_CardinalityType, FS_EmptySet
<1>6. Rank(s, i) = Cardinality(Ahead(s, i))
  BY DEF Rank, Ahead
<1> QED
  BY <1>1, <1>2, <1>4, <1>5, <1>6

\* A call with a smaller index, or an equal one before it, has a smaller rank.
LEMMA RankOrders ==
  ASSUME NEW s, Indexed(s), NEW i \in 1..Len(s), NEW k \in 1..Len(s),
         s[i].index < s[k].index \/ (s[i].index = s[k].index /\ i < k)
  PROVE  Rank(s, i) < Rank(s, k)
<1>1. \A j \in 1..Len(s) : s[j].index \in Int /\ j \in Int
  BY DEF Indexed
<1>2. Ahead(s, i) \in SUBSET Ahead(s, k)
  BY <1>1 DEF Ahead
<1>3. k \in Ahead(s, k) /\ k \notin Ahead(s, i)
  BY <1>1 DEF Ahead
<1>4. /\ IsFiniteSet(Ahead(s, k)) /\ Rank(s, k) = Cardinality(Ahead(s, k)) /\ Rank(s, i) = Cardinality(Ahead(s, i))
      /\ Rank(s, i) \in 1..Len(s) /\ Rank(s, k) \in 1..Len(s)
  BY AheadFinite
<1>5. Cardinality(Ahead(s, i)) <= Cardinality(Ahead(s, k)) /\ Cardinality(Ahead(s, i)) # Cardinality(Ahead(s, k))
  BY <1>2, <1>3, <1>4, FS_Subset
<1>6. Len(s) \in Nat
  BY DEF Indexed
<1> QED
  BY <1>4, <1>5, <1>6

LEMMA RankDiffers ==
  ASSUME NEW s, Indexed(s), NEW i \in 1..Len(s), NEW k \in 1..Len(s), i # k
  PROVE  Rank(s, i) # Rank(s, k)
<1>1. /\ s[i].index \in Int /\ s[k].index \in Int /\ i \in Int /\ k \in Int
      /\ Rank(s, i) \in Int /\ Rank(s, k) \in Int
  BY AheadFinite DEF Indexed
<1>2. \/ s[i].index < s[k].index \/ (s[i].index = s[k].index /\ i < k)
      \/ s[k].index < s[i].index \/ (s[k].index = s[i].index /\ k < i)
  BY <1>1
<1>3. Rank(s, i) < Rank(s, k) \/ Rank(s, k) < Rank(s, i)
  BY <1>2, RankOrders
<1> QED
  BY <1>1, <1>3

\* Every place is taken by one call.
LEMMA PlaceTaken ==
  ASSUME NEW s, Indexed(s), NEW j \in 1..Len(s)
  PROVE  At(s, j) \in 1..Len(s) /\ Rank(s, At(s, j)) = j
<1> DEFINE r == [i \in 1..Len(s) |-> Rank(s, i)]
<1>1. Len(s) \in Nat /\ IsFiniteSet(1..Len(s))
  BY FS_Interval DEF Indexed
<1>2. r \in [1..Len(s) -> 1..Len(s)]
  BY AheadFinite
<1>3. \A i, k \in 1..Len(s) : r[i] = r[k] => i = k
  BY RankDiffers
<1>4. r \in Injection(1..Len(s), 1..Len(s))
  BY <1>2, <1>3 DEF Injection, IsInjective
<1>5. r \in Surjection(1..Len(s), 1..Len(s))
  BY <1>1, <1>4, FS_Injection
<1>6. \E i \in 1..Len(s) : r[i] = j
  BY <1>5 DEF Surjection
<1>7. \E i \in 1..Len(s) : Rank(s, i) = j
  BY <1>6
<1> QED
  BY <1>7 DEF At

\* The places of the calls with one index, before and after.
Having(s, x) == {i \in 1..Len(s) : s[i].index = x}

\* Collections.sort: the same calls, in the order of their indexes.
LEMMA SortedOrder ==
  ASSUME NEW s, Indexed(s)
  PROVE  /\ Len(Sorted(s)) = Len(s) /\ DOMAIN Sorted(s) = 1..Len(s)
         /\ \A j \in 1..Len(s) : At(s, j) \in 1..Len(s) /\ Sorted(s)[j] = s[At(s, j)]
         /\ \A j \in 1..(Len(s) - 1) : Sorted(s)[j].index <= Sorted(s)[j + 1].index
         /\ \A x : Cardinality(Having(Sorted(s), x)) = Cardinality(Having(s, x))
<1>1. Len(s) \in Nat
  BY DEF Indexed
<1>2. Sorted(s) = [j \in 1..Len(s) |-> s[At(s, j)]]
  BY DEF Sorted, At
<1>3. Len(Sorted(s)) = Len(s) /\ DOMAIN Sorted(s) = 1..Len(s)
  BY <1>1, <1>2
<1>4. \A j \in 1..Len(s) : At(s, j) \in 1..Len(s) /\ Sorted(s)[j] = s[At(s, j)]
  BY <1>2, PlaceTaken
<1>5. ASSUME NEW j \in 1..(Len(s) - 1) PROVE Sorted(s)[j].index <= Sorted(s)[j + 1].index
  <2> DEFINE i == At(s, j)
             k == At(s, j + 1)
  <2>1. j \in 1..Len(s) /\ j + 1 \in 1..Len(s)
    BY <1>1
  <2>2. i \in 1..Len(s) /\ k \in 1..Len(s) /\ Rank(s, i) = j /\ Rank(s, k) = j + 1
    BY <2>1, PlaceTaken
  <2>3. Sorted(s)[j] = s[i] /\ Sorted(s)[j + 1] = s[k]
    BY <1>4, <2>1
  <2> HIDE DEF i, k
  <2>4. s[i].index \in Int /\ s[k].index \in Int
    BY <2>2 DEF Indexed
  <2>5. ~(s[k].index < s[i].index)
    <3> SUFFICES ASSUME s[k].index < s[i].index PROVE FALSE
      OBVIOUS
    <3>1. Rank(s, k) < Rank(s, i)
      BY <2>2, RankOrders
    <3> QED
      BY <2>1, <2>2, <3>1
  <2> QED
    BY <2>3, <2>4, <2>5
<1>6. ASSUME NEW x PROVE Cardinality(Having(Sorted(s), x)) = Cardinality(Having(s, x))
  <2> DEFINE S == Having(s, x)
             T == Having(Sorted(s), x)
             r == [i \in S |-> Rank(s, i)]
  <2>1. ASSUME NEW i \in 1..Len(s) PROVE Rank(s, i) \in 1..Len(s) /\ At(s, Rank(s, i)) = i
    <3>1. Rank(s, i) \in 1..Len(s)
      BY AheadFinite
    <3>2. At(s, Rank(s, i)) \in 1..Len(s) /\ Rank(s, At(s, Rank(s, i))) = Rank(s, i)
      BY <3>1, PlaceTaken
    <3> QED
      BY <3>1, <3>2, RankDiffers
  <2>2. \A i \in 1..Len(s) : i \in S <=> Rank(s, i) \in T
    BY <1>3, <1>4, <2>1 DEF Having
  <2>3. r \in [S -> T]
    BY <2>2 DEF Having
  <2>4. \A i, k \in S : r[i] = r[k] => i = k
    BY RankDiffers DEF Having
  <2>5. \A j \in T : \E i \in S : r[i] = j
    <3> SUFFICES ASSUME NEW j \in T PROVE \E i \in S : r[i] = j
      OBVIOUS
    <3>1. j \in 1..Len(s)
      BY <1>3 DEF Having
    <3>2. At(s, j) \in 1..Len(s) /\ Rank(s, At(s, j)) = j
      BY <3>1, PlaceTaken
    <3>3. At(s, j) \in S
      BY <2>2, <3>2
    <3> QED
      BY <3>2, <3>3
  <2>6. r \in Bijection(S, T)
    <3> HIDE DEF S, T, r
    <3> QED
      BY <2>3, <2>4, <2>5 DEF Bijection, Injection, Surjection, IsInjective
  <2>7. ExistsBijection(S, T)
    BY <2>6 DEF ExistsBijection
  <2>8. IsFiniteSet(S)
    <3>1. S \in SUBSET (1..Len(s)) /\ IsFiniteSet(1..Len(s))
      BY <1>1, FS_Interval DEF Having
    <3> QED
      BY <3>1, FS_Subset
  <2> QED
    BY <2>7, <2>8, FS_Bijection
<1> QED
  BY <1>3, <1>4, <1>5, <1>6

\* What rild has to tell of a call and of a data call, and the fields of either.
CallType == [index : Indexes, uus : {"none", "data", "null"}, odd : BOOLEAN]
DataType == [failed : BOOLEAN, ifname : BOOLEAN, addresses : BOOLEAN]
Names == {"state", "index", "TOA", "isMpty", "isMT", "als", "isVoice", "isVideo", "isVoicePrivacy",
          "number", "np", "name", "namePresentation", "uusInfoPresent", "type", "dcs", "userData",
          "status", "suggestedRetryTime", "cid", "active", "apn", "ifname", "addresses", "dnses", "gateways",
          "pcscf", "mtu"}
Fields == Names \X Nat

LEMMA OfTyped ==
  ASSUME NEW names \in Seq(Names), NEW i \in Nat
  PROVE  Of(names, i) \in Seq(Fields)
BY DEF Of, Fields

LEMMA CallFields ==
  ASSUME NEW i \in Nat
  PROVE  Of(CallNames, i) \in Seq(Fields) /\ Of(UusNames, i) \in Seq(Fields)
<1>1. CallNames \in Seq(Names)
  BY DEF CallNames, Names
<1>2. UusNames \in Seq(Names)
  BY DEF UusNames, Names
<1> QED
  BY <1>1, <1>2, OfTyped

LEMMA ShortNames ==
  /\ <<"apn">> \in Seq(Names) /\ <<"status">> \in Seq(Names) /\ <<"suggestedRetryTime">> \in Seq(Names)
  /\ <<"status", "suggestedRetryTime">> \in Seq(Names)
  /\ <<"pcscf">> \in Seq(Names) /\ <<"mtu">> \in Seq(Names) /\ <<"pcscf", "mtu">> \in Seq(Names)
  /\ << >> \in Seq(Names)
BY DEF Names

LEMMA ShortCat ==
  ASSUME NEW s, NEW a \in s, NEW b \in s
  PROVE  /\ <<a>> \o <<b>> = <<a, b>>
         /\ <<a>> \o << >> = <<a>>
         /\ << >> \o << >> = << >>
<1>1. <<a>> \in Seq(s) /\ <<b>> \in Seq(s) /\ <<a, b>> \in Seq(s) /\ << >> \in Seq(s)
  OBVIOUS
<1>2. <<a>> \o << >> = <<a>> /\ << >> \o << >> = << >>
  BY <1>1, ConcatEmptySeq, Zenon
<1> DEFINE x == <<a>> \o <<b>>
           y == <<a, b>>
<1>3. x \in Seq(s) /\ Len(x) = 2 /\ x[1] = a /\ x[2] = b
  BY <1>1
<1>4. y \in Seq(s) /\ Len(y) = 2 /\ y[1] = a /\ y[2] = b
  BY <1>1
<1> HIDE DEF x, y
<1>5. \A i \in 1..Len(x) : x[i] = y[i]
  <2>1. \A i \in 1..2 : i = 1 \/ i = 2
    OBVIOUS
  <2> QED
    BY <1>3, <1>4, <2>1
<1>6. x = y
  BY <1>3, <1>4, <1>5, SeqEqual
<1> QED
  BY <1>2, <1>6 DEF x, y

\* What rild of any version writes is what the class reads of it.
LEMMA DataFields ==
  ASSUME NEW f, f.version \in Nat
  PROVE  DataReads(f) = DataNames(f) /\ DataNames(f) \in Seq(Names)
<1>1. CASE f.version < 5
  <2> DEFINE a == <<"cid", "active", "type">>
             b == IF f.version < 4 \/ f.apn THEN <<"apn">> ELSE << >>
             c == <<"addresses">>
  <2>1. a \in Seq(Names) /\ c \in Seq(Names)
    BY DEF Names
  <2>2. b \in Seq(Names)
    BY ShortNames, Zenon
  <2>3. DataNames(f) = a \o b \o c /\ DataReads(f) = a \o b \o c
    BY <1>1 DEF DataNames, DataReads
  <2> HIDE DEF a, b, c
  <2> QED
    BY <2>1, <2>2, <2>3
<1>2. CASE ~(f.version < 5)
  <2> DEFINE h == IF f.hcradio THEN <<"status">> ELSE <<"status", "suggestedRetryTime">>
             a == <<"cid", "active", "type", "ifname", "addresses", "dnses", "gateways">>
             w == IF f.version >= 11 THEN <<"pcscf", "mtu">> ELSE IF f.version = 10 THEN <<"pcscf">> ELSE << >>
             p == IF f.version >= 10 THEN <<"pcscf">> ELSE << >>
             m == IF f.version >= 11 THEN <<"mtu">> ELSE << >>
  <2>1. h \in Seq(Names)
    BY ShortNames, Zenon
  <2>2. a \in Seq(Names)
    BY DEF Names
  <2>3. w \in Seq(Names) /\ p \in Seq(Names) /\ m \in Seq(Names)
    BY ShortNames, Zenon
  <2>4. <<"status">> \o (IF f.hcradio THEN << >> ELSE <<"suggestedRetryTime">>) = h
    <3>1. <<"status">> \o << >> = <<"status">> /\ <<"status">> \o <<"suggestedRetryTime">> = <<"status", "suggestedRetryTime">>
      <4>1. "status" \in Names /\ "suggestedRetryTime" \in Names
        BY DEF Names
      <4> QED
        BY <4>1, ShortCat, Zenon
    <3>2. CASE f.hcradio
      BY <3>1, <3>2, Zenon
    <3>3. CASE ~f.hcradio
      BY <3>1, <3>3, Zenon
    <3> QED
      BY <3>2, <3>3
  <2>5. w = p \o m
    <3>1. <<"pcscf">> \o <<"mtu">> = <<"pcscf", "mtu">> /\ <<"pcscf">> \o << >> = <<"pcscf">> /\ << >> \o << >> = << >>
      <4>1. "pcscf" \in Names /\ "mtu" \in Names
        BY DEF Names
      <4> QED
        BY <4>1, ShortCat, Zenon
    <3>2. \/ f.version >= 11 /\ f.version >= 10
          \/ ~(f.version >= 11) /\ f.version >= 10 /\ f.version = 10
          \/ ~(f.version >= 11) /\ ~(f.version >= 10) /\ f.version # 10
      OBVIOUS
    <3> QED
      BY <3>1, <3>2, Zenon
  <2>6. DataNames(f) = h \o a \o w
    BY <1>2 DEF DataNames
  <2>7. DataReads(f) = (h \o a) \o p \o m
    BY <1>2, <2>4 DEF DataReads
  <2> HIDE DEF h, a, w, p, m
  <2>8. (h \o a) \o (p \o m) = (h \o a) \o p \o m
    <3> DEFINE g == h \o a
    <3>1. g \in Seq(Names)
      BY <2>1, <2>2
    <3> HIDE DEF g
    <3>2. g \o (p \o m) = (g \o p) \o m
      BY <2>3, <3>1
    <3> QED
      BY <3>2 DEF g
  <2>9. h \o a \o w \in Seq(Names)
    <3>1. h \o a \in Seq(Names)
      BY <2>1, <2>2
    <3> QED
      BY <2>3, <3>1
  <2> QED
    BY <2>5, <2>6, <2>7, <2>8, <2>9
<1> QED
  BY <1>1, <1>2

\* pos is where the part after the k-th begins.
Located(parts, n, pos, k) == \E f : Layout(f, parts, n, Fields) /\ pos = Len(f[k]) + 1

LEMMA LocatedFirst ==
  ASSUME NEW n \in Nat, NEW parts \in [1..n -> Seq(Fields)]
  PROVE  Located(parts, n, 1, 0)
<1>1. PICK f : Layout(f, parts, n, Fields)
  BY AllJoined
<1>2. Len(f[0]) = 0
  BY <1>1 DEF Layout
<1> QED
  BY <1>1, <1>2 DEF Located

LEMMA LocatedNext ==
  ASSUME NEW n \in Nat, NEW parts \in [1..n -> Seq(Fields)], NEW i \in 1..n,
         parcel = AllOf(parts), Located(parts, n, position, i - 1)
  PROVE  InPlace(parts[i]) /\ Located(parts, n, position + Len(parts[i]), i)
<1>1. PICK f : Layout(f, parts, n, Fields) /\ position = Len(f[i - 1]) + 1
  BY DEF Located
<1>2. InPlace(parts[i]) /\ position + Len(parts[i]) = Len(f[i]) + 1
  BY <1>1, PartInPlace, Zenon
<1> QED
  BY <1>1, <1>2 DEF Located

LEMMA LocatedLast ==
  ASSUME NEW n, NEW parts, NEW pos, Located(parts, n, pos, n)
  PROVE  pos = Len(AllOf(parts)) + 1
BY DEF Located, Layout

\* The fields of each call and of each data call.
CallParts(calls) ==
  [i \in 1..Len(calls) |-> Of(CallNames, i) \o (IF calls[i].uus = "none" THEN << >> ELSE Of(UusNames, i))]
DataParts(calls, f) == [i \in 1..Len(calls) |-> Of(DataNames(f), i)]

LEMMA PartsTyped ==
  ASSUME NEW calls, Len(calls) \in Nat, NEW f, f.version \in Nat
  PROVE  /\ CallParts(calls) \in [1..Len(calls) -> Seq(Fields)]
         /\ DataParts(calls, f) \in [1..Len(calls) -> Seq(Fields)]
<1>1. ASSUME NEW i \in 1..Len(calls)
      PROVE  Of(CallNames, i) \o (IF calls[i].uus = "none" THEN << >> ELSE Of(UusNames, i)) \in Seq(Fields)
  <2> DEFINE a == Of(CallNames, i)
             b == IF calls[i].uus = "none" THEN << >> ELSE Of(UusNames, i)
  <2>1. a \in Seq(Fields) /\ Of(UusNames, i) \in Seq(Fields) /\ << >> \in Seq(Fields)
    BY CallFields
  <2>2. b \in Seq(Fields)
    BY <2>1, Zenon
  <2> HIDE DEF a, b
  <2>3. a \o b \in Seq(Fields)
    BY <2>1, <2>2, ConcatProperties
  <2> QED
    BY <2>3 DEF a, b
<1>2. ASSUME NEW i \in 1..Len(calls) PROVE Of(DataNames(f), i) \in Seq(Fields)
  BY DataFields, OfTyped
<1> QED
  BY <1>1, <1>2 DEF CallParts, DataParts

RightCall == [index : Indexes, right : {TRUE}]
RightData == [right : {TRUE}, gateways : {"null", "addresses"}]

LEMMA RightOnes ==
  ASSUME NEW s \in Seq(RightCall) \cup Seq(RightData)
  PROVE  \A j \in DOMAIN s : s[j].right
<1> SUFFICES ASSUME NEW j \in DOMAIN s PROVE s[j].right
  OBVIOUS
<1>1. s[j] \in RightCall \/ s[j] \in RightData
  OBVIOUS
<1>2. s[j].right = TRUE
  BY <1>1 DEF RightCall, RightData
<1> QED
  BY <1>2

LEMMA IndexesOf ==
  ASSUME NEW s \in Seq(RightCall)
  PROVE  Indexed(s) /\ DOMAIN s = 1..Len(s)
<1>1. Len(s) \in Nat /\ DOMAIN s = 1..Len(s)
  OBVIOUS
<1>2. ASSUME NEW j \in 1..Len(s) PROVE s[j].index \in Int
  <2>1. s[j] \in RightCall
    OBVIOUS
  <2>2. s[j].index \in Indexes
    BY <2>1 DEF RightCall
  <2> QED
    <3>1. \A x \in Indexes : x \in Int
      BY ParcelAssumption
    <3> QED
      BY <2>2, <3>1, Zenon
<1> QED
  BY <1>1, <1>2 DEF Indexed

\* In the loops: what has been read is right, and the position is the end of it.
CallsInv ==
  reading = "calls" =>
    /\ told \in Seq(CallType) /\ heard \in Seq(RightCall) /\ Len(heard) <= Len(told) /\ thrown = FALSE
    /\ \A i \in 1..Len(heard) : heard[i].index = told[i].index /\ ~Throws(told[i])
    /\ parcel = AllOf(CallParts(told))
    /\ Located(CallParts(told), Len(told), position, Len(heard))
DataInv ==
  reading = "data" =>
    /\ told \in Seq(DataType) /\ heard \in Seq(RightData) /\ Len(heard) <= Len(told) /\ thrown = FALSE
    /\ form.version \in Nat
    /\ \A i \in 1..Len(heard) : ~NoIfname(told[i])
    /\ parcel = AllOf(DataParts(told, form))
    /\ Located(DataParts(told, form), Len(told), position, Len(heard))
StartInv == reading = "none" => position = 1 /\ heard = << >> /\ thrown = FALSE
ParcelInv == StartInv /\ CallsInv /\ DataInv /\ ParcelsAreReadRight

LEMMA ParcelInitInv ==
  ASSUME ParcelInit PROVE ParcelInv
BY DEF ParcelInit, ParcelInv, StartInv, CallsInv, DataInv, ParcelsAreReadRight, FieldsInPlace, CallsAreComplete,
       DataCallsAreComplete, UnknownIsNotGood

LEMMA CallsReceived ==
  ASSUME ParcelInv, ReceiveCalls PROVE ParcelInv'
<1>1. PICK n \in 0..MaxCalls : \E calls \in [1..n -> CallType] :
        Receive("calls", calls, NoForm,
                AllOf([i \in 1..n |-> Of(CallNames, i) \o (IF calls[i].uus = "none" THEN << >> ELSE Of(UusNames, i))]))
  BY DEF ReceiveCalls, CallType
<1>2. PICK calls \in [1..n -> CallType] :
        Receive("calls", calls, NoForm,
                AllOf([i \in 1..n |-> Of(CallNames, i) \o (IF calls[i].uus = "none" THEN << >> ELSE Of(UusNames, i))]))
  BY <1>1
<1>3. n \in Nat /\ Len(calls) = n /\ calls \in Seq(CallType)
  BY ParcelAssumption
<1>4. Receive("calls", calls, NoForm, AllOf(CallParts(calls)))
  BY <1>2, <1>3 DEF CallParts
<1>5. /\ reading' = "calls" /\ told' = calls /\ parcel' = AllOf(CallParts(calls))
      /\ position' = 1 /\ heard' = << >> /\ thrown' = FALSE
  BY <1>4 DEF Receive, ParcelInv, StartInv
<1>6. Located(CallParts(calls), n, 1, 0)
  <2>1. NoForm.version \in Nat
    BY DEF NoForm
  <2>2. CallParts(calls) \in [1..n -> Seq(Fields)]
    BY <1>3, <2>1, PartsTyped
  <2> QED
    BY <1>3, <2>2, LocatedFirst
<1>7. CallsInv'
  <2>1. Len(heard') = 0 /\ heard' \in Seq(RightCall)
    BY <1>5
  <2> QED
    BY <1>3, <1>5, <1>6, <2>1 DEF CallsInv
<1>8. StartInv' /\ DataInv'
  BY <1>5 DEF StartInv, DataInv
<1>9. ParcelsAreReadRight'
  BY <1>5 DEF ParcelsAreReadRight, FieldsInPlace, CallsAreComplete, DataCallsAreComplete, UnknownIsNotGood
<1> QED
  BY <1>7, <1>8, <1>9 DEF ParcelInv

LEMMA DataReceived ==
  ASSUME ParcelInv, ReceiveDataCalls PROVE ParcelInv'
<1>1. PICK f \in [version : DataVersions, apn : BOOLEAN, hcradio : BOOLEAN], n \in 0..MaxCalls :
        \E calls \in [1..n -> DataType] : Receive("data", calls, f, AllOf([i \in 1..n |-> Of(DataNames(f), i)]))
  BY DEF ReceiveDataCalls, DataType
<1>2. PICK calls \in [1..n -> DataType] : Receive("data", calls, f, AllOf([i \in 1..n |-> Of(DataNames(f), i)]))
  BY <1>1
<1>3. n \in Nat /\ Len(calls) = n /\ calls \in Seq(DataType) /\ f.version \in Nat
  <2>1. n \in Nat
    BY ParcelAssumption
  <2>2. f.version \in DataVersions
    OBVIOUS
  <2>3. f.version \in Nat
    BY <2>2, ParcelAssumption
  <2> QED
    BY <2>1, <2>3
<1>4. Receive("data", calls, f, AllOf(DataParts(calls, f)))
  BY <1>2, <1>3 DEF DataParts
<1>5. /\ reading' = "data" /\ told' = calls /\ form' = f /\ parcel' = AllOf(DataParts(calls, f))
      /\ position' = 1 /\ heard' = << >> /\ thrown' = FALSE
  BY <1>4 DEF Receive, ParcelInv, StartInv
<1>6. Located(DataParts(calls, f), n, 1, 0)
  <2>1. DataParts(calls, f) \in [1..n -> Seq(Fields)]
    BY <1>3, PartsTyped
  <2> QED
    BY <1>3, <2>1, LocatedFirst
<1>7. DataInv'
  <2>1. Len(heard') = 0 /\ heard' \in Seq(RightData)
    BY <1>5
  <2> QED
    BY <1>3, <1>5, <1>6, <2>1 DEF DataInv
<1>8. StartInv' /\ CallsInv'
  BY <1>5 DEF StartInv, CallsInv
<1>9. ParcelsAreReadRight'
  BY <1>5 DEF ParcelsAreReadRight, FieldsInPlace, CallsAreComplete, DataCallsAreComplete, UnknownIsNotGood
<1> QED
  BY <1>7, <1>8, <1>9 DEF ParcelInv

LEMMA CallRead ==
  ASSUME ParcelInv, ReadCall PROVE ParcelInv'
<1> DEFINE i == Len(heard) + 1
           n == Len(told)
           parts == CallParts(told)
<1>1. /\ reading = "calls" /\ Len(heard) < n /\ told \in Seq(CallType) /\ heard \in Seq(RightCall) /\ thrown = FALSE
      /\ \A j \in 1..Len(heard) : heard[j].index = told[j].index /\ ~Throws(told[j])
      /\ parcel = AllOf(parts) /\ Located(parts, n, position, Len(heard))
      /\ told' = told /\ form' = form /\ parcel' = parcel
  BY DEF ParcelInv, CallsInv, ReadCall
<1>2. n \in Nat /\ Len(heard) \in 0..n /\ i \in 1..n /\ told[i] \in CallType
  BY <1>1
<1>3. CASE Throws(told[i])
  <2>1. thrown' = TRUE /\ reading' = "CALLS" /\ heard' = heard /\ position' = position
    BY <1>3 DEF ReadCall
  <2>2. i \in DOMAIN told
    BY <1>1, <1>2
  <2>3. \A j \in DOMAIN heard : heard[j].right
    BY <1>1, RightOnes
  <2>4. ParcelsAreReadRight'
    BY <1>1, <1>3, <2>1, <2>2, <2>3
    DEF ParcelsAreReadRight, FieldsInPlace, CallsAreComplete, DataCallsAreComplete, UnknownIsNotGood
  <2> QED
    BY <2>1, <2>4 DEF ParcelInv, StartInv, CallsInv, DataInv
<1>4. CASE ~Throws(told[i])
  <2>1. parts \in [1..n -> Seq(Fields)]
    <3>1. NoForm.version \in Nat
      BY DEF NoForm
    <3> QED
      BY <1>2, <3>1, PartsTyped
  <2>2. parts[i] = CallReads(i)
    BY <1>2 DEF CallParts, CallReads
  <2>3. InPlace(CallReads(i)) /\ Located(parts, n, position + Len(CallReads(i)), i)
    <3>1. i - 1 = Len(heard)
      BY <1>2
    <3>2. Located(parts, n, position, i - 1) /\ parcel = AllOf(parts)
      BY <1>1, <3>1
    <3> HIDE DEF parts, i, n
    <3> QED
      BY <1>2, <2>1, <2>2, <3>2, LocatedNext
  <2>4. /\ heard' = Append(heard, [index |-> told[i].index, right |-> InPlace(CallReads(i))])
        /\ position' = position + Len(CallReads(i)) /\ thrown' = thrown /\ reading' = reading
    BY <1>4 DEF ReadCall
  <2>5. heard' = Append(heard, [index |-> told[i].index, right |-> TRUE])
    BY <2>3, <2>4
  <2>6. [index |-> told[i].index, right |-> TRUE] \in RightCall
    BY <1>2 DEF RightCall, CallType
  <2>7. heard' \in Seq(RightCall) /\ Len(heard') = i
    BY <1>1, <2>5, <2>6
  <2>8. \A j \in 1..Len(heard') : heard'[j].index = told[j].index /\ ~Throws(told[j])
    <3>1. \A j \in 1..Len(heard') : heard'[j].index = told[j].index
      BY <1>1, <1>2, <2>5, <2>6, <2>7
    <3>2. \A j \in 1..Len(heard') : ~Throws(told[j])
      <4>1. \A j \in 1..Len(heard') : j = i \/ j \in 1..Len(heard)
        BY <1>2, <2>7
      <4> HIDE DEF i
      <4> QED
        BY <1>1, <1>4, <4>1
    <3> QED
      BY <3>1, <3>2
  <2>9. CallsInv'
    <3>1. Located(parts, n, position', Len(heard'))
      BY <2>3, <2>4, <2>7
    <3> QED
      BY <1>1, <1>2, <2>4, <2>7, <2>8, <3>1 DEF CallsInv
  <2>10. ParcelsAreReadRight'
    <3>1. \A j \in DOMAIN heard' : heard'[j].right
      BY <2>7, RightOnes
    <3>2. reading' = "calls"
      BY <1>1, <2>4
    <3> QED
      BY <3>1, <3>2
      DEF ParcelsAreReadRight, FieldsInPlace, CallsAreComplete, DataCallsAreComplete, UnknownIsNotGood
  <2> QED
    BY <1>1, <2>4, <2>9, <2>10 DEF ParcelInv, StartInv, DataInv
<1> QED
  BY <1>3, <1>4

LEMMA CallsSorted ==
  ASSUME ParcelInv, SortCalls PROVE ParcelInv'
<1>1. /\ told \in Seq(CallType) /\ heard \in Seq(RightCall) /\ thrown = FALSE /\ Len(heard) = Len(told)
      /\ \A j \in 1..Len(heard) : heard[j].index = told[j].index /\ ~Throws(told[j])
      /\ parcel = AllOf(CallParts(told)) /\ Located(CallParts(told), Len(told), position, Len(heard))
  BY DEF ParcelInv, CallsInv, SortCalls
<1>2. /\ reading' = "CALLS" /\ heard' = Sorted(heard) /\ told' = told /\ form' = form /\ parcel' = parcel
      /\ position' = position /\ thrown' = thrown
  BY DEF SortCalls
<1>3. Indexed(heard) /\ DOMAIN heard = 1..Len(heard)
  BY <1>1, IndexesOf
<1>4. /\ Len(heard') = Len(heard) /\ DOMAIN heard' = 1..Len(heard)
      /\ \A j \in 1..Len(heard) : At(heard, j) \in 1..Len(heard) /\ heard'[j] = heard[At(heard, j)]
      /\ \A j \in 1..(Len(heard) - 1) : heard'[j].index <= heard'[j + 1].index
      /\ \A x : Cardinality(Having(heard', x)) = Cardinality(Having(heard, x))
  BY <1>2, <1>3, SortedOrder
<1>5. \A j \in DOMAIN heard' : heard'[j].right
  <2>1. \A j \in 1..Len(heard) : heard[j].right
    BY <1>1, <1>3, RightOnes
  <2> QED
    BY <1>4, <2>1, Zenon
<1>6. position' = Len(parcel') + 1
  BY <1>1, <1>2, LocatedLast
<1>7. \A x : Cardinality({j \in DOMAIN heard' : heard'[j].index = x}) = Cardinality({j \in DOMAIN told : told[j].index = x})
  <2> SUFFICES ASSUME NEW x
               PROVE  Cardinality({j \in DOMAIN heard' : heard'[j].index = x}) = Cardinality({j \in DOMAIN told : told[j].index = x})
    OBVIOUS
  <2>1. {j \in DOMAIN heard' : heard'[j].index = x} = Having(heard', x)
    BY <1>4 DEF Having
  <2>2. {j \in DOMAIN told : told[j].index = x} = Having(heard, x)
    BY <1>1 DEF Having
  <2> QED
    BY <1>4, <2>1, <2>2
<1>8. CallsAreComplete'
  <2>1. \A j \in 1..(Len(heard') - 1) : heard'[j].index <= heard'[j + 1].index
    BY <1>4
  <2>2. thrown' = FALSE
    BY <1>1, <1>2
  <2>3. told' = told
    BY <1>2
  <2>4. \A j \in DOMAIN told : ~Throws(told[j])
    <3>1. DOMAIN told = 1..Len(heard)
      BY <1>1
    <3> QED
      BY <1>1, <3>1
  <2> QED
    BY <2>1, <2>2, <2>3, <2>4, <1>7, Zenon DEF CallsAreComplete, Throws
<1>9. FieldsInPlace'
  BY <1>2, <1>5, <1>6 DEF FieldsInPlace
<1> QED
  BY <1>2, <1>8, <1>9
  DEF ParcelInv, StartInv, CallsInv, DataInv, ParcelsAreReadRight, DataCallsAreComplete, UnknownIsNotGood

LEMMA DataRead ==
  ASSUME ParcelInv, ReadDataCall PROVE ParcelInv'
<1> DEFINE i == Len(heard) + 1
           n == Len(told)
           parts == DataParts(told, form)
           fields == Of(DataReads(form), i)
<1>1. /\ reading = "data" /\ Len(heard) < n /\ told \in Seq(DataType) /\ heard \in Seq(RightData) /\ thrown = FALSE
      /\ form.version \in Nat
      /\ \A j \in 1..Len(heard) : ~NoIfname(told[j])
      /\ parcel = AllOf(parts) /\ Located(parts, n, position, Len(heard))
      /\ told' = told /\ form' = form /\ parcel' = parcel
  BY DEF ParcelInv, DataInv, ReadDataCall
<1>2. n \in Nat /\ Len(heard) \in 0..n /\ i \in 1..n /\ told[i] \in DataType
  BY <1>1
<1>3. DOMAIN heard = 1..Len(heard) /\ \A j \in DOMAIN heard : heard[j].right
  BY <1>1, RightOnes
<1>5. CASE NoIfname(told[i])
  <2>1. thrown' = TRUE /\ reading' = "DATA" /\ heard' = heard /\ position' = position
    BY <1>5 DEF ReadDataCall
  <2>2. FieldsInPlace'
    BY <1>3, <2>1 DEF FieldsInPlace
  <2>3. DataCallsAreComplete'
    <3>1. i \in DOMAIN told
      BY <1>1, <1>2
    <3>2. \E j \in DOMAIN told : NoIfname(told[j])
      BY <1>5, <3>1
    <3>3. told' = told /\ form' = form /\ thrown'
      BY <1>1, <2>1
    <3> QED
      BY <3>2, <3>3 DEF DataCallsAreComplete, NoIfname
  <2> QED
    BY <2>1, <2>2, <2>3
    DEF ParcelInv, StartInv, CallsInv, DataInv, ParcelsAreReadRight, CallsAreComplete, UnknownIsNotGood
<1>6. CASE ~NoIfname(told[i])
  <2>1. parts \in [1..n -> Seq(Fields)]
    BY <1>1, <1>2, PartsTyped
  <2>2. parts[i] = fields
    BY <1>1, <1>2, DataFields DEF DataParts
  <2>3. InPlace(fields) /\ Located(parts, n, position + Len(fields), i)
    <3>1. i - 1 = Len(heard)
      BY <1>2
    <3>2. Located(parts, n, position, i - 1) /\ parcel = AllOf(parts)
      BY <1>1, <3>1
    <3> HIDE DEF parts, i, n, fields
    <3> QED
      BY <1>2, <2>1, <2>2, <3>2, LocatedNext
  <2>4. /\ heard' = Append(heard, [right |-> InPlace(fields), gateways |-> Gateways(told[i])])
        /\ position' = position + Len(fields) /\ thrown' = thrown /\ reading' = reading
    BY <1>6 DEF ReadDataCall
  <2> DEFINE one == [right |-> TRUE, gateways |-> Gateways(told[i])]
  <2>5. heard' = Append(heard, one)
    BY <2>3, <2>4
  <2>6. one \in RightData
    BY DEF RightData, Gateways
  <2> HIDE DEF one, fields
  <2>8. heard' \in Seq(RightData) /\ Len(heard') = i /\ DOMAIN heard' = 1..i
    BY <1>1, <2>5, <2>6
  <2>9. \A j \in 1..Len(heard') : ~NoIfname(told[j])'
    <3>1. \A j \in 1..Len(heard') : j = i \/ j \in 1..Len(heard)
      BY <1>2, <2>8
    <3>2. \A j \in 1..Len(heard') : ~NoIfname(told[j])
      <4> HIDE DEF i
      <4> QED
        BY <1>1, <1>6, <3>1
    <3> QED
      BY <1>1, <3>2 DEF NoIfname
  <2>10. DataInv'
    <3>1. Located(parts, n, position', Len(heard'))
      BY <2>3, <2>4, <2>8
    <3> QED
      BY <1>1, <1>2, <2>4, <2>8, <2>9, <3>1 DEF DataInv
  <2>11. DataCallsAreComplete'
    <3>1. reading' = "data"
      BY <1>1, <2>4
    <3> QED
      BY <3>1 DEF DataCallsAreComplete
  <2>12. FieldsInPlace'
    <3>1. \A j \in DOMAIN heard' : heard'[j].right
      BY <2>8, RightOnes
    <3> QED
      BY <1>1, <2>4, <3>1 DEF FieldsInPlace
  <2> QED
    BY <1>1, <2>4, <2>10, <2>11, <2>12
    DEF ParcelInv, StartInv, CallsInv, ParcelsAreReadRight, CallsAreComplete, UnknownIsNotGood
<1> QED
  BY <1>5, <1>6

LEMMA DataEnded ==
  ASSUME ParcelInv, EndDataCalls PROVE ParcelInv'
<1>1. /\ reading = "data" /\ Len(heard) = Len(told) /\ heard \in Seq(RightData) /\ thrown = FALSE
      /\ told \in Seq(DataType) /\ \A j \in 1..Len(heard) : ~NoIfname(told[j])
      /\ parcel = AllOf(DataParts(told, form)) /\ Located(DataParts(told, form), Len(told), position, Len(heard))
  BY DEF ParcelInv, DataInv, EndDataCalls
<1>2. /\ reading' = "DATA" /\ heard' = heard /\ told' = told /\ form' = form /\ parcel' = parcel
      /\ position' = position /\ thrown' = thrown
  BY DEF EndDataCalls
<1>3. \A j \in DOMAIN heard : heard[j].right
  BY <1>1, RightOnes
<1>4. position = Len(parcel) + 1
  BY <1>1, LocatedLast
<1>5. FieldsInPlace'
  BY <1>2, <1>3, <1>4 DEF FieldsInPlace
<1>6. DataCallsAreComplete'
  <2>1. DOMAIN told = 1..Len(heard) /\ Len(heard') = Len(told')
    BY <1>1, <1>2
  <2>2. \A j \in DOMAIN told : ~NoIfname(told[j])
    BY <1>1, <2>1
  <2>3. \A j \in DOMAIN told' : ~NoIfname(told[j])'
    BY <1>2, <2>2 DEF NoIfname
  <2> QED
    BY <1>1, <1>2, <2>1, <2>3 DEF DataCallsAreComplete
<1> QED
  BY <1>2, <1>5, <1>6
  DEF ParcelInv, StartInv, CallsInv, DataInv, ParcelsAreReadRight, CallsAreComplete, UnknownIsNotGood

LEMMA SignalRead ==
  ASSUME ParcelInv, ResponseSignalStrength PROVE ParcelInv'
<1> DEFINE Level(r, bars) == <<IF bars THEN HighByte(r[0]) * 3 ELSE LowByte(r[0]), -1,
                               Negated(r[2], -120), Negated(r[3], -160),
                               Negated(r[4], -120), Negated(r[5], -1),
                               IF r[6] < 0 \/ r[6] > 8 THEN -1 ELSE r[6]>>
<1>1. PICK r \in Signals, cdma, bars \in BOOLEAN :
        /\ told' = r /\ form' = [version |-> 0, apn |-> cdma, hcradio |-> bars]
        /\ heard' = IF cdma THEN r ELSE Level(r, bars)
  BY DEF ResponseSignalStrength
<1>2. reading' = "SIGNAL"
  BY DEF ResponseSignalStrength
<1>3. r[0] \in Int /\ r[2] \in Int /\ r[3] \in Int /\ r[4] \in Int /\ r[5] \in Int /\ r[6] \in Int
  <2>1. r \in [0..11 -> Int]
    BY ParcelAssumption
  <2> QED
    BY <2>1
<1>4. ASSUME ~cdma
      PROVE  /\ heard'[1] >= 0 /\ \A k \in 2..6 : heard'[k] <= 0
             /\ heard'[7] \in -1..8
             /\ told'[2] < 0 => heard'[3] = -120
             /\ told'[3] < 0 => heard'[4] = -160
             /\ told'[4] < 0 => heard'[5] = -120
             /\ told'[6] < 0 => heard'[7] = -1
  <2>1. /\ heard'[1] = IF bars THEN HighByte(r[0]) * 3 ELSE LowByte(r[0])
        /\ heard'[2] = -1
        /\ heard'[3] = Negated(r[2], -120) /\ heard'[4] = Negated(r[3], -160)
        /\ heard'[5] = Negated(r[4], -120) /\ heard'[6] = Negated(r[5], -1)
        /\ heard'[7] = IF r[6] < 0 \/ r[6] > 8 THEN -1 ELSE r[6]
    BY <1>1, <1>4
  <2>2. HighByte(r[0]) \in 0..255 /\ LowByte(r[0]) \in 0..255
    BY <1>3 DEF HighByte, LowByte
  <2>3. told' = r
    BY <1>1
  <2>4. heard'[1] >= 0
    BY <2>1, <2>2
  <2>5. ASSUME NEW x \in Int, NEW u \in {-1, -120, -160}
        PROVE  Negated(x, u) <= 0 /\ (x < 0 => Negated(x, u) = u)
    BY DEF Negated
  <2>6. /\ heard'[3] <= 0 /\ (r[2] < 0 => heard'[3] = -120)
        /\ heard'[4] <= 0 /\ (r[3] < 0 => heard'[4] = -160)
        /\ heard'[5] <= 0 /\ (r[4] < 0 => heard'[5] = -120)
        /\ heard'[6] <= 0
    BY <1>3, <2>1, <2>5
  <2>7. \A k \in 2..6 : heard'[k] <= 0
    <3>1. \A k \in 2..6 : k = 2 \/ k = 3 \/ k = 4 \/ k = 5 \/ k = 6
      OBVIOUS
    <3>2. heard'[2] <= 0
      BY <2>1
    <3> QED
      BY <2>6, <3>1, <3>2
  <2>8. heard'[7] \in -1..8 /\ (r[6] < 0 => heard'[7] = -1)
    BY <1>3, <2>1
  <2> QED
    BY <2>3, <2>4, <2>6, <2>7, <2>8
<1>5. UnknownIsNotGood'
  BY <1>1, <1>4 DEF UnknownIsNotGood
<1> QED
  BY <1>2, <1>5
  DEF ParcelInv, StartInv, CallsInv, DataInv, ParcelsAreReadRight, FieldsInPlace, CallsAreComplete,
      DataCallsAreComplete

\* The cause of a failure, and a list that is refused, are not lists that were
\* read.
LEMMA OthersRead ==
  ASSUME ParcelInv, ResponseFailCause \/ RefuseCount PROVE ParcelInv'
<1>1. reading' \in {"CAUSE", "refused"}
  BY DEF ResponseFailCause, RefuseCount
<1> QED
  BY <1>1
  DEF ParcelInv, StartInv, CallsInv, DataInv, ParcelsAreReadRight, FieldsInPlace, CallsAreComplete,
      DataCallsAreComplete, UnknownIsNotGood

\* Whatever the list, the version and the values, what the readers of parcels
\* tell the framework is all that rild wrote, from where it wrote it
\* (SamsungU8500RIL.java:736-884, 936-989).
THEOREM ParcelsRight == ParcelSpec => []ParcelsAreReadRight
<1>1. ParcelInv /\ [ParcelNext]_parcelVars => ParcelInv'
  <2> SUFFICES ASSUME ParcelInv, [ParcelNext]_parcelVars PROVE ParcelInv'
    OBVIOUS
  <2>1. CASE ParcelNext
    BY <2>1, CallsReceived, CallRead, CallsSorted, DataReceived, DataRead, DataEnded, SignalRead, OthersRead
    DEF ParcelNext
  <2>2. CASE UNCHANGED parcelVars
    BY <2>2
    DEF parcelVars, NoIfname, ParcelInv, StartInv, CallsInv, DataInv, ParcelsAreReadRight, FieldsInPlace, CallsAreComplete,
        DataCallsAreComplete, UnknownIsNotGood
  <2> QED
    BY <2>1, <2>2
<1>2. ParcelInv => ParcelsAreReadRight
  BY DEF ParcelInv
<1> QED
  BY <1>1, <1>2, ParcelInitInv, PTL DEF ParcelSpec
=============================================================================
