------------------------------ MODULE RilRadio ------------------------------
(***************************************************************************)
(* configs/ril/SamsungU8500RIL.java: requests and their answers, the state *)
(* of the radio, and the SIM status that waits for it.                     *)
(*                                                                         *)
(* A caller in the framework asks with a message, number 1, 2, ..., and    *)
(* expects one result for it.  The receiver thread reads what rild sends.  *)
(* mState and mPendingGetSimStatus are read and written by both without a  *)
(* lock.  send, the list of requests and the end of the connection belong  *)
(* to the superclass RIL, which is not in this repository: without a       *)
(* socket a request fails at once, and when the receiver throws, the       *)
(* socket is closed, the radio is unavailable and every request fails.     *)
(***************************************************************************)
EXTENDS Integers, FiniteSets, Sequences

CONSTANTS MaxMessages,  \* bound: messages of the framework
          MaxStates,    \* bound: radio states rild reports
          MaxConnects,  \* bound: RIL_UNSOL_RIL_CONNECTED
          RadioVersions \* what rild may say its version is

ASSUME RadioAssumption ==
  /\ MaxMessages \in Nat /\ MaxStates \in Nat /\ MaxConnects \in Nat /\ RadioVersions \subseteq Nat

VARIABLES
  mState,       \* "off", "unavailable" or "on"
  mPendingGetSimStatus, \* a message, 0 for null
  mRilVersion,
  mRequestList, \* the requests sent: [serial, mRequest, mResult]
  asker,        \* the caller: [pc, message]
  receiver,     \* the receiver thread: [pc, newState]
  results,      \* what each message was answered, in order
  serials, messages, states, connects, \* counters of the bounds
  noticed,      \* the framework is told of a changed SIM status, and has not asked since
  overwritten,  \* messages that another one replaced in mPendingGetSimStatus
  blocked,      \* messages of requests that are not sent
  stale,        \* messages whose caller read mState before it became "on"
  errors        \* for each serial the error rild answered first, with its request

radioState == <<mState, mPendingGetSimStatus, mRilVersion>>
exchange == <<mRequestList, results, serials, errors>>
radioHistory == <<messages, states, connects, noticed, overwritten, blocked, stale>>
radioVars == <<radioState, asker, receiver, exchange, radioHistory>>

RadioInit ==
  /\ mState = "unavailable" /\ mPendingGetSimStatus = 0 /\ mRilVersion = -1
  /\ mRequestList = {} /\ results = [m \in 1..MaxMessages |-> << >>] /\ serials = 0 /\ errors = {}
  /\ asker = [pc |-> "idle", message |-> 0] /\ receiver = [pc |-> "idle", newState |-> "off"]
  /\ messages = 0 /\ states = 0 /\ connects = 0
  /\ noticed = FALSE /\ overwritten = {} /\ blocked = {} /\ stale = {}

-----------------------------------------------------------------------------
\* rild says RIL_UNSOL_RIL_CONNECTED first on a new socket.
Connected == mRilVersion >= 0

\* The result reaches the message, if the request has one.
Answered(message, value, error) ==
  results' = [m \in DOMAIN results |-> IF m = message
                THEN Append(results[m], [value |-> value, error |-> error]) ELSE results[m]]

Send(request, message) ==
  LET rr == [serial |-> serials + 1, mRequest |-> request, mResult |-> message]
  IN  /\ serials' = serials + 1
      /\ IF Connected THEN mRequestList' = mRequestList \cup {rr} /\ UNCHANGED results
         ELSE Answered(message, "null", TRUE) /\ UNCHANGED mRequestList
      /\ UNCHANGED errors

Asks == asker.pc = "idle" /\ messages < MaxMessages /\ messages' = messages + 1

\* The framework sends a text message, or another request of the superclass.
AskRil ==
  /\ Asks
  /\ \E request \in {"SEND_SMS", "SIM_IO"} : Send(request, messages')
  /\ UNCHANGED <<radioState, asker, receiver, states, connects, noticed, overwritten, blocked, stale>>

\* Rows of samsung specifics: what is not sent is never answered.
GetVoiceRadioTechnology ==
  /\ Asks
  /\ IF mRilVersion >= 7 THEN Send("VOICE_RADIO_TECH", messages') /\ UNCHANGED blocked
     ELSE blocked' = blocked \cup {messages'} /\ UNCHANGED exchange
  /\ UNCHANGED <<radioState, asker, receiver, states, connects, noticed, overwritten, stale>>

GetCdmaSubscriptionSource ==
  /\ Asks
  /\ blocked' = blocked \cup {messages'}
  /\ UNCHANGED <<radioState, asker, receiver, exchange, states, connects, noticed, overwritten, stale>>

GetRadioCapability ==
  /\ Asks
  /\ Answered(messages', "capability", FALSE)
  /\ UNCHANGED <<radioState, asker, receiver, mRequestList, serials, errors, states, connects,
                 noticed, overwritten, blocked, stale>>

\* getIccCardStatus reads mState, and then keeps the message or sends.  The
\* framework asks after a notice, and whenever it likes.
GetIccCardStatus ==
  /\ Asks
  /\ IF mState # "on" THEN asker' = [pc |-> "keep", message |-> messages'] /\ UNCHANGED exchange
     ELSE Send("GET_SIM_STATUS", messages') /\ UNCHANGED asker
  /\ noticed' = FALSE
  /\ UNCHANGED <<radioState, receiver, states, connects, overwritten, blocked, stale>>

KeepSimStatus ==
  /\ asker.pc = "keep"
  /\ mPendingGetSimStatus' = asker.message
  /\ overwritten' = (overwritten \cup {mPendingGetSimStatus}) \ {0}
  /\ asker' = [pc |-> "idle", message |-> 0]
  /\ UNCHANGED <<mState, mRilVersion, receiver, exchange, messages, states, connects, noticed, blocked,
                 stale>>

-----------------------------------------------------------------------------
\* What reaches a message when rild answers: parsed says whether the payload
\* reads as the answer of the request, or there is none.

\* The end of processSolicited.  An answer that does not read is an error; so is
\* any error of rild but -1 for a text message, which is read once more from
\* where the payload ended: a parcel gives zeros there, and never throws.
Outcome(rr, error, parsed) ==
  IF parsed = "bad" THEN [value |-> "null", error |-> TRUE]
  ELSE IF error # 0 /\ ~(error = -1 /\ rr.mRequest = "SEND_SMS")
       THEN [value |-> IF parsed = "good" THEN "payload" ELSE "null", error |-> TRUE]
  ELSE [value |-> IF error = 0 THEN "payload" ELSE "zero", error |-> FALSE]

\* findAndRemoveRequestFromList.
FindAndRemove(serial) ==
  /\ \E rr \in mRequestList : rr.serial = serial
  /\ mRequestList' = {rr \in mRequestList : rr.serial # serial}

\* processSolicited; an answer to no request in the list changes nothing.  Error
\* 0 has a payload, which is empty for a void.
ProcessSolicited ==
  /\ receiver.pc = "idle" /\ Connected
  /\ \E serial \in 1..serials, error \in {0, -1, 2}, parsed \in {"good", "bad", "none"} :
       /\ error = 0 => parsed # "none"
       /\ FindAndRemove(serial)
       /\ \E rr \in mRequestList :
            LET o == Outcome(rr, error, parsed)
            IN  /\ rr.serial = serial
                /\ Answered(rr.mResult, o.value, o.error)
                /\ errors' = IF rr.mResult = 0 THEN errors
                             ELSE errors \cup {[to |-> rr.mResult, request |-> rr.mRequest, error |-> error]}
  /\ UNCHANGED <<radioState, asker, receiver, serials, radioHistory>>

-----------------------------------------------------------------------------
\* RIL_UNSOL_RIL_CONNECTED: three requests without a message, and the version;
\* before it the superclass reconnects, with the radio unavailable.
RilConnected ==
  /\ receiver.pc = "idle" /\ ~Connected /\ connects < MaxConnects
  /\ connects' = connects + 1
  /\ mRilVersion' \in RadioVersions
  /\ serials' = serials + 3
  /\ mRequestList' = mRequestList \cup
       {[serial |-> serials + i, mRequest |-> <<"RADIO_POWER", "SET_PREFERRED_NETWORK_TYPE",
                                                "CDMA_SET_SUBSCRIPTION_SOURCE">>[i], mResult |-> 0] : i \in 1..3}
  /\ UNCHANGED <<mState, mPendingGetSimStatus, asker, receiver, results, errors, messages, states,
                 noticed, overwritten, blocked, stale>>

\* RIL_UNSOL_RESPONSE_RADIO_STATE_CHANGED: the Samsung states become those of
\* getRadioStateFromInt, which throws for any other.
RadioStateOf(state) ==
  CASE state = 0 -> "off"
    [] state \in {1, 2} -> "unavailable"
    [] state \in {3, 4, 10} -> "on"
    [] OTHER -> "throws"

Waiting == {rr.mResult : rr \in mRequestList}

\* Mutant: the requests are dropped.
CloseForgetting == mRequestList' = {} /\ UNCHANGED results

\* The superclass closes the connection: every request fails.
Close ==
  /\ mRequestList' = {}
  /\ results' = [m \in DOMAIN results |-> IF m \in Waiting
                   THEN Append(results[m], [value |-> "null", error |-> TRUE]) ELSE results[m]]

\* State 4 is also that of an unlocked SIM: the framework is told before the
\* radio has switched.
RadioStateChanged ==
  /\ receiver.pc = "idle" /\ Connected /\ states < MaxStates
  /\ states' = states + 1
  /\ \E state \in {0, 2, 3, 4, 5} :
       /\ noticed' = (noticed \/ state = 4)
       /\ IF RadioStateOf(state) = "throws"
          THEN /\ Close /\ mState' = "unavailable" /\ mRilVersion' = -1
               /\ UNCHANGED receiver
          ELSE /\ receiver' = [pc |-> "switch", newState |-> RadioStateOf(state)]
               /\ UNCHANGED <<mState, mRequestList, results, mRilVersion>>
  /\ UNCHANGED <<mPendingGetSimStatus, asker, serials, errors, messages, connects, overwritten, blocked,
                 stale>>

\* The superclass switches.
SwitchToRadioState ==
  /\ receiver.pc = "switch"
  /\ mState' = receiver.newState
  /\ receiver' = [receiver EXCEPT !.pc = "test"]
  /\ stale' = IF mState' = "on" /\ asker.pc = "keep" THEN stale \cup {asker.message} ELSE stale
  /\ UNCHANGED <<mPendingGetSimStatus, mRilVersion, asker, exchange, messages, states, connects, noticed,
                 overwritten, blocked>>

\* switchToRadioState after the superclass has switched.
SwitchTests ==
  /\ receiver.pc = "test"
  /\ receiver' = [receiver EXCEPT !.pc =
       IF receiver.newState = "on" /\ mPendingGetSimStatus # 0 THEN "send" ELSE "idle"]
  /\ UNCHANGED <<radioState, asker, exchange, radioHistory>>

SwitchSends ==
  /\ receiver.pc = "send"
  /\ Send("GET_SIM_STATUS", mPendingGetSimStatus)
  /\ receiver' = [pc |-> "clear", newState |-> receiver.newState]
  /\ UNCHANGED <<radioState, asker, radioHistory>>

\* The message that is there now is set to null, whichever it is.
SwitchClears ==
  /\ receiver.pc = "clear"
  /\ mPendingGetSimStatus' = 0
  /\ receiver' = [receiver EXCEPT !.pc = "idle"]
  /\ UNCHANGED <<mState, mRilVersion, asker, exchange, radioHistory>>

RadioNext ==
  \/ AskRil \/ GetVoiceRadioTechnology \/ GetCdmaSubscriptionSource \/ GetRadioCapability
  \/ GetIccCardStatus \/ KeepSimStatus
  \/ ProcessSolicited \/ RilConnected \/ RadioStateChanged
  \/ SwitchToRadioState \/ SwitchTests \/ SwitchSends \/ SwitchClears

RadioSpec == RadioInit /\ [][RadioNext]_radioVars
-----------------------------------------------------------------------------
(* Properties *)

\* The shapes of the variables; serials are never used twice (392-401).
RadioTypeOK ==
  /\ mState \in {"off", "unavailable", "on"} /\ mRilVersion \in RadioVersions \cup {-1}
  /\ mPendingGetSimStatus \in 0..messages
  /\ asker \in [pc : {"idle", "keep"}, message : 0..messages]
  /\ noticed \in BOOLEAN
  /\ receiver \in [pc : {"idle", "switch", "test", "send", "clear"}, newState : {"off", "unavailable", "on"}]
  /\ \A rr \in mRequestList : rr.serial \in 1..serials /\ rr.mResult \in 0..messages
  /\ \A m \in DOMAIN results : results[m] # << >> => m \in 1..messages

HasResult == {m \in DOMAIN results : results[m] # << >>}
Kept == {asker.message, mPendingGetSimStatus}

\* A message is answered once, and is not answered again when rild repeats
\* itself or the connection ends while answers arrive (401-407).
AnsweredOnce ==
  /\ \A m \in DOMAIN results : Len(results[m]) <= 1
  /\ HasResult \cap Waiting = {}

\* Where a message that has no result is: sent, kept for the radio, or given up
\* for a reason the code shows, a later SIM status request (918) or a request
\* that is not sent (896, 905).
NoMessageIsLost ==
  1..messages \subseteq HasResult \cup Waiting \cup Kept \cup overwritten \cup blocked \cup stale

\* "delay the message until the radio is on" (913): when the switch is over, a
\* message still kept is one whose caller had read mState before.
DelayedUntilOn ==
  mState = "on" /\ receiver.pc = "idle" /\ mPendingGetSimStatus # 0 => mPendingGetSimStatus \in stale

\* Nobody is told of success when rild reported an error, but the sender of a
\* text message, who gets zeros for its reference (541-559).
SuccessIsTrue ==
  \A m \in HasResult : \A i \in DOMAIN results[m] :
    ~results[m][i].error /\ results[m][i].value # "capability" =>
      \E e \in errors : /\ e.to = m
                        /\ IF results[m][i].value = "zero" THEN e.error = -1 /\ e.request = "SEND_SMS"
                           ELSE e.error = 0

\* Every message of the framework gets one true answer, or is where the code
\* shows that it cannot get one.
RequestsAreSettled ==
  /\ RadioTypeOK
  /\ AnsweredOnce /\ NoMessageIsLost /\ DelayedUntilOn /\ SuccessIsTrue
=============================================================================
