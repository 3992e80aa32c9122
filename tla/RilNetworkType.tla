--------------------------- MODULE RilNetworkType ---------------------------
(***************************************************************************)
(* configs/ril/SamsungU8500RIL.java: changing the preferred network type.  *)
(* While a mobile data call runs, a handler of its own disables mobile     *)
(* data, waits for the broadcast that the connection is gone, sends the    *)
(* type to the modem, enables data again when the modem has answered, and  *)
(* answers the caller.  Without a data call the type is sent at once.      *)
(*                                                                         *)
(* Calls from the framework and broadcasts run on the main thread, one     *)
(* after the other; responses and the connection to rild on the receiver   *)
(* thread; onLost on the connectivity thread; handleMessage on a thread of *)
(* its own.  Each step here reads or writes what another thread may write  *)
(* or read at most once, and the steps of all threads interleave.          *)
(***************************************************************************)
EXTENDS Integers, Sequences, FiniteSets, SequencesExt

CONSTANTS Requests,      \* calls of setPreferredNetworkType
          Handlers,      \* ConnectivityHandler objects
          None,          \* null
          Callers,       \* when the next call comes: "anytime", "answered", "settled"
          MaxToggles,    \* bound: the user switches mobile data this often
          MaxRestarts,   \* bound: rild restarts this often
          MaxQueries     \* bound: calls of getPreferredNetworkType

ASSUME RilAssumption ==
  /\ IsFiniteSet(Requests) /\ IsFiniteSet(Handlers)
  /\ Requests \cap Handlers = {} /\ None \notin Requests \cup Handlers
  /\ Callers \in {"anytime", "answered", "settled"}
  /\ MaxToggles \in Nat /\ MaxRestarts \in Nat /\ MaxQueries \in Nat

VARIABLES
  status,      \* what became of each call
  verdict,     \* what the modem said to the type of each call
  current,     \* mSamsungu8500RILHandler
  listening,   \* handlers with isRegistered
  desired,     \* mDesiredNetworkType of each handler
  response,    \* mNetworktypeResponse of each handler
  pc,          \* where each handler's thread is in handleMessage
  inbox,       \* messages in each handler's queue
  main,        \* where the main thread is, and its arguments
  rx,          \* where the receiver thread is, and its argument
  preferred,   \* mPreferredNetworkType
  reported,    \* what getPreferredNetworkType answered last
  connected,   \* the socket to rild
  toModem,     \* RIL requests on their way to the modem
  replies,     \* responses on their way back
  modem,       \* the network type the modem uses
  setting,     \* mobile data is enabled
  dataCall,    \* a mobile data call is running
  broadcasts,  \* handlers whose receiver is about to be called
  lost,        \* handlers whose onLost is about to be called
  alive,       \* the phone process did not die of an exception
  left         \* what the bounds still allow

calls == <<status, verdict>>
fields == <<current, listening, desired, response>>
radio == <<connected, toModem, replies, modem>>
network == <<setting, dataCall, broadcasts, lost>>
vars == <<calls, fields, pc, inbox, main, rx, preferred, reported, radio, network, alive, left>>

WCDMA_PREF == 0
GSM_ONLY == 1
WCDMA_ONLY == 2
NT_MODE_GLOBAL == 7
Types == {WCDMA_PREF, GSM_ONLY, WCDMA_ONLY}
Names == Types \cup {NT_MODE_GLOBAL}
Unset == -1

\* The class of network, 2G or 3G, that a phone with this type may be on.
Classes(type) ==
  CASE type = WCDMA_PREF -> {1, 2} [] type = GSM_ONLY -> {1} [] type = WCDMA_ONLY -> {2}

\* NT_MODE_GLOBAL means WCDMA_PREF.
Meant(type) == IF type = NT_MODE_GLOBAL THEN WCDMA_PREF ELSE type

\* A thread between two messages of its loop.
Idle == [at |-> "idle", type |-> Unset, reply |-> None, caller |-> None]
RxIdle == [at |-> "idle", type |-> Unset]

Init ==
  /\ status = [r \in Requests |-> "new"] /\ verdict = [r \in Requests |-> "none"]
  /\ current = None /\ listening = {}
  /\ desired = [h \in Handlers |-> Unset] /\ response = [h \in Handlers |-> None]
  /\ pc = [h \in Handlers |-> "idle"] /\ inbox = [h \in Handlers |-> 0]
  /\ main = Idle /\ rx = RxIdle
  /\ preferred = WCDMA_PREF /\ reported = WCDMA_PREF /\ modem = WCDMA_PREF
  /\ connected = TRUE /\ toModem = << >> /\ replies = << >>
  /\ setting = TRUE /\ dataCall \in BOOLEAN
  /\ broadcasts = {} /\ lost = {}
  /\ alive = TRUE
  /\ left = [toggles |-> MaxToggles, restarts |-> MaxRestarts, queries |-> MaxQueries]

\* A RIL request; "caller" is the call it is sent for.
Set(type, reply, caller) ==
  [kind |-> "set", type |-> type, reply |-> reply, caller |-> caller, ok |-> FALSE]
Get == [kind |-> "get", type |-> Unset, reply |-> None, caller |-> None, ok |-> FALSE]

\* Responses of type-setting requests go to the caller or the handler.
Deliver(ms) ==
  LET done(r) == {m \in ms : m.reply = r}
      judged(r) == {m \in ms : m.caller = r}
      result(m) == IF m.ok THEN "ok" ELSE "refused"
  IN  /\ status' = [r \in Requests |-> IF done(r) = {} THEN status[r] ELSE result(CHOOSE m \in done(r) : TRUE)]
      /\ verdict' = [r \in Requests |-> IF judged(r) = {} THEN verdict[r] ELSE result(CHOOSE m \in judged(r) : TRUE)]
      /\ inbox' = [h \in Handlers |-> inbox[h] + Cardinality(done(h))]

\* send: a request fails at once while rild is not connected.
Send(m) ==
  IF connected THEN toModem' = Append(toModem, m) /\ UNCHANGED <<status, verdict, inbox>>
  ELSE Deliver({m}) /\ UNCHANGED toModem

NeedReconnect == dataCall /\ setting

HasNetworkTypeChanged(type, class) ==
  ~(type = class \/ (type = WCDMA_PREF /\ class = 2))

-----------------------------------------------------------------------------
(* The main thread: setPreferredNetworkType. *)

\* A new ConnectivityHandler.
Fresh == {h \in Handlers : /\ h \notin listening \cup broadcasts \cup lost
                           /\ desired[h] = Unset /\ response[h] = None /\ pc[h] = "idle" /\ inbox[h] = 0
                           /\ \A m \in ToSet(toModem) \cup ToSet(replies) : m.reply # h}

\* Callers that wait for the answer to the call before, and those that wait
\* until it has left no trace.
Answered == \A r \in Requests : status[r] # "waiting"
Settled == lost = {} /\ listening = {} /\ \A h \in Handlers : pc[h] = "idle" /\ inbox[h] = 0

\* NeedReconnect, and the handler that is made or dropped.
SetPreferredNetworkType(r) ==
  /\ alive /\ main = Idle /\ status[r] = "new"
  /\ Callers \in {"answered", "settled"} => Answered
  /\ Callers = "settled" => Settled
  /\ status' = [status EXCEPT ![r] = "waiting"]
  /\ \E type \in Types :
       main' = [at |-> IF NeedReconnect THEN "class" ELSE "remember", type |-> type, reply |-> r, caller |-> r]
  /\ current' \in IF ~NeedReconnect THEN {None} ELSE IF current = None THEN Fresh ELSE {current}
  /\ UNCHANGED <<verdict, listening, desired, response, pc, inbox, rx, preferred, reported, radio, network,
                 alive, left>>

\* hasNetworkTypeChanged: nothing at all is done, or answered, when the phone is
\* on that class of network already.
ReadClass ==
  /\ alive /\ main.at = "class"
  /\ \E class \in Classes(modem) :
       IF HasNetworkTypeChanged(main.type, class)
       THEN main' = [main EXCEPT !.at = "store"] /\ UNCHANGED status
       ELSE main' = Idle /\ status' = [status EXCEPT ![main.caller] = "ignored"]
  /\ UNCHANGED <<verdict, fields, pc, inbox, rx, preferred, reported, radio, network, alive, left>>

\* ConnectivityHandler.setPreferedNetworkType: its fields, which may still hold
\* those of a call before.
StoreResponse ==
  /\ alive /\ main.at = "store"
  /\ desired' = [desired EXCEPT ![current] = main.type]
  /\ response' = [response EXCEPT ![current] = main.caller]
  /\ main' = [main EXCEPT !.at = "listen"]
  /\ UNCHANGED <<calls, current, listening, pc, inbox, rx, preferred, reported, radio, network, alive, left>>

\* Mutant: the broadcast a receiver gets when it is registered is ignored.
IgnoresSticky(h) == {}

\* CONNECTIVITY_ACTION is sticky: a receiver that is registered gets the last
\* one at once.
LastBroadcast(h) == IF dataCall THEN {} ELSE {h}

StartListening ==
  /\ alive /\ main.at = "listen"
  /\ broadcasts' = broadcasts \cup (IF current \in listening THEN {} ELSE LastBroadcast(current))
  /\ listening' = listening \cup {current}
  /\ main' = [main EXCEPT !.at = "disable"]
  /\ UNCHANGED <<calls, current, desired, response, pc, inbox, rx, preferred, reported, radio,
                 setting, dataCall, lost, alive, left>>

DisableData ==
  /\ alive /\ main.at = "disable"
  /\ setting' = FALSE
  /\ main' = Idle
  /\ UNCHANGED <<calls, fields, pc, inbox, rx, preferred, reported, radio, dataCall, broadcasts, lost, alive, left>>

-----------------------------------------------------------------------------
(* The main thread: onReceive, and sendPreferedNetworktype. *)

\* Mutant: the receiver is not unregistered.
KeepsListening(h) ==
  /\ alive /\ main = Idle /\ h \in broadcasts
  /\ broadcasts' = broadcasts \ {h}
  /\ main' = [at |-> "remember", type |-> desired[h], reply |-> h, caller |-> response[h]]
  /\ UNCHANGED <<calls, fields, pc, inbox, rx, preferred, reported, radio, setting, dataCall, lost, alive, left>>

\* onReceive, with stopListening.
OnReceive(h) ==
  /\ alive /\ main = Idle /\ h \in broadcasts
  /\ broadcasts' = broadcasts \ {h}
  /\ listening' = listening \ {h}
  /\ main' = [at |-> "remember", type |-> desired[h], reply |-> h, caller |-> response[h]]
  /\ UNCHANGED <<calls, current, desired, response, pc, inbox, rx, preferred, reported, radio,
                 setting, dataCall, lost, alive, left>>

\* mPreferredNetworkType = networkType.
Remember ==
  /\ alive /\ main.at = "remember"
  /\ preferred' = main.type
  /\ main' = [main EXCEPT !.at = "send"]
  /\ UNCHANGED <<calls, fields, pc, inbox, rx, reported, radio, network, alive, left>>

\* Mutant: a handler sends its type without a message for the completion.
SendsWithoutMessage ==
  /\ alive /\ main.at = "send"
  /\ Send(Set(main.type, IF main.reply \in Handlers THEN None ELSE main.reply, main.caller))
  /\ desired' = IF main.reply \in Handlers THEN [desired EXCEPT ![main.reply] = Unset] ELSE desired
  /\ main' = Idle
  /\ UNCHANGED <<current, listening, response, pc, rx, preferred, reported, connected, replies, modem, network,
                 alive, left>>

\* send, and for a handler the last statement of onReceive.
SendType ==
  /\ alive /\ main.at = "send"
  /\ Send(Set(main.type, main.reply, main.caller))
  /\ desired' = IF main.reply \in Handlers THEN [desired EXCEPT ![main.reply] = Unset] ELSE desired
  /\ main' = Idle
  /\ UNCHANGED <<current, listening, response, pc, rx, preferred, reported, connected, replies, modem, network,
                 alive, left>>

MainStep == ReadClass \/ StoreResponse \/ StartListening \/ DisableData \/ Remember \/ SendType

\* onLost sends the broadcast once more, to whoever listens by then.
OnLost(h) ==
  /\ alive /\ h \in lost
  /\ lost' = lost \ {h}
  /\ broadcasts' = broadcasts \cup listening
  /\ UNCHANGED <<calls, fields, pc, inbox, main, rx, preferred, reported, radio, setting, dataCall, alive, left>>

-----------------------------------------------------------------------------
(* The handler's thread: handleMessage. *)

\* Mutant: the completion does not wait for its message.
CompletesUnprompted(h) ==
  /\ alive /\ pc[h] = "idle" /\ h \in listening
  /\ setting' = TRUE
  /\ pc' = [pc EXCEPT ![h] = "answer"]
  /\ UNCHANGED <<calls, fields, inbox, main, rx, preferred, reported, radio, dataCall, broadcasts, lost, alive, left>>

\* Mutant: the completion does not enable mobile data.
LeavesDataDisabled(h) ==
  /\ alive /\ pc[h] = "idle" /\ inbox[h] > 0
  /\ inbox' = [inbox EXCEPT ![h] = @ - 1]
  /\ pc' = [pc EXCEPT ![h] = "answer"]
  /\ UNCHANGED <<calls, fields, main, rx, preferred, reported, radio, network, alive, left>>

\* The statements up to sendToTarget, that one, and the last.
EnableData(h) ==
  /\ alive /\ pc[h] = "idle" /\ inbox[h] > 0
  /\ inbox' = [inbox EXCEPT ![h] = @ - 1]
  /\ setting' = TRUE
  /\ pc' = [pc EXCEPT ![h] = "answer"]
  /\ UNCHANGED <<calls, fields, main, rx, preferred, reported, radio, dataCall, broadcasts, lost, alive, left>>

Answer(h) ==
  /\ alive /\ pc[h] = "answer"
  /\ pc' = [pc EXCEPT ![h] = "forget"]
  /\ IF response[h] = None THEN alive' = FALSE /\ UNCHANGED status
     ELSE status' = [status EXCEPT ![response[h]] = "ok"] /\ UNCHANGED alive
  /\ UNCHANGED <<verdict, fields, inbox, main, rx, preferred, reported, radio, network, left>>

Forget(h) ==
  /\ alive /\ pc[h] = "forget"
  /\ response' = [response EXCEPT ![h] = None]
  /\ pc' = [pc EXCEPT ![h] = "idle"]
  /\ UNCHANGED <<calls, current, listening, desired, inbox, main, rx, preferred, reported, radio, network, alive, left>>

-----------------------------------------------------------------------------
(* The receiver thread. *)

ProcessSolicited ==
  /\ alive /\ rx = RxIdle
  /\ replies # << >> /\ Head(replies).kind = "set"
  /\ Deliver({Head(replies)})
  /\ replies' = Tail(replies)
  /\ UNCHANGED <<fields, pc, main, rx, preferred, reported, connected, toModem, modem, network, alive, left>>

\* responseGetPreferredNetworkType: the raw type is remembered, its meaning
\* answered.
ResponseGetPreferredNetworkType ==
  /\ alive /\ rx = RxIdle
  /\ replies # << >> /\ Head(replies).kind = "get"
  /\ preferred' = Head(replies).type /\ reported' = Meant(Head(replies).type)
  /\ replies' = Tail(replies)
  /\ UNCHANGED <<calls, fields, pc, inbox, main, rx, connected, toModem, modem, network, alive, left>>

\* The socket closes: what was pending fails.
RildDies ==
  /\ alive /\ rx = RxIdle /\ connected
  /\ left.restarts > 0
  /\ left' = [left EXCEPT !.restarts = @ - 1]
  /\ connected' = FALSE
  /\ Deliver({[m EXCEPT !.ok = FALSE] : m \in ToSet(toModem) \cup ToSet(replies)})
  /\ toModem' = << >> /\ replies' = << >>
  /\ UNCHANGED <<fields, pc, main, rx, preferred, reported, modem, network, alive>>

\* RIL_UNSOL_RIL_CONNECTED sends the remembered type again, which is read, written
\* and sent in sendPreferedNetworktype as on the main thread.
RilConnected ==
  /\ alive /\ rx = RxIdle /\ ~connected
  /\ connected' = TRUE
  /\ rx' = [at |-> "read", type |-> Unset]
  /\ UNCHANGED <<calls, fields, pc, inbox, main, preferred, reported, toModem, replies, modem, network, alive, left>>

RxRead ==
  /\ alive /\ rx.at = "read"
  /\ rx' = [at |-> "remember", type |-> preferred]
  /\ UNCHANGED <<calls, fields, pc, inbox, main, preferred, reported, radio, network, alive, left>>

RxRemember ==
  /\ alive /\ rx.at = "remember"
  /\ preferred' = rx.type
  /\ rx' = [rx EXCEPT !.at = "send"]
  /\ UNCHANGED <<calls, fields, pc, inbox, main, reported, radio, network, alive, left>>

RxSend ==
  /\ alive /\ rx.at = "send"
  /\ Send(Set(rx.type, None, None))
  /\ rx' = RxIdle
  /\ UNCHANGED <<fields, pc, main, preferred, reported, connected, replies, modem, network, alive, left>>

RxStep == ProcessSolicited \/ ResponseGetPreferredNetworkType \/ RilConnected \/ RxRead \/ RxRemember \/ RxSend

-----------------------------------------------------------------------------
(* The modem, the network and the user. *)

\* getPreferredNetworkType, which is not answered without a connection.
GetPreferredNetworkType ==
  /\ alive /\ main = Idle /\ connected
  /\ left.queries > 0
  /\ left' = [left EXCEPT !.queries = @ - 1]
  /\ toModem' = Append(toModem, Get)
  /\ UNCHANGED <<calls, fields, pc, inbox, main, rx, preferred, reported, connected, replies, modem, network, alive>>

\* What the modem calls the type it uses.
Named(type) == IF type = WCDMA_PREF THEN {WCDMA_PREF, NT_MODE_GLOBAL} ELSE {type}

Modem ==
  /\ alive /\ toModem # << >>
  /\ toModem' = Tail(toModem)
  /\ LET m == Head(toModem)
     IN  \/ /\ m.kind = "set"
            /\ modem' = Meant(m.type)
            /\ replies' = Append(replies, [m EXCEPT !.ok = TRUE])
         \/ /\ m.kind = "set"
            /\ replies' = Append(replies, m)
            /\ UNCHANGED modem
         \/ /\ m.kind = "get"
            /\ \E name \in Named(modem) : replies' = Append(replies, [m EXCEPT !.type = name])
            /\ UNCHANGED modem
  /\ UNCHANGED <<calls, fields, pc, inbox, main, rx, preferred, reported, connected, network, alive, left>>

\* The connection ends, disabled or not: the broadcast and the callback of every
\* listener.
CallEnds ==
  /\ alive /\ dataCall
  /\ dataCall' = FALSE
  /\ broadcasts' = broadcasts \cup listening /\ lost' = lost \cup listening
  /\ UNCHANGED <<calls, fields, pc, inbox, main, rx, preferred, reported, radio, setting, alive, left>>

CallStarts ==
  /\ alive /\ ~dataCall /\ setting
  /\ dataCall' = TRUE
  /\ UNCHANGED <<calls, fields, pc, inbox, main, rx, preferred, reported, radio, setting, broadcasts, lost, alive, left>>

UserTogglesData ==
  /\ alive /\ left.toggles > 0
  /\ left' = [left EXCEPT !.toggles = @ - 1]
  /\ setting' = ~setting
  /\ UNCHANGED <<calls, fields, pc, inbox, main, rx, preferred, reported, radio, dataCall, broadcasts, lost, alive>>

Next ==
  \/ \E r \in Requests : SetPreferredNetworkType(r)
  \/ MainStep \/ RxStep
  \/ \E h \in Handlers : OnReceive(h) \/ OnLost(h) \/ EnableData(h) \/ Answer(h) \/ Forget(h)
  \/ GetPreferredNetworkType \/ RildDies
  \/ Modem \/ CallEnds \/ CallStarts \/ UserTogglesData

Spec == Init /\ [][Next]_vars

\* Threads and message loops go on, the modem answers, rild is started again,
\* and the framework takes the connection down when mobile data is disabled.
FairSpec ==
  /\ Spec
  /\ WF_vars(MainStep) /\ WF_vars(RxStep)
  /\ WF_vars(Modem) /\ WF_vars(~setting /\ CallEnds)
  /\ \A h \in Handlers :
       WF_vars(OnReceive(h)) /\ WF_vars(EnableData(h) \/ Answer(h) \/ Forget(h))
-----------------------------------------------------------------------------
(* Properties *)

\* The shapes of the variables; NT_MODE_GLOBAL is never reported (838-841).
TypeOK ==
  /\ status \in [Requests -> {"new", "waiting", "ignored", "ok", "refused"}]
  /\ verdict \in [Requests -> {"none", "ok", "refused"}]
  /\ current \in Handlers \cup {None} /\ listening \subseteq Handlers
  /\ desired \in [Handlers -> Types \cup {Unset}] /\ response \in [Handlers -> Requests \cup {None}]
  /\ pc \in [Handlers -> {"idle", "answer", "forget"}] /\ inbox \in [Handlers -> Nat]
  /\ main \in [at : {"idle", "class", "store", "listen", "disable", "remember", "send"}, type : Types \cup {Unset},
               reply : Requests \cup Handlers \cup {None}, caller : Requests \cup {None}]
  /\ rx \in [at : {"idle", "read", "remember", "send"}, type : Names \cup {Unset}]
  /\ preferred \in Names \cup {Unset} /\ reported \in Types /\ modem \in Types \cup {Unset}
  /\ broadcasts \subseteq Handlers /\ lost \subseteq Handlers
  /\ connected \in BOOLEAN /\ setting \in BOOLEAN /\ dataCall \in BOOLEAN /\ alive \in BOOLEAN

\* mDesiredNetworkType is reset to -1 once it was sent (line 362); however
\* broadcasts, callbacks and new calls interleave, that value is never sent.
NeverSendsUnset ==
  \A m \in ToSet(toModem) : m.kind = "set" => m.type # Unset

\* The modem "does bad things when a datacall is running while switching the
\* preferred networktype" (215-217), so that none may run by the time a type is sent.
SentWithoutDataCall ==
  [][\A r \in Requests :
       Len(toModem') > Len(toModem) /\ Last(toModem').caller = r => ~dataCall]_vars

\* "the value we want the vendor ril to take if we reestablish a connection to
\* it" (831-833): while a type is on its way to the modem or its answer on its way
\* back, and no thread is between writing and sending one (258-263), that is the
\* type a restarted rild would get.
RemembersWhatWasSent ==
  LET sent == replies \o toModem
  IN  main.at # "send" /\ rx.at = "idle" =>
        \A i \in DOMAIN sent :
          sent[i].kind = "set" /\ (\A j \in DOMAIN sent : j > i => sent[j].kind # "set") =>
            Meant(preferred) = Meant(sent[i].type)

\* "the original message, we need it for calling back the original caller when
\* done" (line 277): no caller hears of success before the modem answered.
AnswerFollowsModem ==
  \A r \in Requests : status[r] = "ok" => verdict[r] # "none"

\* Wherever between NeedReconnect (221) and disabling data (325) the connection
\* ends, a handler that waits for its end has that broadcast coming, or will have.
WakeUpIsPending ==
  \A h \in listening : dataCall \/ h \in broadcasts

\* A handler that waits for the connection to go does not wait after it is gone
\* (lines 288-305, 347-365), whatever other handlers and calls do.
NobodyListensForever ==
  \A h \in Handlers : (h \in listening /\ ~dataCall) ~> (h \notin listening \/ ~alive)

\* Mobile data that was disabled for a change is enabled again (line 334), also
\* when the type is refused or rild restarts, unless the user switches it.
DataComesBack ==
  (~setting /\ left.toggles = MaxToggles) ~> (setting \/ left.toggles # MaxToggles)

\* Every call that is not ignored is answered.
SenderIsNotified ==
  \A r \in Requests : status[r] = "waiting" ~> status[r] \in {"ok", "refused", "ignored"}
=============================================================================
