------------------------ MODULE RilNetworkTypeProofs ------------------------
(***************************************************************************)
(* The change of network type, for any number of calls, handlers, toggles, *)
(* restarts and queries: what is sent, that no wake-up is lost, and, when  *)
(* each call waits until the one before has left no trace, who is answered *)
(* when.                                                                   *)
(***************************************************************************)
EXTENDS RilNetworkType, FiniteSetTheorems, TLAPS

Statuses == {"new", "waiting", "ignored", "ok", "refused"}
Verdicts == {"none", "ok", "refused"}

\* A message, one to the modem, and one that the modem has answered.
Message == [kind : {"set", "get"}, type : Names \cup {Unset}, reply : Requests \cup Handlers \cup {None},
            caller : Requests \cup {None}, ok : BOOLEAN]
Asked == {m \in Message : m.kind = "set" => m.type \in Names}
Told == {m \in Message : m.type \in Names}

\* A type on its way, or answered, is one; so is the remembered one.
MessagesInv ==
  /\ toModem \in Seq(Asked) /\ replies \in Seq(Told)
  /\ preferred \in Names /\ modem \in Types
  /\ rx.at \in {"remember", "send"} => rx.type \in Names

\* What the main thread has at each of its steps.
MainInv ==
  /\ main.at = "idle" => main = Idle
  /\ main.at \in {"class", "store", "remember", "send"} => main.type \in Types
  /\ main.at \in {"class", "store", "listen", "disable"} =>
       current \in Handlers /\ main.caller \in Requests /\ main.reply = main.caller
  /\ main.at \in {"listen", "disable"} => desired[current] \in Types
  /\ main.at \in {"remember", "send"} => main.reply \in Requests \cup Handlers /\ main.reply \notin listening

\* Whoever is about to be called back still listens, and knows what to send.
ListenInv ==
  /\ broadcasts \subseteq listening
  /\ \A h \in listening : desired[h] \in Types
  /\ WakeUpIsPending

LeftInv == left \in [toggles : 0..MaxToggles, restarts : 0..MaxRestarts, queries : 0..MaxQueries]

TypeInv == TypeOK /\ MessagesInv /\ MainInv /\ ListenInv /\ LeftInv

-----------------------------------------------------------------------------

LEMMA AppendFacts ==
  ASSUME NEW M, NEW s \in Seq(M), NEW m \in M
  PROVE  /\ Append(s, m) \in Seq(M) /\ Append(s, m) # << >>
         /\ Len(Append(s, m)) = Len(s) + 1 /\ Append(s, m)[Len(s) + 1] = m
         /\ \A i \in 1..Len(s) : Append(s, m)[i] = s[i]
         /\ ToSet(Append(s, m)) = ToSet(s) \cup {m}
<1>1. /\ Append(s, m) \in Seq(M) /\ Append(s, m) # << >>
      /\ Len(Append(s, m)) = Len(s) + 1 /\ Append(s, m)[Len(s) + 1] = m
      /\ \A i \in 1..Len(s) : Append(s, m)[i] = s[i]
  OBVIOUS
<1>2. DOMAIN Append(s, m) = 1..Len(s) + 1 /\ DOMAIN s = 1..Len(s) /\ Len(s) \in Nat
  BY <1>1
<1>3. \A i \in 1..Len(s) + 1 : i = Len(s) + 1 \/ i \in 1..Len(s)
  BY <1>2
<1>4. ToSet(Append(s, m)) = ToSet(s) \cup {m}
  BY <1>1, <1>2, <1>3 DEF ToSet
<1> QED
  BY <1>1, <1>4

LEMMA TailFacts ==
  ASSUME NEW M, NEW s \in Seq(M), s # << >>
  PROVE  /\ Tail(s) \in Seq(M) /\ Head(s) \in M /\ Head(s) \in ToSet(s)
         /\ Len(Tail(s)) = Len(s) - 1 /\ Len(s) \in Nat \ {0} /\ Head(s) = s[1]
         /\ \A i \in 1..Len(s) - 1 : Tail(s)[i] = s[i + 1]
         /\ ToSet(Tail(s)) \subseteq ToSet(s)
<1>1. /\ Tail(s) \in Seq(M) /\ Head(s) \in M /\ Len(Tail(s)) = Len(s) - 1 /\ Len(s) \in Nat \ {0}
      /\ Head(s) = s[1] /\ \A i \in 1..Len(s) - 1 : Tail(s)[i] = s[i + 1]
  OBVIOUS
<1>2. DOMAIN Tail(s) = 1..Len(s) - 1 /\ DOMAIN s = 1..Len(s)
  BY <1>1
<1>3. 1 \in DOMAIN s /\ \A i \in 1..Len(s) - 1 : i + 1 \in DOMAIN s
  BY <1>1, <1>2
<1>4. ToSet(Tail(s)) \subseteq ToSet(s) /\ Head(s) \in ToSet(s)
  BY <1>1, <1>2, <1>3 DEF ToSet
<1> QED
  BY <1>1, <1>4

LEMMA HeadOrTail ==
  ASSUME NEW M, NEW s \in Seq(M), s # << >>
  PROVE  /\ Head(s) \in M /\ Head(s) \in ToSet(s)
         /\ \A n \in ToSet(s) : n = Head(s) \/ n \in ToSet(Tail(s))
<1>1. /\ Len(s) \in Nat \ {0} /\ Head(s) = s[1] /\ Head(s) \in M /\ Head(s) \in ToSet(s)
      /\ \A i \in 1..Len(s) - 1 : Tail(s)[i] = s[i + 1]
  BY TailFacts
<1>2. DOMAIN s = 1..Len(s) /\ DOMAIN Tail(s) = 1..Len(s) - 1
  BY TailFacts
<1>3. ASSUME NEW i \in 1..Len(s), i # 1 PROVE s[i] \in ToSet(Tail(s))
  <2>1. i - 1 \in DOMAIN Tail(s) /\ Tail(s)[i - 1] = s[i]
    BY <1>1, <1>2, <1>3
  <2> QED
    BY <2>1 DEF ToSet
<1>4. \A n \in ToSet(s) : \E i \in 1..Len(s) : n = s[i]
  BY <1>2 DEF ToSet
<1> QED
  BY <1>1, <1>3, <1>4

LEMMA SetOfSeq ==
  ASSUME NEW M, NEW s \in Seq(M)
  PROVE  ToSet(s) \subseteq M /\ IsFiniteSet(ToSet(s)) /\ (s = << >> <=> ToSet(s) = {})
<1>1. s \in [1..Len(s) -> M] /\ Len(s) \in Nat /\ DOMAIN s = 1..Len(s)
  OBVIOUS
<1>2. s \in Surjection(1..Len(s), ToSet(s))
  <2>1. ToSet(s) = {s[i] : i \in 1..Len(s)}
    BY <1>1 DEF ToSet
  <2>2. s \in [1..Len(s) -> ToSet(s)]
    BY <1>1, <2>1
  <2> QED
    BY <2>1, <2>2 DEF Surjection
<1>3. IsFiniteSet(1..Len(s))
  BY <1>1, FS_Interval
<1>4. s = << >> <=> Len(s) = 0
  OBVIOUS
<1>5. ToSet(s) \subseteq M /\ (Len(s) = 0 <=> ToSet(s) = {})
  <2>1. ToSet(s) = {s[i] : i \in 1..Len(s)}
    BY <1>1 DEF ToSet
  <2>2. Len(s) # 0 => 1 \in 1..Len(s)
    BY <1>1
  <2>3. Len(s) = 0 => 1..Len(s) = {}
    OBVIOUS
  <2> QED
    BY <1>1, <2>1, <2>2, <2>3
<1>6. IsFiniteSet(ToSet(s))
  BY <1>2, <1>3, FS_Surjection
<1> QED
  BY <1>4, <1>5, <1>6

-----------------------------------------------------------------------------
\* Elements of a smaller set.
LEMMA SeqSub ==
  ASSUME NEW S, NEW T, S \subseteq T, NEW s \in Seq(S) PROVE s \in Seq(T)
OBVIOUS

-----------------------------------------------------------------------------
(* Shapes. *)

LEMMA TypeInit == Init => TypeInv
<1> SUFFICES ASSUME Init PROVE TypeInv
  OBVIOUS
<1>1. TypeOK
  BY DEF Init, TypeOK, Idle, RxIdle, Types, Names
<1>2. MessagesInv
  BY DEF Init, MessagesInv, RxIdle, Types, Names
<1>3. MainInv /\ ListenInv /\ LeftInv
  BY RilAssumption DEF Init, MainInv, Idle, ListenInv, WakeUpIsPending, LeftInv
<1> QED
  BY <1>1, <1>2, <1>3 DEF TypeInv

\* Names of types, and what they mean.
LEMMA NamesMean == \A type \in Names : Meant(type) \in Types
BY DEF Names, Meant, Types

\* Responses: who is done with which verdict.
LEMMA DeliverShapes ==
  ASSUME TypeOK, NEW ms, IsFiniteSet(ms), Deliver(ms)
  PROVE  status' \in [Requests -> Statuses] /\ verdict' \in [Requests -> Verdicts] /\ inbox' \in [Handlers -> Nat]
<1>1. \A h \in Handlers : Cardinality({m \in ms : m.reply = h}) \in Nat
  <2> SUFFICES ASSUME NEW h \in Handlers PROVE Cardinality({m \in ms : m.reply = h}) \in Nat
    OBVIOUS
  <2>1. {m \in ms : m.reply = h} \in SUBSET ms
    OBVIOUS
  <2> QED
    BY <2>1, FS_Subset, FS_CardinalityType
<1>2. inbox' \in [Handlers -> Nat]
  <2>1. \A h \in Handlers : inbox[h] + Cardinality({m \in ms : m.reply = h}) \in Nat
    BY <1>1 DEF TypeOK
  <2> QED
    BY <2>1 DEF Deliver
<1>3. \A m : (IF m.ok THEN "ok" ELSE "refused") \in {"ok", "refused"}
  OBVIOUS
<1>4. status' \in [Requests -> Statuses] /\ verdict' \in [Requests -> Verdicts]
  BY <1>3 DEF Deliver, TypeOK, Statuses, Verdicts
<1> QED
  BY <1>2, <1>4

\* Sending keeps the shapes.
LEMMA SendShapes ==
  ASSUME TypeOK, toModem \in Seq(Asked), NEW m \in Asked, Send(m)
  PROVE  /\ toModem' \in Seq(Asked)
         /\ status' \in [Requests -> Statuses] /\ verdict' \in [Requests -> Verdicts] /\ inbox' \in [Handlers -> Nat]
<1>1. CASE connected
  <2>1. toModem' = Append(toModem, m) /\ UNCHANGED <<status, verdict, inbox>>
    BY <1>1 DEF Send
  <2>2. toModem' \in Seq(Asked)
    BY <2>1
  <2> QED
    BY <2>1, <2>2 DEF TypeOK, Statuses, Verdicts
<1>2. CASE ~connected
  <2>1. Deliver({m}) /\ toModem' = toModem
    BY <1>2 DEF Send
  <2> QED
    BY <2>1, DeliverShapes, FS_Singleton
<1> QED
  BY <1>1, <1>2

\* setPreferredNetworkType begins.
LEMMA CallShapes == ASSUME TypeInv, NEW r \in Requests, SetPreferredNetworkType(r) PROVE TypeInv'
<1>1. PICK type \in Types :
        main' = [at |-> IF NeedReconnect THEN "class" ELSE "remember", type |-> type, reply |-> r, caller |-> r]
  BY DEF SetPreferredNetworkType
<1>2. /\ status' = [status EXCEPT ![r] = "waiting"]
      /\ current' \in IF ~NeedReconnect THEN {None} ELSE IF current = None THEN Fresh ELSE {current}
      /\ UNCHANGED <<verdict, listening, desired, response, pc, inbox, rx, preferred, reported, connected, toModem,
                     replies, modem, setting, dataCall, broadcasts, lost, alive, left>>
  BY DEF SetPreferredNetworkType, radio, network
<1>3. main'.at \in {"class", "remember"} /\ main'.type = type /\ main'.reply = r /\ main'.caller = r
      /\ (main'.at = "class" => NeedReconnect)
  BY <1>1
<1>4. current' \in Handlers \cup {None} /\ (main'.at = "class" => current' \in Handlers)
  BY <1>2, <1>3 DEF Fresh, TypeInv, TypeOK
<1>5. TypeOK'
  <2>1. main' \in [at : {"idle", "class", "store", "listen", "disable", "remember", "send"},
                   type : Types \cup {Unset}, reply : Requests \cup Handlers \cup {None},
                   caller : Requests \cup {None}]
    BY <1>1
  <2>2. status' \in [Requests -> {"new", "waiting", "ignored", "ok", "refused"}]
    BY <1>2 DEF TypeInv, TypeOK
  <2> QED
    BY <1>2, <1>4, <2>1, <2>2 DEF TypeInv, TypeOK
<1>6. r \notin listening
  BY RilAssumption DEF TypeInv, TypeOK
<1>7. MainInv'
  BY <1>2, <1>3, <1>4, <1>6 DEF MainInv
<1> QED
  BY <1>2, <1>5, <1>7 DEF TypeInv, MessagesInv, ListenInv, WakeUpIsPending, LeftInv

\* hasNetworkTypeChanged, and ConnectivityHandler.setPreferedNetworkType.
LEMMA PrepareShapes ==
  ASSUME TypeInv, ReadClass \/ StoreResponse \/ StartListening \/ DisableData
  PROVE  TypeInv'
<1>0. /\ \A at : [main EXCEPT !.at = at].at = at /\ [main EXCEPT !.at = at].type = main.type
                 /\ [main EXCEPT !.at = at].reply = main.reply /\ [main EXCEPT !.at = at].caller = main.caller
      /\ \A at \in {"idle", "class", "store", "listen", "disable", "remember", "send"} :
           [main EXCEPT !.at = at] \in [at : {"idle", "class", "store", "listen", "disable", "remember", "send"},
             type : Types \cup {Unset}, reply : Requests \cup Handlers \cup {None}, caller : Requests \cup {None}]
      /\ Idle \in [at : {"idle", "class", "store", "listen", "disable", "remember", "send"},
             type : Types \cup {Unset}, reply : Requests \cup Handlers \cup {None}, caller : Requests \cup {None}]
      /\ Idle.at = "idle"
  BY DEF TypeInv, TypeOK, Idle
<1>1. CASE ReadClass
  <2>1. /\ main.at = "class"
        /\ \/ main' = [main EXCEPT !.at = "store"] /\ status' = status
           \/ main' = Idle /\ status' = [status EXCEPT ![main.caller] = "ignored"]
        /\ UNCHANGED <<verdict, current, listening, desired, response, pc, inbox, rx, preferred, reported, connected,
                       toModem, replies, modem, setting, dataCall, broadcasts, lost, alive, left>>
    BY <1>1 DEF ReadClass, fields, radio, network
  <2>2. status' \in [Requests -> {"new", "waiting", "ignored", "ok", "refused"}]
    BY <2>1 DEF TypeInv, TypeOK
  <2>3. TypeOK'
    BY <1>0, <2>1, <2>2 DEF TypeInv, TypeOK
  <2>4. MainInv'
    BY <1>0, <2>1 DEF TypeInv, MainInv
  <2> QED
    BY <2>1, <2>3, <2>4 DEF TypeInv, MessagesInv, ListenInv, WakeUpIsPending, LeftInv
<1>2. CASE StoreResponse
  <2>1. /\ main.at = "store" /\ main' = [main EXCEPT !.at = "listen"]
        /\ desired' = [desired EXCEPT ![current] = main.type]
        /\ response' = [response EXCEPT ![current] = main.caller]
        /\ UNCHANGED <<status, verdict, current, listening, pc, inbox, rx, preferred, reported, connected,
                       toModem, replies, modem, setting, dataCall, broadcasts, lost, alive, left>>
    BY <1>2 DEF StoreResponse, calls, radio, network
  <2>2. current \in Handlers /\ main.type \in Types /\ main.caller \in Requests
    BY <2>1 DEF TypeInv, MainInv
  <2>3. /\ desired' \in [Handlers -> Types \cup {Unset}] /\ response' \in [Handlers -> Requests \cup {None}]
        /\ desired'[current] = main.type /\ \A h \in Handlers : h # current => desired'[h] = desired[h]
    BY <2>1, <2>2 DEF TypeInv, TypeOK
  <2>4. TypeOK'
    BY <1>0, <2>1, <2>3 DEF TypeInv, TypeOK
  <2>5. MainInv'
    BY <1>0, <2>1, <2>2, <2>3 DEF TypeInv, MainInv
  <2>6. \A h \in listening' : desired'[h] \in Types
    BY <2>1, <2>2, <2>3 DEF TypeInv, TypeOK, ListenInv
  <2> QED
    BY <2>1, <2>4, <2>5, <2>6 DEF TypeInv, MessagesInv, ListenInv, WakeUpIsPending, LeftInv
<1>3. CASE StartListening
  <2>1. /\ main.at = "listen" /\ main' = [main EXCEPT !.at = "disable"]
        /\ broadcasts' = broadcasts \cup (IF current \in listening THEN {} ELSE LastBroadcast(current))
        /\ listening' = listening \cup {current}
        /\ UNCHANGED <<status, verdict, current, desired, response, pc, inbox, rx, preferred, reported, connected,
                       toModem, replies, modem, setting, dataCall, lost, alive, left>>
    BY <1>3 DEF StartListening, calls, radio
  <2>2. current \in Handlers /\ desired[current] \in Types
    BY <2>1 DEF TypeInv, MainInv
  <2>3. LastBroadcast(current) = IF dataCall THEN {} ELSE {current}
    BY DEF LastBroadcast
  <2>4. TypeOK'
    BY <1>0, <2>1, <2>2, <2>3 DEF TypeInv, TypeOK
  <2>5. MainInv'
    BY <1>0, <2>1, <2>2 DEF TypeInv, MainInv
  <2>6. ListenInv'
    BY <2>1, <2>2, <2>3 DEF TypeInv, ListenInv, WakeUpIsPending
  <2> QED
    BY <2>1, <2>4, <2>5, <2>6 DEF TypeInv, MessagesInv, LeftInv
<1>4. CASE DisableData
  <2>1. /\ main' = Idle /\ setting' = FALSE
        /\ UNCHANGED <<status, verdict, current, listening, desired, response, pc, inbox, rx, preferred, reported,
                       connected, toModem, replies, modem, dataCall, broadcasts, lost, alive, left>>
    BY <1>4 DEF DisableData, calls, fields, radio
  <2>0. /\ main' \in [at : {"idle", "class", "store", "listen", "disable", "remember", "send"},
             type : Types \cup {Unset}, reply : Requests \cup Handlers \cup {None}, caller : Requests \cup {None}]
        /\ main'.at = "idle" /\ setting' \in BOOLEAN
    BY <1>0, <2>1
  <2>2. TypeOK'
    BY <2>0, <2>1 DEF TypeInv, TypeOK
  <2>3. MainInv'
    BY <2>0, <2>1 DEF MainInv
  <2> QED
    BY <2>1, <2>2, <2>3 DEF TypeInv, MessagesInv, ListenInv, WakeUpIsPending, LeftInv
<1> QED
  BY <1>1, <1>2, <1>3, <1>4

\* onReceive and sendPreferedNetworktype.
LEMMA SendingShapes ==
  ASSUME TypeInv, (\E h \in Handlers : OnReceive(h)) \/ Remember \/ SendType
  PROVE  TypeInv'
<1>1. ASSUME NEW h \in Handlers, OnReceive(h) PROVE TypeInv'
  <2>1. /\ h \in broadcasts /\ broadcasts' = broadcasts \ {h} /\ listening' = listening \ {h}
        /\ main' = [at |-> "remember", type |-> desired[h], reply |-> h, caller |-> response[h]]
        /\ UNCHANGED <<status, verdict, current, desired, response, pc, inbox, rx, preferred, reported, connected,
                       toModem, replies, modem, setting, dataCall, lost, alive, left>>
    BY <1>1 DEF OnReceive, calls, radio
  <2>2. desired[h] \in Types /\ response[h] \in Requests \cup {None}
    BY <2>1 DEF TypeInv, TypeOK, ListenInv
  <2>3. main' \in [at : {"idle", "class", "store", "listen", "disable", "remember", "send"},
                   type : Types \cup {Unset}, reply : Requests \cup Handlers \cup {None}, caller : Requests \cup {None}]
        /\ main'.at = "remember" /\ main'.type = desired[h] /\ main'.reply = h
    BY <2>1, <2>2
  <2>4. TypeOK' /\ MainInv'
    BY <2>1, <2>2, <2>3 DEF TypeInv, TypeOK, MainInv
  <2>5. ListenInv'
    BY <2>1 DEF TypeInv, ListenInv, WakeUpIsPending
  <2> QED
    BY <2>1, <2>4, <2>5 DEF TypeInv, MessagesInv, LeftInv
<1>2. CASE Remember
  <2>1. /\ main.at = "remember" /\ preferred' = main.type /\ main' = [main EXCEPT !.at = "send"]
        /\ UNCHANGED <<status, verdict, current, listening, desired, response, pc, inbox, rx, reported, connected,
                       toModem, replies, modem, setting, dataCall, broadcasts, lost, alive, left>>
    BY <1>2 DEF Remember, calls, fields, radio, network
  <2>2. main.type \in Types
    BY <2>1 DEF TypeInv, MainInv
  <2>3. main' \in [at : {"idle", "class", "store", "listen", "disable", "remember", "send"},
                   type : Types \cup {Unset}, reply : Requests \cup Handlers \cup {None}, caller : Requests \cup {None}]
        /\ main'.at = "send" /\ main'.type = main.type /\ main'.reply = main.reply
    BY <2>1 DEF TypeInv, TypeOK
  <2>4. TypeOK' /\ MainInv' /\ MessagesInv'
    BY <2>1, <2>2, <2>3 DEF TypeInv, TypeOK, MainInv, MessagesInv, Names
  <2> QED
    BY <2>1, <2>4 DEF TypeInv, ListenInv, WakeUpIsPending, LeftInv
<1>3. CASE SendType
  <2>1. /\ main.at = "send" /\ main' = Idle /\ Send(Set(main.type, main.reply, main.caller))
        /\ desired' = IF main.reply \in Handlers THEN [desired EXCEPT ![main.reply] = Unset] ELSE desired
        /\ UNCHANGED <<current, listening, response, pc, rx, preferred, reported, connected, replies, modem,
                       setting, dataCall, broadcasts, lost, alive, left>>
    BY <1>3 DEF SendType, network
  <2>2. main.type \in Types /\ main.reply \in Requests \cup Handlers /\ main.reply \notin listening
    BY <2>1 DEF TypeInv, MainInv
  <2>3. Set(main.type, main.reply, main.caller) \in Asked
    BY <2>2 DEF Set, Asked, Message, Names, TypeInv, TypeOK
  <2>4. /\ toModem' \in Seq(Asked)
        /\ status' \in [Requests -> Statuses] /\ verdict' \in [Requests -> Verdicts] /\ inbox' \in [Handlers -> Nat]
    BY <2>1, <2>3, SendShapes DEF TypeInv, MessagesInv
  <2>5. desired' \in [Handlers -> Types \cup {Unset}] /\ \A h \in listening : desired'[h] = desired[h]
    BY <2>1, <2>2 DEF TypeInv, TypeOK
  <2>6. /\ Idle \in [at : {"idle", "class", "store", "listen", "disable", "remember", "send"},
             type : Types \cup {Unset}, reply : Requests \cup Handlers \cup {None}, caller : Requests \cup {None}]
        /\ Idle.at = "idle"
    BY DEF Idle
  <2>7. TypeOK'
    BY <2>1, <2>4, <2>5, <2>6 DEF TypeInv, TypeOK, Statuses, Verdicts
  <2>8. MainInv' /\ MessagesInv'
    BY <2>1, <2>4, <2>6 DEF TypeInv, MainInv, MessagesInv
  <2>9. ListenInv'
    BY <2>1, <2>5 DEF TypeInv, ListenInv, WakeUpIsPending
  <2> QED
    BY <2>1, <2>7, <2>8, <2>9 DEF TypeInv, LeftInv
<1> QED
  BY <1>1, <1>2, <1>3

\* onLost and handleMessage.
LEMMA ThreadShapes ==
  ASSUME TypeInv, NEW h \in Handlers, OnLost(h) \/ EnableData(h) \/ Answer(h) \/ Forget(h)
  PROVE  TypeInv'
<1>1. CASE OnLost(h)
  <2>1. /\ lost' = lost \ {h} /\ broadcasts' = broadcasts \cup listening
        /\ UNCHANGED <<status, verdict, current, listening, desired, response, pc, inbox, main, rx, preferred, reported,
                       connected, toModem, replies, modem, setting, dataCall, alive, left>>
    BY <1>1 DEF OnLost, calls, fields, radio
  <2>2. TypeOK' /\ ListenInv'
    BY <2>1 DEF TypeInv, TypeOK, ListenInv, WakeUpIsPending
  <2> QED
    BY <2>1, <2>2 DEF TypeInv, MessagesInv, MainInv, LeftInv
<1>2. CASE EnableData(h)
  <2>1. /\ inbox[h] > 0 /\ inbox' = [inbox EXCEPT ![h] = @ - 1] /\ setting' = TRUE
        /\ pc' = [pc EXCEPT ![h] = "answer"]
        /\ UNCHANGED <<status, verdict, current, listening, desired, response, main, rx, preferred, reported,
                       connected, toModem, replies, modem, dataCall, broadcasts, lost, alive, left>>
    BY <1>2 DEF EnableData, calls, fields, radio
  <2>2. inbox' \in [Handlers -> Nat] /\ pc' \in [Handlers -> {"idle", "answer", "forget"}]
    BY <2>1 DEF TypeInv, TypeOK
  <2>3. TypeOK'
    BY <2>1, <2>2 DEF TypeInv, TypeOK
  <2> QED
    BY <2>1, <2>3 DEF TypeInv, MessagesInv, MainInv, ListenInv, WakeUpIsPending, LeftInv
<1>3. CASE Answer(h)
  <2>1. /\ pc' = [pc EXCEPT ![h] = "forget"]
        /\ \/ alive' = FALSE /\ status' = status
           \/ status' = [status EXCEPT ![response[h]] = "ok"] /\ alive' = alive
        /\ UNCHANGED <<verdict, current, listening, desired, response, inbox, main, rx, preferred, reported,
                       connected, toModem, replies, modem, setting, dataCall, broadcasts, lost, left>>
    BY <1>3 DEF Answer, fields, radio, network
  <2>2. /\ pc' \in [Handlers -> {"idle", "answer", "forget"}]
        /\ status' \in [Requests -> {"new", "waiting", "ignored", "ok", "refused"}]
        /\ alive' \in BOOLEAN
    BY <2>1 DEF TypeInv, TypeOK
  <2>3. TypeOK'
    BY <2>1, <2>2 DEF TypeInv, TypeOK
  <2> QED
    BY <2>1, <2>3 DEF TypeInv, MessagesInv, MainInv, ListenInv, WakeUpIsPending, LeftInv
<1>4. CASE Forget(h)
  <2>1. /\ pc' = [pc EXCEPT ![h] = "idle"] /\ response' = [response EXCEPT ![h] = None]
        /\ UNCHANGED <<status, verdict, current, listening, desired, inbox, main, rx, preferred, reported,
                       connected, toModem, replies, modem, setting, dataCall, broadcasts, lost, alive, left>>
    BY <1>4 DEF Forget, calls, radio, network
  <2>2. pc' \in [Handlers -> {"idle", "answer", "forget"}] /\ response' \in [Handlers -> Requests \cup {None}]
    BY <2>1 DEF TypeInv, TypeOK
  <2>3. TypeOK'
    BY <2>1, <2>2 DEF TypeInv, TypeOK
  <2> QED
    BY <2>1, <2>3 DEF TypeInv, MessagesInv, MainInv, ListenInv, WakeUpIsPending, LeftInv
<1> QED
  BY <1>1, <1>2, <1>3, <1>4

\* Responses, and the socket that closes.
LEMMA ResponseShapes ==
  ASSUME TypeInv, ProcessSolicited \/ ResponseGetPreferredNetworkType \/ RildDies
  PROVE  TypeInv'
<1>1. CASE ProcessSolicited
  <2>1. /\ replies # << >> /\ Deliver({Head(replies)}) /\ replies' = Tail(replies)
        /\ UNCHANGED <<current, listening, desired, response, pc, main, rx, preferred, reported,
                       connected, toModem, modem, setting, dataCall, broadcasts, lost, alive, left>>
    BY <1>1 DEF ProcessSolicited, fields, network
  <2>2. status' \in [Requests -> Statuses] /\ verdict' \in [Requests -> Verdicts] /\ inbox' \in [Handlers -> Nat]
    BY <2>1, DeliverShapes, FS_Singleton DEF TypeInv
  <2>3. replies' \in Seq(Told)
    BY <2>1, TailFacts DEF TypeInv, MessagesInv
  <2>4. TypeOK'
    BY <2>1, <2>2 DEF TypeInv, TypeOK, Statuses, Verdicts
  <2>5. MessagesInv'
    BY <2>1, <2>3 DEF TypeInv, MessagesInv
  <2> QED
    BY <2>1, <2>4, <2>5 DEF TypeInv, MainInv, ListenInv, WakeUpIsPending, LeftInv
<1>2. CASE ResponseGetPreferredNetworkType
  <2>1. /\ replies # << >> /\ preferred' = Head(replies).type /\ reported' = Meant(Head(replies).type)
        /\ replies' = Tail(replies)
        /\ UNCHANGED <<status, verdict, current, listening, desired, response, pc, inbox, main, rx,
                       connected, toModem, modem, setting, dataCall, broadcasts, lost, alive, left>>
    BY <1>2 DEF ResponseGetPreferredNetworkType, calls, fields, network
  <2>2. replies' \in Seq(Told) /\ Head(replies) \in Told
    BY <2>1, TailFacts DEF TypeInv, MessagesInv
  <2>3. Head(replies).type \in Names
    BY <2>2 DEF Told
  <2>4. TypeOK'
    BY <2>1, <2>3, NamesMean DEF TypeInv, TypeOK
  <2>5. MessagesInv'
    BY <2>1, <2>2, <2>3 DEF TypeInv, MessagesInv
  <2> QED
    BY <2>1, <2>4, <2>5 DEF TypeInv, MainInv, ListenInv, WakeUpIsPending, LeftInv
<1>3. CASE RildDies
  <2> DEFINE ms == {[m EXCEPT !.ok = FALSE] : m \in ToSet(toModem) \cup ToSet(replies)}
  <2>1. /\ left.restarts > 0 /\ left' = [left EXCEPT !.restarts = @ - 1] /\ connected' = FALSE
        /\ Deliver(ms) /\ toModem' = << >> /\ replies' = << >>
        /\ UNCHANGED <<current, listening, desired, response, pc, main, rx, preferred, reported, modem,
                       setting, dataCall, broadcasts, lost, alive>>
    BY <1>3 DEF RildDies, fields, network
  <2>2. IsFiniteSet(ms)
    <3> DEFINE S == ToSet(toModem) \cup ToSet(replies)
               f == [m \in S |-> [m EXCEPT !.ok = FALSE]]
    <3>1. IsFiniteSet(S)
      BY SetOfSeq, FS_Union DEF TypeInv, MessagesInv
    <3>2. f \in Surjection(S, ms)
      BY DEF Surjection
    <3> QED
      BY <3>1, <3>2, FS_Surjection
  <2>3. status' \in [Requests -> Statuses] /\ verdict' \in [Requests -> Verdicts] /\ inbox' \in [Handlers -> Nat]
    BY <2>1, <2>2, DeliverShapes DEF TypeInv
  <2> HIDE DEF ms
  <2>4. left' \in [toggles : 0..MaxToggles, restarts : 0..MaxRestarts, queries : 0..MaxQueries]
    BY <2>1, RilAssumption DEF TypeInv, LeftInv
  <2>5. connected' \in BOOLEAN
    BY <2>1
  <2>6. TypeOK'
    BY <2>1, <2>3, <2>5 DEF TypeInv, TypeOK, Statuses, Verdicts
  <2>7. MessagesInv'
    BY <2>1 DEF TypeInv, MessagesInv
  <2> QED
    BY <2>1, <2>4, <2>6, <2>7 DEF TypeInv, MainInv, ListenInv, WakeUpIsPending, LeftInv
<1> QED
  BY <1>1, <1>2, <1>3

\* The remembered type is sent to a new rild.
LEMMA ConnectedShapes ==
  ASSUME TypeInv, RilConnected \/ RxRead \/ RxRemember \/ RxSend
  PROVE  TypeInv'
<1>0. /\ \A at \in {"idle", "read", "remember", "send"}, type \in Names \cup {Unset} :
           /\ [at |-> at, type |-> type] \in [at : {"idle", "read", "remember", "send"}, type : Names \cup {Unset}]
           /\ [at |-> at, type |-> type].at = at /\ [at |-> at, type |-> type].type = type
      /\ rx = [at |-> rx.at, type |-> rx.type] /\ rx.type \in Names \cup {Unset}
  BY DEF TypeInv, TypeOK
<1>1. CASE RilConnected
  <2>1. /\ connected' = TRUE /\ rx' = [at |-> "read", type |-> Unset]
        /\ UNCHANGED <<status, verdict, current, listening, desired, response, pc, inbox, main, preferred, reported,
                       toModem, replies, modem, setting, dataCall, broadcasts, lost, alive, left>>
    BY <1>1 DEF RilConnected, calls, fields, network
  <2>2. TypeOK' /\ MessagesInv'
    BY <1>0, <2>1 DEF TypeInv, TypeOK, MessagesInv
  <2> QED
    BY <2>1, <2>2 DEF TypeInv, MainInv, ListenInv, WakeUpIsPending, LeftInv
<1>2. CASE RxRead
  <2>1. /\ rx' = [at |-> "remember", type |-> preferred]
        /\ UNCHANGED <<status, verdict, current, listening, desired, response, pc, inbox, main, preferred, reported,
                       connected, toModem, replies, modem, setting, dataCall, broadcasts, lost, alive, left>>
    BY <1>2 DEF RxRead, calls, fields, radio, network
  <2>2. TypeOK' /\ MessagesInv'
    BY <1>0, <2>1 DEF TypeInv, TypeOK, MessagesInv
  <2> QED
    BY <2>1, <2>2 DEF TypeInv, MainInv, ListenInv, WakeUpIsPending, LeftInv
<1>3. CASE RxRemember
  <2>1. /\ rx.at = "remember" /\ preferred' = rx.type /\ rx' = [rx EXCEPT !.at = "send"]
        /\ UNCHANGED <<status, verdict, current, listening, desired, response, pc, inbox, main, reported,
                       connected, toModem, replies, modem, setting, dataCall, broadcasts, lost, alive, left>>
    BY <1>3 DEF RxRemember, calls, fields, radio, network
  <2>2. rx' = [at |-> "send", type |-> rx.type]
    BY <1>0, <2>1
  <2>3. rx.type \in Names
    BY <2>1 DEF TypeInv, MessagesInv
  <2>4. TypeOK' /\ MessagesInv'
    BY <1>0, <2>1, <2>2, <2>3 DEF TypeInv, TypeOK, MessagesInv
  <2> QED
    BY <2>1, <2>4 DEF TypeInv, MainInv, ListenInv, WakeUpIsPending, LeftInv
<1>4. CASE RxSend
  <2>1. /\ rx.at = "send" /\ Send(Set(rx.type, None, None)) /\ rx' = RxIdle
        /\ UNCHANGED <<current, listening, desired, response, pc, main, preferred, reported,
                       connected, replies, modem, setting, dataCall, broadcasts, lost, alive, left>>
    BY <1>4 DEF RxSend, fields, network
  <2>2. Set(rx.type, None, None) \in Asked
    BY <2>1 DEF Set, Asked, Message, Names, TypeInv, MessagesInv
  <2>3. /\ toModem' \in Seq(Asked)
        /\ status' \in [Requests -> Statuses] /\ verdict' \in [Requests -> Verdicts] /\ inbox' \in [Handlers -> Nat]
    BY <2>1, <2>2, SendShapes DEF TypeInv, MessagesInv
  <2>4. TypeOK'
    BY <1>0, <2>1, <2>3 DEF TypeInv, TypeOK, RxIdle, Statuses, Verdicts
  <2>5. MessagesInv'
    BY <1>0, <2>1, <2>3 DEF TypeInv, MessagesInv, RxIdle
  <2> QED
    BY <2>1, <2>4, <2>5 DEF TypeInv, MainInv, ListenInv, WakeUpIsPending, LeftInv
<1> QED
  BY <1>1, <1>2, <1>3, <1>4

\* getPreferredNetworkType, and the modem.
LEMMA ModemShapes == ASSUME TypeInv, GetPreferredNetworkType \/ Modem PROVE TypeInv'
<1>1. CASE GetPreferredNetworkType
  <2>1. /\ left.queries > 0 /\ left' = [left EXCEPT !.queries = @ - 1] /\ toModem' = Append(toModem, Get)
        /\ UNCHANGED <<status, verdict, current, listening, desired, response, pc, inbox, main, rx, preferred, reported,
                       connected, replies, modem, setting, dataCall, broadcasts, lost, alive>>
    BY <1>1 DEF GetPreferredNetworkType, calls, fields, network
  <2>2. Get \in Asked
    BY DEF Get, Asked, Message
  <2>3. toModem' \in Seq(Asked)
    BY <2>1, <2>2 DEF TypeInv, MessagesInv
  <2>4. left' \in [toggles : 0..MaxToggles, restarts : 0..MaxRestarts, queries : 0..MaxQueries]
    BY <2>1, RilAssumption DEF TypeInv, LeftInv
  <2> QED
    BY <2>1, <2>3, <2>4 DEF TypeInv, TypeOK, MessagesInv, MainInv, ListenInv, WakeUpIsPending, LeftInv
<1>2. CASE Modem
  <2> DEFINE m == Head(toModem)
  <2>1. /\ toModem # << >> /\ toModem' = Tail(toModem)
        /\ \/ m.kind = "set" /\ modem' = Meant(m.type) /\ replies' = Append(replies, [m EXCEPT !.ok = TRUE])
           \/ m.kind = "set" /\ replies' = Append(replies, m) /\ modem' = modem
           \/ /\ m.kind = "get" /\ modem' = modem
              /\ \E name \in Named(modem) : replies' = Append(replies, [m EXCEPT !.type = name])
        /\ UNCHANGED <<status, verdict, current, listening, desired, response, pc, inbox, main, rx, preferred, reported,
                       connected, setting, dataCall, broadcasts, lost, alive, left>>
    BY <1>2 DEF Modem, calls, fields, network
  <2>2. toModem' \in Seq(Asked) /\ m \in Asked
    BY <2>1, TailFacts DEF TypeInv, MessagesInv
  <2>3. m.kind = "set" => m.type \in Names /\ Meant(m.type) \in Types
    BY <2>2, NamesMean DEF Asked
  <2>4. Named(modem) \subseteq Names
    BY DEF Named, Names, Types, TypeInv, MessagesInv
  <2>5. /\ m.kind = "set" => [m EXCEPT !.ok = TRUE] \in Told /\ m \in Told
        /\ \A name \in Named(modem) : [m EXCEPT !.type = name] \in Told
    BY <2>2, <2>3, <2>4 DEF Asked, Told, Message
  <2>6. modem' \in Types
    BY <2>1, <2>3 DEF TypeInv, MessagesInv
  <2>7. PICK n \in Told : replies' = Append(replies, n)
    BY <2>1, <2>5
  <2>8. replies' \in Seq(Told)
    BY <2>7 DEF TypeInv, MessagesInv
  <2> QED
    BY <2>1, <2>2, <2>6, <2>8 DEF TypeInv, TypeOK, MessagesInv, MainInv, ListenInv, WakeUpIsPending, LeftInv
<1> QED
  BY <1>1, <1>2

\* The connection and the user.
LEMMA NetworkShapes == ASSUME TypeInv, CallEnds \/ CallStarts \/ UserTogglesData PROVE TypeInv'
<1>1. CASE CallEnds
  <2>1. /\ dataCall' = FALSE /\ broadcasts' = broadcasts \cup listening /\ lost' = lost \cup listening
        /\ UNCHANGED <<status, verdict, current, listening, desired, response, pc, inbox, main, rx, preferred, reported,
                       connected, toModem, replies, modem, setting, alive, left>>
    BY <1>1 DEF CallEnds, calls, fields, radio
  <2>2. dataCall' \in BOOLEAN
    BY <2>1
  <2>3. TypeOK'
    BY <2>1, <2>2 DEF TypeInv, TypeOK
  <2>4. ListenInv'
    BY <2>1 DEF TypeInv, ListenInv, WakeUpIsPending
  <2> QED
    BY <2>1, <2>3, <2>4 DEF TypeInv, MessagesInv, MainInv, LeftInv
<1>2. CASE CallStarts
  <2>1. /\ dataCall' = TRUE
        /\ UNCHANGED <<status, verdict, current, listening, desired, response, pc, inbox, main, rx, preferred, reported,
                       connected, toModem, replies, modem, setting, broadcasts, lost, alive, left>>
    BY <1>2 DEF CallStarts, calls, fields, radio
  <2>2. TypeOK'
    BY <2>1 DEF TypeInv, TypeOK
  <2> QED
    BY <2>1, <2>2 DEF TypeInv, MessagesInv, MainInv, ListenInv, WakeUpIsPending, LeftInv
<1>3. CASE UserTogglesData
  <2>1. /\ left.toggles > 0 /\ left' = [left EXCEPT !.toggles = @ - 1] /\ setting' = ~setting
        /\ UNCHANGED <<status, verdict, current, listening, desired, response, pc, inbox, main, rx, preferred, reported,
                       connected, toModem, replies, modem, dataCall, broadcasts, lost, alive>>
    BY <1>3 DEF UserTogglesData, calls, fields, radio
  <2>2. left' \in [toggles : 0..MaxToggles, restarts : 0..MaxRestarts, queries : 0..MaxQueries]
    BY <2>1, RilAssumption DEF TypeInv, LeftInv
  <2>3. setting' \in BOOLEAN
    BY <2>1
  <2>4. TypeOK'
    BY <2>1, <2>3 DEF TypeInv, TypeOK
  <2> QED
    BY <2>1, <2>2, <2>4 DEF TypeInv, MessagesInv, MainInv, ListenInv, WakeUpIsPending, LeftInv
<1> QED
  BY <1>1, <1>2, <1>3

LEMMA TypeStep == TypeInv /\ [Next]_vars => TypeInv'
<1> SUFFICES ASSUME TypeInv, [Next]_vars PROVE TypeInv'
  OBVIOUS
<1>1. CASE UNCHANGED vars
  BY <1>1 DEF vars, calls, fields, radio, network, TypeInv, TypeOK, MessagesInv, MainInv, ListenInv,
              WakeUpIsPending, LeftInv
<1>2. CASE Next
  BY <1>2, CallShapes, PrepareShapes, SendingShapes, ThreadShapes, ResponseShapes, ConnectedShapes, ModemShapes,
     NetworkShapes DEF Next, MainStep, RxStep
<1> QED
  BY <1>1, <1>2

\* The shapes of all variables, for any number of calls and bounds.
LEMMA TypesHold == Spec => []TypeInv
BY TypeInit, TypeStep, PTL DEF Spec

\* No type -1 is ever on its way to the modem (SamsungU8500RIL.java:361-362):
\* whoever is about to be called back still listens, and its type was not reset.
THEOREM UnsetIsNeverSent == Spec => []NeverSendsUnset
<1>1. TypeInv => NeverSendsUnset
  <2> SUFFICES ASSUME TypeInv, NEW m \in ToSet(toModem), m.kind = "set" PROVE m.type # Unset
    BY DEF NeverSendsUnset
  <2>1. m \in Asked
    BY SetOfSeq DEF TypeInv, MessagesInv
  <2> QED
    BY <2>1 DEF Asked, Names, Types, WCDMA_PREF, GSM_ONLY, WCDMA_ONLY, NT_MODE_GLOBAL, Unset
<1> QED
  BY <1>1, TypesHold, PTL

\* A connection that ends anywhere between NeedReconnect and the listening leaves
\* no handler waiting for it (SamsungU8500RIL.java:221, 288-305, 324).
THEOREM NoWakeUpIsLost == Spec => []WakeUpIsPending
<1>1. TypeInv => WakeUpIsPending
  BY DEF TypeInv, ListenInv
<1> QED
  BY <1>1, TypesHold, PTL

-----------------------------------------------------------------------------
(* Calls that wait until the one before has left no trace. *)

Messages == ToSet(toModem) \cup ToSet(replies)
Bare(s) == \A m \in ToSet(s) : m.reply = None
Sole(s) == \A i, j \in DOMAIN s : s[i].reply # None /\ s[j].reply # None => i = j
Quiet == Bare(toModem) /\ Bare(replies)

\* Handlers with a message in their queue, or on the way to the answer.
Busy == {h \in Handlers : inbox[h] > 0 \/ pc[h] = "answer"}
Waits(r) == r \in Requests /\ status[r] = "waiting"

\* Whoever a message is answered to, its call still waits.
Carries(m) ==
  m.reply # None =>
    /\ m.kind = "set" /\ Waits(m.caller)
    /\ m.reply = m.caller \/ (m.reply \in Handlers /\ response[m.reply] = m.caller)

\* At most one thing is under way for the one call that waits: a message to
\* the modem, its answer, ...
Mail ==
  /\ \A m \in Messages : Carries(m)
  /\ Sole(toModem) /\ Sole(replies) /\ (Bare(toModem) \/ Bare(replies))

\* ... a handler that listens, one that has been answered, ...
Turn ==
  /\ listening = {} \/ Busy = {}
  /\ \A h, k \in listening \cup Busy : h = k
  /\ listening \cup Busy # {} => Quiet
  /\ \A h \in Handlers : pc[h] = "forget" => listening \cup Busy = {} /\ Quiet /\ main = Idle
  /\ \A h \in Handlers : inbox[h] \in {0, 1} /\ (pc[h] = "answer" => inbox[h] = 0)
  /\ \A h \in listening \cup Busy : Waits(response[h])
  /\ \A h \in Busy : verdict[response[h]] # "none"

\* ... or the main thread.
MainTurn ==
  /\ main.at # "idle" => Busy = {} /\ Quiet /\ Waits(main.caller)
  /\ main.at \in {"class", "store", "remember", "send"} => listening = {}
  /\ main.at \in {"listen", "disable"} => listening \subseteq {current} /\ response[current] = main.caller
  /\ main.at \in {"remember", "send"} =>
       main.reply = main.caller \/ (main.reply \in Handlers /\ response[main.reply] = main.caller)

OneWork == Mail /\ Turn /\ MainTurn /\ AnswerFollowsModem

LEMMA TailAsks ==
  ASSUME NEW s \in Seq(Message), s # << >>
  PROVE  /\ Sole(s) => Sole(Tail(s))
         /\ Bare(s) => Bare(Tail(s)) /\ Head(s).reply = None
         /\ Sole(s) /\ Head(s).reply # None => Bare(Tail(s))
<1>1. /\ Tail(s) \in Seq(Message) /\ Head(s) = s[1] /\ Head(s) \in ToSet(s)
      /\ ToSet(Tail(s)) \subseteq ToSet(s)
      /\ Len(Tail(s)) = Len(s) - 1 /\ Len(s) \in Nat \ {0}
      /\ \A i \in 1..Len(s) - 1 : Tail(s)[i] = s[i + 1]
  BY TailFacts
<1>2. DOMAIN Tail(s) = 1..Len(s) - 1 /\ DOMAIN s = 1..Len(s)
  BY <1>1
<1>3. \A i \in DOMAIN Tail(s) : i + 1 \in DOMAIN s /\ Tail(s)[i] = s[i + 1] /\ i \in Nat \ {0}
  BY <1>1, <1>2
<1>4. Sole(s) => Sole(Tail(s))
  <2> SUFFICES ASSUME Sole(s), NEW i \in DOMAIN Tail(s), NEW j \in DOMAIN Tail(s),
                      Tail(s)[i].reply # None, Tail(s)[j].reply # None
               PROVE  i = j
    BY DEF Sole
  <2>1. i + 1 = j + 1
    BY <1>3 DEF Sole
  <2> QED
    BY <1>3, <2>1
<1>5. Bare(s) => Bare(Tail(s)) /\ Head(s).reply = None
  BY <1>1 DEF Bare
<1>6. Sole(s) /\ Head(s).reply # None => Bare(Tail(s))
  <2> SUFFICES ASSUME Sole(s), Head(s).reply # None, NEW i \in DOMAIN Tail(s), Tail(s)[i].reply # None
               PROVE  FALSE
    BY DEF Bare, ToSet
  <2>1. 1 = i + 1
    BY <1>1, <1>2, <1>3 DEF Sole
  <2> QED
    BY <1>3, <2>1
<1> QED
  BY <1>4, <1>5, <1>6

LEMMA AppendAsks ==
  ASSUME NEW s \in Seq(Message), NEW m \in Message
  PROVE  /\ Bare(s) => Sole(Append(s, m)) /\ Sole(s)
         /\ m.reply = None /\ Sole(s) => Sole(Append(s, m))
         /\ m.reply = None /\ Bare(s) => Bare(Append(s, m))
<1>1. /\ Append(s, m) \in Seq(Message) /\ Len(Append(s, m)) = Len(s) + 1 /\ Append(s, m)[Len(s) + 1] = m
      /\ \A i \in 1..Len(s) : Append(s, m)[i] = s[i]
      /\ ToSet(Append(s, m)) = ToSet(s) \cup {m}
  BY AppendFacts
<1>2. DOMAIN Append(s, m) = 1..Len(s) + 1 /\ DOMAIN s = 1..Len(s) /\ Len(s) \in Nat
  BY <1>1
<1>3. \A i \in DOMAIN Append(s, m) :
        (i = Len(s) + 1 /\ Append(s, m)[i] = m) \/ (i \in DOMAIN s /\ Append(s, m)[i] = s[i])
  BY <1>1, <1>2
<1>4. Bare(s) => \A i \in DOMAIN s : s[i].reply = None
  BY DEF Bare, ToSet
<1>5. Bare(s) => Sole(Append(s, m)) /\ Sole(s)
  BY <1>3, <1>4 DEF Sole
<1>6. m.reply = None /\ Sole(s) => Sole(Append(s, m))
  BY <1>3 DEF Sole
<1>7. m.reply = None /\ Bare(s) => Bare(Append(s, m))
  BY <1>1 DEF Bare
<1> QED
  BY <1>5, <1>6, <1>7

\* In a sequence where one message asks, two elements that ask are the same.
LEMMA SoleSame ==
  ASSUME NEW s, Sole(s), NEW m \in ToSet(s), NEW n \in ToSet(s), m.reply # None, n.reply # None
  PROVE  m = n
  BY DEF Sole, ToSet

\* Responses of which at most one has somebody to go to.
LEMMA DeliverOne ==
  ASSUME TypeInv, NEW ms, ms \subseteq Message, Deliver(ms),
         \A m, n \in ms : m.reply # None /\ n.reply # None => m = n
  PROVE  /\ \A r \in Requests :
              /\ (\A m \in ms : m.reply # r) => status'[r] = status[r]
              /\ \A m \in ms : m.reply = r => status'[r] = IF m.ok THEN "ok" ELSE "refused"
              /\ (\A m \in ms : m.caller # r) => verdict'[r] = verdict[r]
              /\ (\E m \in ms : m.caller = r) => verdict'[r] # "none"
         /\ \A h \in Handlers :
              /\ (\A m \in ms : m.reply # h) => inbox'[h] = inbox[h]
              /\ (\E m \in ms : m.reply = h) => inbox'[h] = inbox[h] + 1
<1> DEFINE done(r) == {m \in ms : m.reply = r}
           judged(r) == {m \in ms : m.caller = r}
           result(m) == IF m.ok THEN "ok" ELSE "refused"
<1>1. /\ \A r \in Requests :
           /\ status'[r] = IF done(r) = {} THEN status[r] ELSE result(CHOOSE m \in done(r) : TRUE)
           /\ verdict'[r] = IF judged(r) = {} THEN verdict[r] ELSE result(CHOOSE m \in judged(r) : TRUE)
      /\ \A h \in Handlers : inbox'[h] = inbox[h] + Cardinality(done(h))
  BY DEF Deliver
<1>2. \A r \in Requests \cup Handlers : r # None
  BY RilAssumption
<1>3. \A r \in Requests \cup Handlers, m \in ms : m.reply = r => done(r) = {m}
  BY <1>2
<1>4. \A r \in Requests \cup Handlers : (\A m \in ms : m.reply # r) => done(r) = {}
  OBVIOUS
<1>5. \A h \in Handlers : inbox[h] \in Nat
  BY DEF TypeInv, TypeOK
<1>6. ASSUME NEW r \in Requests
      PROVE  /\ (\A m \in ms : m.reply # r) => status'[r] = status[r]
             /\ \A m \in ms : m.reply = r => status'[r] = IF m.ok THEN "ok" ELSE "refused"
             /\ (\A m \in ms : m.caller # r) => verdict'[r] = verdict[r]
             /\ (\E m \in ms : m.caller = r) => verdict'[r] # "none"
  <2>1. (\A m \in ms : m.reply # r) => status'[r] = status[r]
    BY <1>1, <1>4
  <2>2. ASSUME NEW m \in ms, m.reply = r PROVE status'[r] = IF m.ok THEN "ok" ELSE "refused"
    <3>1. done(r) = {m}
      BY <1>3, <2>2
    <3>2. (CHOOSE n \in done(r) : TRUE) = m
      BY <3>1
    <3> QED
      BY <1>1, <3>1, <3>2
  <2>3. (\A m \in ms : m.caller # r) => judged(r) = {}
    OBVIOUS
  <2>4. (\E m \in ms : m.caller = r) => judged(r) # {}
    BY <1>2
  <2>5. \A m : result(m) # "none"
    OBVIOUS
  <2> QED
    BY <1>1, <2>1, <2>2, <2>3, <2>4, <2>5
<1>7. ASSUME NEW h \in Handlers
      PROVE  /\ (\A m \in ms : m.reply # h) => inbox'[h] = inbox[h]
             /\ (\E m \in ms : m.reply = h) => inbox'[h] = inbox[h] + 1
  <2>1. (\A m \in ms : m.reply # h) => Cardinality(done(h)) = 0
    BY <1>4, FS_EmptySet
  <2>2. (\E m \in ms : m.reply = h) => Cardinality(done(h)) = 1
    BY <1>3, FS_Singleton
  <2> QED
    BY <1>1, <1>5, <2>1, <2>2
<1> QED
  BY <1>6, <1>7

\* Primes move inside, and what a step that leaves the messages alone keeps.
LEMMA Primes ==
  /\ (Sole(toModem') <=> Sole(toModem)') /\ (Bare(toModem') <=> Bare(toModem)')
  /\ (Sole(replies') <=> Sole(replies)') /\ (Bare(replies') <=> Bare(replies)')
  /\ Messages' = ToSet(toModem') \cup ToSet(replies')
  /\ Quiet' <=> Bare(toModem') /\ Bare(replies')
BY DEF Sole, Bare, ToSet, Messages, Quiet

LEMMA QuietStays ==
  ASSUME Quiet, Mail, UNCHANGED <<toModem, replies>> PROVE Quiet' /\ Mail'
<1>1. Quiet' /\ Messages' = Messages /\ Sole(toModem)' /\ Sole(replies)' /\ Bare(toModem)'
  BY DEF Quiet, Mail, Messages, Bare, Sole, ToSet
<1>2. \A m \in Messages : m.reply = None
  BY DEF Quiet, Bare, Messages
<1>3. \A m \in Messages' : Carries(m)'
  BY <1>1, <1>2 DEF Carries
<1> QED
  BY <1>1, <1>3 DEF Mail

LEMMA WorkInit == Init => OneWork
<1> SUFFICES ASSUME Init PROVE OneWork
  OBVIOUS
<1>1. toModem = << >> /\ replies = << >> /\ ToSet(toModem) = {} /\ ToSet(replies) = {}
  BY DEF Init, ToSet
<1>2. Messages = {} /\ Quiet /\ Sole(toModem) /\ Sole(replies)
  BY <1>1 DEF Messages, Quiet, Bare, Sole
<1>3. listening = {} /\ Busy = {} /\ main.at = "idle"
  BY DEF Init, Busy, Idle
<1> QED
  BY <1>2, <1>3 DEF Init, OneWork, Mail, Turn, MainTurn, Quiet, AnswerFollowsModem

\* A message may move from one sequence to the other, and a call be judged.
LEMMA WorkMoves ==
  ASSUME OneWork, UNCHANGED <<status, current, listening, response, pc, inbox, main>>,
         \A r \in Requests : verdict[r] # "none" => verdict'[r] # "none",
         \A m \in Messages' : Carries(m),
         Sole(toModem'), Sole(replies'), Bare(toModem') \/ Bare(replies'),
         Bare(toModem) /\ Bare(replies) => Bare(toModem') /\ Bare(replies')
  PROVE  OneWork'
<1>1. Busy' = Busy /\ (Quiet => Quiet')
  BY Primes DEF Busy, Quiet
<1>2. \A m \in Messages' : Carries(m)'
  BY DEF Carries, Waits
<1>3. Mail'
  BY <1>2, Primes DEF Mail
<1>4. Turn'
  BY <1>1 DEF OneWork, Turn, Waits
<1>5. MainTurn'
  BY <1>1 DEF OneWork, MainTurn, Waits
<1>6. AnswerFollowsModem'
  BY DEF OneWork, AnswerFollowsModem
<1> QED
  BY <1>3, <1>4, <1>5, <1>6 DEF OneWork

LEMMA WorkStays ==
  ASSUME OneWork, UNCHANGED <<status, verdict, current, listening, response, pc, inbox, main, toModem, replies>>
  PROVE  OneWork'
<1>1. Messages' = Messages
  BY DEF Messages, ToSet
<1> QED
  BY <1>1, WorkMoves DEF OneWork, Mail

\* A call is made when nothing is under way, and is the one thing then.
LEMMA CallWorks ==
  ASSUME Callers = "settled", TypeInv, OneWork, NEW r \in Requests, SetPreferredNetworkType(r)
  PROVE  OneWork'
<1>1. /\ Answered /\ Settled
      /\ status' = [status EXCEPT ![r] = "waiting"]
      /\ main'.at \in {"class", "remember"} /\ main'.reply = r /\ main'.caller = r
      /\ UNCHANGED <<verdict, listening, response, pc, inbox, toModem, replies>>
  BY DEF SetPreferredNetworkType, radio
<1>2. listening = {} /\ Busy = {} /\ \A h \in Handlers : pc[h] = "idle" /\ inbox[h] = 0
  BY <1>1 DEF Settled, Busy
<1>3. Quiet
  BY <1>1 DEF OneWork, Mail, Answered, Carries, Waits, Quiet, Bare, Messages
<1>4. Quiet' /\ Mail'
  BY <1>1, <1>3, QuietStays DEF OneWork
<1>5. status'[r] = "waiting" /\ \A q \in Requests \ {r} : status'[q] = status[q]
  BY <1>1 DEF TypeInv, TypeOK
<1>6. Busy' = {} /\ listening' = {}
  BY <1>1, <1>2 DEF Busy
<1>7. Turn'
  BY <1>1, <1>2, <1>6 DEF Turn
<1>8. MainTurn'
  BY <1>1, <1>4, <1>5, <1>6 DEF MainTurn, Waits
<1>9. AnswerFollowsModem'
  BY <1>1, <1>5 DEF OneWork, AnswerFollowsModem
<1> QED
  BY <1>4, <1>7, <1>8, <1>9 DEF OneWork

\* The steps before mobile data is disabled.
LEMMA PrepareWorks ==
  ASSUME TypeInv, OneWork, ReadClass \/ StoreResponse \/ StartListening \/ DisableData
  PROVE  OneWork'
<1>1. /\ main.at \in {"class", "store", "listen", "disable"}
      /\ UNCHANGED <<verdict, current, pc, inbox, toModem, replies>>
  BY DEF ReadClass, StoreResponse, StartListening, DisableData, calls, fields, radio
<1>2. /\ Busy = {} /\ Quiet /\ Waits(main.caller)
      /\ current \in Handlers /\ main.caller \in Requests /\ main.reply = main.caller
      /\ \A h \in Handlers : pc[h] # "forget" /\ inbox[h] \in {0, 1} /\ (pc[h] = "answer" => inbox[h] = 0)
  BY <1>1 DEF OneWork, MainTurn, Turn, Idle, TypeInv, MainInv
<1>3. Quiet' /\ Mail' /\ Busy' = {}
  BY <1>1, <1>2, QuietStays DEF OneWork, Busy
<1>4. \A at : [main EXCEPT !.at = at].at = at /\ [main EXCEPT !.at = at].caller = main.caller
              /\ [main EXCEPT !.at = at].reply = main.reply
  BY DEF TypeInv, TypeOK
<1>5. ASSUME ReadClass PROVE OneWork'
  <2>1. /\ \/ main' = [main EXCEPT !.at = "store"] /\ status' = status
           \/ main' = Idle /\ status' = [status EXCEPT ![main.caller] = "ignored"]
        /\ UNCHANGED <<listening, response>> /\ listening = {}
    BY <1>5 DEF ReadClass, fields, OneWork, MainTurn
  <2>2. \A q \in Requests : status'[q] = status[q] \/ status'[q] = "ignored"
    BY <2>1 DEF TypeInv, TypeOK
  <2>3. Turn'
    BY <1>1, <1>2, <1>3, <2>1 DEF Turn
  <2>4. MainTurn'
    <3>1. CASE main' = Idle
      BY <3>1 DEF MainTurn, Idle
    <3>2. CASE main' = [main EXCEPT !.at = "store"] /\ status' = status
      BY <1>2, <1>3, <1>4, <2>1, <3>2 DEF MainTurn, Waits
    <3> QED
      BY <2>1, <3>1, <3>2
  <2>5. AnswerFollowsModem'
    BY <1>1, <2>2 DEF OneWork, AnswerFollowsModem
  <2> QED
    BY <1>3, <2>3, <2>4, <2>5 DEF OneWork
<1>6. ASSUME StoreResponse PROVE OneWork'
  <2>1. /\ main' = [main EXCEPT !.at = "listen"] /\ response' = [response EXCEPT ![current] = main.caller]
        /\ UNCHANGED <<status, listening>> /\ listening = {}
    BY <1>6 DEF StoreResponse, calls, OneWork, MainTurn
  <2>2. response'[current] = main.caller
    BY <1>2, <2>1 DEF TypeInv, TypeOK
  <2>3. Turn'
    BY <1>1, <1>2, <1>3, <2>1 DEF Turn
  <2>4. MainTurn'
    BY <1>1, <1>2, <1>3, <1>4, <2>1, <2>2 DEF MainTurn, Waits
  <2>5. AnswerFollowsModem'
    BY <1>1, <2>1 DEF OneWork, AnswerFollowsModem
  <2> QED
    BY <1>3, <2>3, <2>4, <2>5 DEF OneWork
<1>7. ASSUME StartListening PROVE OneWork'
  <2>1. /\ main' = [main EXCEPT !.at = "disable"] /\ listening' = listening \cup {current}
        /\ UNCHANGED <<status, response>>
        /\ listening \subseteq {current} /\ response[current] = main.caller
    BY <1>7 DEF StartListening, calls, OneWork, MainTurn
  <2>2. listening' = {current}
    BY <2>1
  <2>3. Waits(response[current])'
    BY <1>1, <1>2, <2>1 DEF Waits
  <2>4. Turn'
    BY <1>1, <1>2, <1>3, <2>2, <2>3 DEF Turn
  <2>5. MainTurn'
    BY <1>1, <1>2, <1>3, <1>4, <2>1, <2>2 DEF MainTurn, Waits
  <2>6. AnswerFollowsModem'
    BY <1>1, <2>1 DEF OneWork, AnswerFollowsModem
  <2> QED
    BY <1>3, <2>4, <2>5, <2>6 DEF OneWork
<1>8. ASSUME DisableData PROVE OneWork'
  <2>1. /\ main' = Idle /\ UNCHANGED <<status, listening, response>>
        /\ listening \subseteq {current} /\ response[current] = main.caller
    BY <1>8 DEF DisableData, calls, fields, OneWork, MainTurn
  <2>2. \A h \in listening : Waits(response[h])'
    BY <1>1, <1>2, <2>1 DEF Waits
  <2>3. \A h, k \in listening : h = k
    BY <2>1
  <2>4. Turn'
    BY <1>1, <1>2, <1>3, <2>1, <2>2, <2>3 DEF Turn
  <2>5. MainTurn'
    BY <2>1 DEF MainTurn, Idle
  <2>6. AnswerFollowsModem'
    BY <1>1, <2>1 DEF OneWork, AnswerFollowsModem
  <2> QED
    BY <1>3, <2>4, <2>5, <2>6 DEF OneWork
<1> QED
  BY <1>5, <1>6, <1>7, <1>8

\* Whoever is called back is the only one who listens.
LEMMA ReceiveWorks == ASSUME TypeInv, OneWork, NEW h \in Handlers, OnReceive(h) PROVE OneWork'
<1>1. /\ h \in listening /\ main = Idle /\ listening' = listening \ {h}
      /\ main' = [at |-> "remember", type |-> desired[h], reply |-> h, caller |-> response[h]]
      /\ UNCHANGED <<status, verdict, current, response, pc, inbox, toModem, replies>>
  BY DEF OnReceive, calls, radio, TypeInv, ListenInv
<1>2. /\ listening = {h} /\ Busy = {} /\ Quiet /\ Waits(response[h])
      /\ \A k \in Handlers : pc[k] # "forget" /\ inbox[k] \in {0, 1} /\ (pc[k] = "answer" => inbox[k] = 0)
  BY <1>1 DEF OneWork, Turn
<1>3. Quiet' /\ Mail' /\ Busy' = {} /\ listening' = {}
  BY <1>1, <1>2, QuietStays DEF OneWork, Busy
<1>4. Turn'
  BY <1>1, <1>2, <1>3 DEF Turn
<1>5. MainTurn'
  BY <1>1, <1>2, <1>3 DEF MainTurn, Waits
<1>6. AnswerFollowsModem'
  BY <1>1 DEF OneWork, AnswerFollowsModem
<1> QED
  BY <1>3, <1>4, <1>5, <1>6 DEF OneWork

LEMMA RememberWorks == ASSUME TypeInv, OneWork, Remember PROVE OneWork'
<1>1. /\ main.at = "remember" /\ main' = [main EXCEPT !.at = "send"]
      /\ UNCHANGED <<status, verdict, current, listening, response, pc, inbox, toModem, replies>>
  BY DEF Remember, calls, fields, radio
<1>2. main'.at = "send" /\ main'.caller = main.caller /\ main'.reply = main.reply
  BY <1>1 DEF TypeInv, TypeOK
<1>3. Busy = {} /\ listening = {} /\ Quiet /\ main # Idle
  BY <1>1 DEF OneWork, MainTurn, Idle
<1>4. Quiet' /\ Mail' /\ Busy' = {}
  BY <1>1, <1>3, QuietStays DEF OneWork, Busy
<1>5. Turn'
  BY <1>1, <1>3, <1>4 DEF OneWork, Turn
<1>6. MainTurn'
  BY <1>1, <1>2, <1>3, <1>4 DEF OneWork, MainTurn, Waits
<1>7. AnswerFollowsModem'
  BY <1>1 DEF OneWork, AnswerFollowsModem
<1> QED
  BY <1>4, <1>5, <1>6, <1>7 DEF OneWork

\* handleMessage works for the call that waits, and the main thread is idle.
LEMMA ThreadWorks ==
  ASSUME TypeInv, OneWork, NEW h \in Handlers, OnLost(h) \/ EnableData(h) \/ Answer(h) \/ Forget(h)
  PROVE  OneWork'
<1>1. CASE OnLost(h)
  BY <1>1, WorkStays DEF OnLost, calls, fields, radio
<1>2. CASE EnableData(h)
  <2>1. /\ h \in Busy /\ pc[h] = "idle" /\ inbox[h] = 1
        /\ inbox' = [inbox EXCEPT ![h] = @ - 1] /\ pc' = [pc EXCEPT ![h] = "answer"]
        /\ UNCHANGED <<status, verdict, current, listening, response, main, toModem, replies>>
    BY <1>2 DEF EnableData, calls, fields, radio, Busy, OneWork, Turn
  <2>2. Busy = {h} /\ listening = {} /\ Quiet /\ main.at = "idle"
    BY <2>1 DEF OneWork, Turn, MainTurn
  <2>3. /\ inbox'[h] = 0 /\ pc'[h] = "answer"
        /\ \A k \in Handlers \ {h} : inbox'[k] = inbox[k] /\ pc'[k] = pc[k]
    BY <2>1 DEF TypeInv, TypeOK
  <2>4. Busy' = {h} /\ listening' = {}
    BY <2>1, <2>2, <2>3 DEF Busy
  <2>5. Quiet' /\ Mail'
    BY <2>1, <2>2, QuietStays DEF OneWork
  <2>6. \A k \in Handlers : pc'[k] # "forget" /\ inbox'[k] \in {0, 1} /\ (pc'[k] = "answer" => inbox'[k] = 0)
    BY <2>1, <2>2, <2>3 DEF OneWork, Turn
  <2>7. Waits(response[h])' /\ verdict'[response'[h]] # "none"
    BY <2>1 DEF OneWork, Turn, Waits
  <2>8. Turn'
    BY <2>4, <2>5, <2>6, <2>7 DEF Turn
  <2>9. MainTurn' /\ AnswerFollowsModem'
    BY <2>1, <2>2 DEF OneWork, MainTurn, AnswerFollowsModem
  <2> QED
    BY <2>5, <2>8, <2>9 DEF OneWork
<1>3. CASE Answer(h)
  <2> DEFINE r == response[h]
  <2>1. h \in Busy /\ pc[h] = "answer"
    BY <1>3 DEF Answer, Busy
  <2>2. /\ Busy = {h} /\ listening = {} /\ Quiet /\ Waits(r) /\ verdict[r] # "none" /\ inbox[h] = 0
        /\ main = Idle
    BY <2>1 DEF OneWork, Turn, MainTurn, TypeInv, TypeOK, MainInv
  <2>3. /\ status' = [status EXCEPT ![r] = "ok"]
        /\ pc' = [pc EXCEPT ![h] = "forget"]
        /\ UNCHANGED <<verdict, current, listening, response, inbox, main, toModem, replies>>
    BY <1>3, <2>2, RilAssumption DEF Answer, fields, radio, Waits
  <2>4. pc'[h] = "forget" /\ \A k \in Handlers \ {h} : pc'[k] = pc[k]
    BY <2>3 DEF TypeInv, TypeOK
  <2>5. Busy' = {} /\ listening' = {}
    BY <2>2, <2>3, <2>4 DEF Busy
  <2>6. \A q \in Requests \ {r} : status'[q] = status[q]
    BY <2>2, <2>3 DEF TypeInv, TypeOK, Waits
  <2>7. AnswerFollowsModem'
    BY <2>2, <2>3, <2>6 DEF OneWork, AnswerFollowsModem
  <2>8. Quiet' /\ Mail'
    BY <2>2, <2>3, QuietStays DEF OneWork
  <2>9. \A k \in Handlers : inbox'[k] \in {0, 1} /\ (pc'[k] = "answer" => inbox'[k] = 0)
    BY <2>3, <2>4 DEF OneWork, Turn
  <2>10. Turn'
    BY <2>2, <2>3, <2>5, <2>8, <2>9 DEF Turn
  <2>11. MainTurn'
    BY <2>2, <2>3 DEF MainTurn, Idle
  <2> QED
    BY <2>7, <2>8, <2>10, <2>11 DEF OneWork
<1>4. CASE Forget(h)
  <2>1. /\ pc[h] = "forget" /\ pc' = [pc EXCEPT ![h] = "idle"]
        /\ UNCHANGED <<status, verdict, current, listening, inbox, main, toModem, replies>>
    BY <1>4 DEF Forget, calls, radio
  <2>2. Busy = {} /\ listening = {} /\ Quiet /\ main = Idle
    BY <2>1 DEF OneWork, Turn
  <2>3. pc'[h] = "idle" /\ \A k \in Handlers \ {h} : pc'[k] = pc[k]
    BY <2>1 DEF TypeInv, TypeOK
  <2>4. Busy' = {} /\ listening' = {}
    BY <2>1, <2>2, <2>3 DEF Busy
  <2>5. Quiet' /\ Mail'
    BY <2>1, <2>2, QuietStays DEF OneWork
  <2>6. \A k \in Handlers : inbox'[k] \in {0, 1} /\ (pc'[k] = "answer" => inbox'[k] = 0)
    BY <2>1, <2>3 DEF OneWork, Turn
  <2>7. Turn'
    BY <2>1, <2>2, <2>4, <2>5, <2>6 DEF Turn
  <2>8. MainTurn' /\ AnswerFollowsModem'
    BY <2>1, <2>2 DEF OneWork, MainTurn, AnswerFollowsModem, Idle
  <2> QED
    BY <2>5, <2>7, <2>8 DEF OneWork
<1> QED
  BY <1>1, <1>2, <1>3, <1>4

\* What is delivered to somebody ends what was under way, or wakes its handler up.
LEMMA DeliverWorks ==
  ASSUME TypeInv, OneWork, NEW ms, ms \subseteq Message, Deliver(ms), UNCHANGED <<current, listening, response, pc>>,
         \A m, n \in ms : m.reply # None /\ n.reply # None => m = n,
         \A m \in ms : Carries(m),
         \E m \in ms : m.reply # None,
         listening = {}, Busy = {}, \A h \in Handlers : pc[h] # "forget",
         Quiet', Sole(toModem'), Sole(replies'), main' = Idle
  PROVE  OneWork'
<1>1. /\ \A r \in Requests :
           /\ (\A m \in ms : m.reply # r) => status'[r] = status[r]
           /\ \A m \in ms : m.reply = r => status'[r] = IF m.ok THEN "ok" ELSE "refused"
           /\ (\A m \in ms : m.caller # r) => verdict'[r] = verdict[r]
           /\ (\E m \in ms : m.caller = r) => verdict'[r] # "none"
      /\ \A h \in Handlers :
           /\ (\A m \in ms : m.reply # h) => inbox'[h] = inbox[h]
           /\ (\E m \in ms : m.reply = h) => inbox'[h] = inbox[h] + 1
  BY DeliverOne
<1>2. \A r \in Requests : verdict[r] # "none" => verdict'[r] # "none"
  BY <1>1
<1>3. \A r \in Requests \cup Handlers : r # None
  BY RilAssumption
<1>4. PICK m \in ms : m.reply # None
  OBVIOUS
<1>5. \A n \in ms : n # m => n.reply = None
  BY <1>4
<1>6. Waits(m.caller) /\ (m.reply = m.caller \/ (m.reply \in Handlers /\ response[m.reply] = m.caller))
  BY <1>4 DEF Carries
<1>7. \A h \in Handlers : inbox[h] = 0 /\ pc[h] \notin {"answer", "forget"}
  BY DEF Busy, TypeInv, TypeOK
<1>8. Mail'
  <2>1. \A n \in Messages' : Carries(n)'
    BY DEF Quiet, Bare, Messages, Carries
  <2> QED
    BY <2>1, Primes DEF Mail
<1>9. verdict'[m.caller] # "none" /\ m.caller \in Requests
  BY <1>1, <1>4, <1>6 DEF Waits
<1>10. AnswerFollowsModem'
  <2> SUFFICES ASSUME NEW r \in Requests, status'[r] = "ok" PROVE verdict'[r] # "none"
    BY DEF AnswerFollowsModem
  <2>1. CASE \A n \in ms : n.reply # r
    BY <1>1, <1>2, <2>1 DEF OneWork, AnswerFollowsModem
  <2>2. CASE \E n \in ms : n.reply = r
    <3>1. m.reply = r
      BY <1>3, <1>5, <2>2
    <3>2. r \notin Handlers
      BY RilAssumption
    <3> QED
      BY <1>6, <1>9, <3>1, <3>2
  <2> QED
    BY <2>1, <2>2
<1>11. MainTurn'
  BY DEF MainTurn, Idle
<1>12. CASE m.reply = m.caller
  <2>1. m.caller \notin Handlers
    BY <1>9, RilAssumption
  <2>2. \A h \in Handlers, n \in ms : n.reply # h
    BY <1>3, <1>5, <1>12, <2>1
  <2>3. \A h \in Handlers : inbox'[h] = 0
    BY <1>1, <1>7, <2>2
  <2>4. Busy' = {} /\ listening' = {}
    BY <1>7, <2>3 DEF Busy
  <2>5. Turn'
    BY <1>7, <2>3, <2>4 DEF Turn
  <2> QED
    BY <1>8, <1>10, <1>11, <2>5 DEF OneWork
<1>13. CASE m.reply \in Handlers /\ response[m.reply] = m.caller
  <2> DEFINE h == m.reply
  <2>1. \A k \in Handlers \ {h}, n \in ms : n.reply # k
    BY <1>3, <1>5
  <2>2. inbox'[h] = 1 /\ \A k \in Handlers \ {h} : inbox'[k] = 0
    BY <1>1, <1>4, <1>7, <1>13, <2>1
  <2>3. Busy' = {h} /\ listening' = {}
    BY <1>7, <1>13, <2>2 DEF Busy
  <2>4. \A r \in Requests, n \in ms : n.reply # r
    <3>1. \A r \in Requests : r \notin Handlers
      BY RilAssumption
    <3> QED
      BY <1>3, <1>5, <1>13, <3>1
  <2>5. status'[m.caller] = "waiting"
    BY <1>1, <1>6, <2>4 DEF Waits
  <2>6. \A k \in Handlers : inbox'[k] \in {0, 1} /\ pc'[k] \notin {"answer", "forget"}
    BY <1>7, <2>2
  <2>7. Turn'
    BY <1>9, <1>13, <2>3, <2>5, <2>6 DEF Turn, Waits
  <2> QED
    BY <1>8, <1>10, <1>11, <2>7 DEF OneWork
<1> QED
  BY <1>6, <1>12, <1>13

\* What is delivered to nobody changes nothing.
LEMMA DeliverNothing ==
  ASSUME TypeInv, OneWork, NEW ms, ms \subseteq Message, Deliver(ms),
         UNCHANGED <<current, listening, response, pc, main>>,
         \A m \in ms : m.reply = None,
         \A m \in Messages' : Carries(m),
         Sole(toModem'), Sole(replies'), Bare(toModem') \/ Bare(replies'),
         Bare(toModem) /\ Bare(replies) => Bare(toModem') /\ Bare(replies')
  PROVE  OneWork'
<1>1. \A r \in Requests \cup Handlers : r # None
  BY RilAssumption
<1>2. /\ \A r \in Requests : status'[r] = status[r] /\ (verdict[r] # "none" => verdict'[r] # "none")
      /\ \A h \in Handlers : inbox'[h] = inbox[h]
  BY <1>1, DeliverOne
<1>3. status' = status /\ inbox' = inbox
  <2>1. status' = [r \in Requests |-> status'[r]] /\ inbox' = [h \in Handlers |-> inbox'[h]]
    BY DEF Deliver
  <2> QED
    BY <1>2, <2>1 DEF TypeInv, TypeOK
<1> QED
  BY <1>2, <1>3, WorkMoves

\* A request is appended for the main thread, or fails at once.
LEMMA SendWorks == ASSUME TypeInv, OneWork, SendType PROVE OneWork'
<1> DEFINE m == Set(main.type, main.reply, main.caller)
<1>1. /\ main.at = "send" /\ main' = Idle /\ Send(m)
      /\ UNCHANGED <<current, listening, response, pc, replies>>
  BY DEF SendType
<1>2. /\ Busy = {} /\ listening = {} /\ Quiet /\ Waits(main.caller)
      /\ main.reply = main.caller \/ (main.reply \in Handlers /\ response[main.reply] = main.caller)
      /\ main # Idle /\ main.type \in Types /\ main.reply \in Requests \cup Handlers
  BY <1>1 DEF OneWork, MainTurn, Idle, TypeInv, MainInv
<1>3. /\ m \in Message /\ m.kind = "set" /\ m.reply = main.reply /\ m.caller = main.caller /\ m.reply # None
      /\ Carries(m)
  BY <1>2, RilAssumption DEF Set, Message, Names, Waits, Carries
<1>4. \A h \in Handlers : pc[h] # "forget"
  BY <1>2 DEF OneWork, Turn
<1> HIDE DEF m
<1>5. toModem \in Seq(Message) /\ replies \in Seq(Message)
  BY SeqSub DEF TypeInv, MessagesInv, Asked, Told
<1>6. CASE connected
  <2>1. toModem' = Append(toModem, m) /\ UNCHANGED <<status, verdict, inbox>>
    BY <1>1, <1>6 DEF Send
  <2>2. Sole(toModem') /\ ToSet(toModem') = ToSet(toModem) \cup {m}
    BY <1>2, <1>3, <1>5, <2>1, AppendAsks, AppendFacts DEF Quiet
  <2>3. Bare(replies') /\ Sole(replies')
    BY <1>1, <1>2 DEF Quiet, OneWork, Mail
  <2>4. Messages' = Messages \cup {m}
    BY <1>1, <2>2, Primes DEF Messages
  <2>5. \A n \in Messages : n.reply = None
    BY <1>2 DEF Quiet, Bare, Messages
  <2>6. \A n \in Messages' : Carries(n)'
    BY <1>1, <1>3, <2>1, <2>4, <2>5 DEF Carries, Waits
  <2>7. Mail'
    BY <2>2, <2>3, <2>6, Primes DEF Mail
  <2>8. Busy' = {} /\ listening' = {}
    BY <1>1, <1>2, <2>1 DEF Busy
  <2>9. Turn'
    BY <1>1, <1>4, <2>1, <2>8 DEF OneWork, Turn
  <2>10. MainTurn' /\ AnswerFollowsModem'
    BY <1>1, <2>1 DEF OneWork, MainTurn, AnswerFollowsModem, Idle
  <2> QED
    BY <2>7, <2>9, <2>10 DEF OneWork
<1>7. CASE ~connected
  <2>1. Deliver({m}) /\ toModem' = toModem
    BY <1>1, <1>7 DEF Send
  <2>2. Quiet' /\ Sole(toModem') /\ Sole(replies')
    BY <1>1, <1>2, <2>1, QuietStays DEF OneWork, Mail
  <2>3. PICK ms : ms = {m}
    OBVIOUS
  <2>4. ms \subseteq Message /\ (\A a, b \in ms : a.reply # None /\ b.reply # None => a = b)
        /\ (\A n \in ms : Carries(n)) /\ (\E n \in ms : n.reply # None)
    BY <1>3, <2>3
  <2> QED
    BY <1>1, <1>2, <1>4, <2>1, <2>2, <2>3, <2>4, DeliverWorks
<1> QED
  BY <1>6, <1>7

\* While a message asks, nobody else works for the call.
LEMMA NobodyElse ==
  ASSUME TypeInv, OneWork, ~Quiet
  PROVE  listening = {} /\ Busy = {} /\ main = Idle /\ \A h \in Handlers : pc[h] # "forget"
BY DEF OneWork, Turn, MainTurn, TypeInv, TypeOK, MainInv

\* The messages are messages; one that asks is the only one.
LEMMA MessagesAsk ==
  ASSUME TypeInv, OneWork
  PROVE  /\ toModem \in Seq(Message) /\ replies \in Seq(Message) /\ Messages \subseteq Message
         /\ \A m \in Messages : Carries(m)
         /\ \A m, n \in Messages : m.reply # None /\ n.reply # None => m = n
         /\ \A m \in Messages : m.reply # None => ~Quiet
<1>1. toModem \in Seq(Message) /\ replies \in Seq(Message)
  BY SeqSub DEF TypeInv, MessagesInv, Asked, Told
<1>2. Messages \subseteq Message
  BY <1>1, SetOfSeq DEF Messages
<1>3. \A m, n \in Messages : m.reply # None /\ n.reply # None => m = n
  BY SoleSame DEF OneWork, Mail, Messages, Bare
<1>4. \A m \in Messages : m.reply # None => ~Quiet
  BY DEF Messages, Quiet, Bare
<1> QED
  BY <1>1, <1>2, <1>3, <1>4 DEF OneWork, Mail

LEMMA SolicitedWorks == ASSUME TypeInv, OneWork, ProcessSolicited PROVE OneWork'
<1> DEFINE m == Head(replies)
<1>1. /\ replies # << >> /\ Deliver({m}) /\ replies' = Tail(replies)
      /\ UNCHANGED <<current, listening, response, pc, main, toModem>>
  BY DEF ProcessSolicited, fields
<1>2. replies \in Seq(Message) /\ toModem \in Seq(Message)
  BY MessagesAsk
<1>3. /\ (Sole(replies) => Sole(replies')) /\ (Bare(replies) => Bare(replies') /\ m.reply = None)
      /\ Sole(replies) /\ m.reply # None => Bare(replies')
      /\ ToSet(replies') \subseteq ToSet(replies) /\ m \in Message /\ m \in ToSet(replies)
  BY <1>1, <1>2, TailAsks, TailFacts
<1>4. Sole(toModem') /\ Sole(replies') /\ (Bare(toModem') \/ Bare(replies'))
  BY <1>1, <1>3 DEF OneWork, Mail
<1>5. Carries(m) /\ \A n \in Messages' : Carries(n)
  BY <1>1, <1>3, Primes DEF OneWork, Mail, Messages
<1>6. PICK ms : ms = {m}
  OBVIOUS
<1>7. CASE m.reply = None
  <2>1. Bare(toModem) /\ Bare(replies) => Bare(toModem') /\ Bare(replies')
    BY <1>1, <1>3
  <2>2. ms \subseteq Message /\ \A n \in ms : n.reply = None
    BY <1>3, <1>6, <1>7
  <2> QED
    BY <1>1, <1>4, <1>5, <1>6, <2>1, <2>2, DeliverNothing
<1>8. CASE m.reply # None
  <2>1. listening = {} /\ Busy = {} /\ main = Idle /\ \A h \in Handlers : pc[h] # "forget"
    BY <1>3, <1>8, MessagesAsk, NobodyElse DEF Messages
  <2>2. Quiet'
    BY <1>1, <1>3, <1>8, Primes DEF OneWork, Mail
  <2>3. ms \subseteq Message /\ (\A a, b \in ms : a.reply # None /\ b.reply # None => a = b)
        /\ (\A n \in ms : Carries(n)) /\ (\E n \in ms : n.reply # None)
    BY <1>3, <1>5, <1>6, <1>8
  <2> QED
    BY <1>1, <1>4, <1>6, <2>1, <2>2, <2>3, DeliverWorks
<1> QED
  BY <1>7, <1>8

LEMMA QueryWorks == ASSUME TypeInv, OneWork, ResponseGetPreferredNetworkType PROVE OneWork'
<1>1. /\ replies # << >> /\ replies' = Tail(replies)
      /\ UNCHANGED <<status, verdict, current, listening, response, pc, inbox, main, toModem>>
  BY DEF ResponseGetPreferredNetworkType, calls, fields
<1>2. replies \in Seq(Message)
  BY MessagesAsk
<1>3. /\ (Sole(replies) => Sole(replies')) /\ (Bare(replies) => Bare(replies'))
      /\ ToSet(replies') \subseteq ToSet(replies)
  BY <1>1, <1>2, TailAsks, TailFacts
<1>4. Sole(toModem') /\ Sole(replies') /\ (Bare(toModem') \/ Bare(replies'))
      /\ (Bare(toModem) /\ Bare(replies) => Bare(toModem') /\ Bare(replies'))
  BY <1>1, <1>3 DEF OneWork, Mail
<1>5. \A m \in Messages' : Carries(m)
  BY <1>1, <1>3, Primes DEF OneWork, Mail, Messages
<1> QED
  BY <1>1, <1>4, <1>5, WorkMoves

\* Whatever was pending fails, and at most one failure has somebody to go to.
LEMMA DisconnectWorks == ASSUME TypeInv, OneWork, RildDies PROVE OneWork'
<1> DEFINE failed(m) == [m EXCEPT !.ok = FALSE]
           ms == {failed(m) : m \in Messages}
<1>1. /\ Deliver(ms) /\ toModem' = << >> /\ replies' = << >>
      /\ UNCHANGED <<current, listening, response, pc, main>>
  BY DEF RildDies, fields, Messages
<1>2. ToSet(toModem') = {} /\ ToSet(replies') = {}
  BY <1>1 DEF ToSet
<1>3. Bare(toModem') /\ Bare(replies') /\ Sole(toModem') /\ Sole(replies') /\ Messages' = {} /\ Quiet'
  BY <1>1, <1>2, Primes DEF Bare, Sole
<1>4. \A m \in Message : /\ failed(m) \in Message /\ failed(m).reply = m.reply
                         /\ failed(m).caller = m.caller /\ failed(m).kind = m.kind
  BY DEF Message
<1>5. ms \subseteq Message /\ \A m \in ms : Carries(m)
  <2>1. \A m \in Messages : m \in Message /\ Carries(m)
    BY MessagesAsk
  <2>2. \A m \in Messages : failed(m) \in Message /\ Carries(failed(m))
    BY <1>4, <2>1 DEF Carries
  <2> QED
    BY <2>2
<1>6. ASSUME NEW a \in ms, NEW b \in ms, a.reply # None, b.reply # None PROVE a = b
  <2>1. PICK c \in Messages, d \in Messages : a = failed(c) /\ b = failed(d)
    OBVIOUS
  <2>2. c = d
    BY <1>4, <1>6, <2>1, MessagesAsk
  <2> QED
    BY <2>1, <2>2
<1>7. PICK mm : mm = ms
  OBVIOUS
<1>8. CASE \A m \in ms : m.reply = None
  <2> HIDE DEF ms
  <2> QED
    BY <1>1, <1>3, <1>5, <1>7, <1>8, DeliverNothing
<1>9. CASE \E m \in ms : m.reply # None
  <2>1. ~Quiet
    BY <1>4, <1>9, MessagesAsk
  <2>2. listening = {} /\ Busy = {} /\ main = Idle /\ \A h \in Handlers : pc[h] # "forget"
    BY <2>1, NobodyElse
  <2> HIDE DEF ms
  <2> QED
    BY <1>1, <1>3, <1>5, <1>6, <1>7, <1>9, <2>2, DeliverWorks
<1> QED
  BY <1>8, <1>9

\* A message for nobody may join those on their way.
LEMMA JoinWorks ==
  ASSUME TypeInv, OneWork, NEW m \in Message, m.reply = None, toModem' = Append(toModem, m),
         UNCHANGED <<status, verdict, current, listening, response, pc, inbox, main, replies>>
  PROVE  OneWork'
<1>1. toModem \in Seq(Message)
  BY MessagesAsk
<1>2. /\ (Sole(toModem) => Sole(toModem')) /\ (Bare(toModem) => Bare(toModem'))
      /\ ToSet(toModem') = ToSet(toModem) \cup {m}
  BY <1>1, AppendAsks, AppendFacts
<1>3. Sole(toModem') /\ Sole(replies') /\ (Bare(toModem') \/ Bare(replies'))
      /\ (Bare(toModem) /\ Bare(replies) => Bare(toModem') /\ Bare(replies'))
  BY <1>2 DEF OneWork, Mail
<1>4. \A n \in Messages' : Carries(n)
  BY <1>2, Primes DEF OneWork, Mail, Messages, Carries
<1> QED
  BY <1>3, <1>4, WorkMoves

LEMMA ConnectedWorks ==
  ASSUME TypeInv, OneWork, RilConnected \/ RxRead \/ RxRemember \/ RxSend
  PROVE  OneWork'
<1>1. CASE RilConnected \/ RxRead \/ RxRemember
  BY <1>1, WorkStays DEF RilConnected, RxRead, RxRemember, calls, fields, radio
<1>2. CASE RxSend
  <2> DEFINE m == Set(rx.type, None, None)
  <2>1. Send(m) /\ UNCHANGED <<current, listening, response, pc, main, replies>>
    BY <1>2 DEF RxSend, fields
  <2>2. m \in Message /\ m.reply = None /\ m.kind = "set"
    BY DEF Set, Message, TypeInv, TypeOK
  <2> HIDE DEF m
  <2>3. CASE connected
    BY <2>1, <2>2, <2>3, JoinWorks DEF Send
  <2>4. CASE ~connected
    <3>1. Deliver({m}) /\ toModem' = toModem
      BY <2>1, <2>4 DEF Send
    <3>2. PICK ms : ms = {m}
      OBVIOUS
    <3>3. ms \subseteq Message /\ \A n \in ms : n.reply = None
      BY <2>2, <3>2
    <3>4. Messages' = Messages
      BY <2>1, <3>1, Primes DEF Messages
    <3>5. Sole(toModem') /\ Sole(replies') /\ (Bare(toModem') \/ Bare(replies'))
          /\ (Bare(toModem) /\ Bare(replies) => Bare(toModem') /\ Bare(replies'))
          /\ \A n \in Messages' : Carries(n)
      BY <2>1, <3>1, <3>4 DEF OneWork, Mail
    <3> QED
      BY <2>1, <3>1, <3>2, <3>3, <3>5, DeliverNothing
  <2> QED
    BY <2>3, <2>4
<1> QED
  BY <1>1, <1>2

LEMMA ModemWorks == ASSUME TypeInv, OneWork, GetPreferredNetworkType \/ Modem PROVE OneWork'
<1>1. CASE GetPreferredNetworkType
  <2>1. Get \in Message /\ Get.reply = None
    BY DEF Get, Message
  <2>2. toModem' = Append(toModem, Get)
        /\ UNCHANGED <<status, verdict, current, listening, response, pc, inbox, main, replies>>
    BY <1>1 DEF GetPreferredNetworkType, calls, fields
  <2> QED
    BY <2>1, <2>2, JoinWorks
<1>2. CASE Modem
  <2> DEFINE m == Head(toModem)
  <2>1. /\ toModem # << >> /\ toModem' = Tail(toModem)
        /\ UNCHANGED <<status, verdict, current, listening, response, pc, inbox, main>>
    BY <1>2 DEF Modem, calls, fields
  <2>2. /\ (Sole(toModem) => Sole(toModem')) /\ (Bare(toModem) => Bare(toModem') /\ m.reply = None)
        /\ Sole(toModem) /\ m.reply # None => Bare(toModem')
        /\ ToSet(toModem') \subseteq ToSet(toModem) /\ m \in Message /\ m \in ToSet(toModem)
    BY <2>1, TailAsks, TailFacts, MessagesAsk
  <2>3. PICK type \in Names \cup {Unset} :
          \E n \in {m, [m EXCEPT !.ok = TRUE], [m EXCEPT !.type = type]} : replies' = Append(replies, n)
    <3>1. Named(modem) \subseteq Names
      BY DEF Named, Names, Types, TypeInv, MessagesInv
    <3> QED
      BY <1>2, <3>1 DEF Modem
  <2>4. PICK n \in {m, [m EXCEPT !.ok = TRUE], [m EXCEPT !.type = type]} : replies' = Append(replies, n)
    BY <2>3
  <2>5. n \in Message /\ n.reply = m.reply /\ n.caller = m.caller /\ n.kind = m.kind
    BY <2>2 DEF Message
  <2>6. /\ Bare(replies) => Sole(replies')
        /\ n.reply = None /\ Sole(replies) => Sole(replies')
        /\ n.reply = None /\ Bare(replies) => Bare(replies')
        /\ ToSet(replies') = ToSet(replies) \cup {n}
    BY <2>4, <2>5, AppendAsks, AppendFacts, MessagesAsk
  <2>7. Sole(toModem') /\ Sole(replies') /\ (Bare(toModem') \/ Bare(replies'))
    <3>1. CASE m.reply = None
      BY <2>2, <2>5, <2>6, <3>1 DEF OneWork, Mail
    <3>2. CASE m.reply # None
      BY <2>2, <2>6, <3>2 DEF OneWork, Mail, Bare
    <3> QED
      BY <3>1, <3>2
  <2>8. Bare(toModem) /\ Bare(replies) => Bare(toModem') /\ Bare(replies')
    BY <2>2, <2>5, <2>6
  <2>9. \A k \in Messages' : Carries(k)
    <3>1. Carries(n)
      BY <2>2, <2>5 DEF OneWork, Mail, Messages, Carries
    <3> QED
      BY <2>2, <2>6, <3>1, Primes DEF OneWork, Mail, Messages
  <2> QED
    BY <2>1, <2>7, <2>8, <2>9, WorkMoves
<1> QED
  BY <1>1, <1>2

LEMMA WorkStep == Callers = "settled" /\ TypeInv /\ OneWork /\ [Next]_vars => OneWork'
<1>1. OneWork /\ (CallEnds \/ CallStarts \/ UserTogglesData \/ UNCHANGED vars) => OneWork'
  BY WorkStays DEF CallEnds, CallStarts, UserTogglesData, vars, calls, fields, radio
<1> QED
  BY <1>1, CallWorks, PrepareWorks, ReceiveWorks, RememberWorks, SendWorks, ThreadWorks, SolicitedWorks, QueryWorks,
     DisconnectWorks, ConnectedWorks, ModemWorks DEF Next, MainStep, RxStep

LEMMA WorkHolds == Callers = "settled" => (Spec => [](TypeInv /\ OneWork))
<1> SUFFICES ASSUME Callers = "settled" PROVE Spec => [](TypeInv /\ OneWork)
  OBVIOUS
<1> QED
  BY TypeInit, TypeStep, WorkInit, WorkStep, PTL DEF Spec

\* When each call waits until the one before has left no trace, no caller hears
\* of success before the modem has answered (SamsungU8500RIL.java:277, 334-338),
\* whatever restarts, queries, toggles and data calls come in between.
THEOREM NobodyIsAnsweredEarly == Callers = "settled" => (Spec => []AnswerFollowsModem)
<1> SUFFICES ASSUME Callers = "settled" PROVE Spec => []AnswerFollowsModem
  OBVIOUS
<1>1. OneWork => AnswerFollowsModem
  BY DEF OneWork
<1> QED
  BY <1>1, WorkHolds, PTL
=============================================================================
