-------------------------- MODULE MqttClientProofs --------------------------
(***************************************************************************)
(* Safety of MqttClient for every set of patterns and topics, every        *)
(* relation between them and any number of calls.                          *)
(*                                                                         *)
(* None of the three invariants is inductive.  LoopOnce rests on the flag  *)
(* m_mosquittoLoopStarted outliving the library thread; ConfirmedExact and *)
(* DeliveredExact rest on a message id being used once, on how far the     *)
(* subscribe() in progress has come, and on every observer of a subject    *)
(* belonging to a subscribe() for that very pattern.                       *)
(***************************************************************************)
EXTENDS MqttClient, FiniteSetTheorems, TLAPS

PatternsOrNone == Patterns \cup {NoPattern}

(* The types of the members, of the history and of the call in progress. *)
StateOK ==
    /\ loops \in Nat /\ started \in Nat
    /\ client \in {"none", "made", "gone"}
    /\ m_mosquittoLoopStarted \in BOOLEAN
    /\ mids \in 0 .. MaxMids
    /\ unacked \subseteq Mids
    /\ returned \subseteq Mids
    /\ m_subscriptions \in [Mids -> PatternsOrNone]
    /\ asked \in [Mids -> PatternsOrNone]
    /\ m_onMessageSubject \in [Patterns -> SUBSET Mids]

HistoryOK ==
    /\ told \in [Mids -> SUBSET [pattern : PatternsOrNone, late : BOOLEAN]]
    /\ calls \in [Mids -> Nat]

UserOK ==
    user \in [step : {"idle", "sent", "recorded", "ending"},
              mid : 0 .. MaxMids, pattern : PatternsOrNone]

(* The flag is set while the library thread runs, and it is reset only     *)
(* when the client is destroyed, which cannot be undone.                   *)
LoopFollowed ==
    /\ loops <= started /\ started <= 1
    /\ loops = 1 => m_mosquittoLoopStarted
    /\ m_mosquittoLoopStarted => client = "made"
    /\ started = 1 /\ ~m_mosquittoLoopStarted => client = "gone"
    /\ user.step # "idle" => client = "made"

(* An id that is not used yet is nowhere. *)
IdsFresh ==
    \A m \in Mids : m > mids =>
        /\ m \notin returned
        /\ m \notin unacked
        /\ told[m] = {}
        /\ m_subscriptions[m] = NoPattern

(* How far the subscribe() in progress has come. *)
CallExact ==
    user.step \in {"sent", "recorded"} =>
        /\ user.mid \in Mids /\ user.mid <= mids /\ user.mid \notin returned
        /\ user.pattern \in Patterns /\ asked[user.mid] = user.pattern
        /\ user.step = "recorded" => m_subscriptions[user.mid] = user.pattern

(* What m_subscriptions has for an id, if anything, is what was asked.     *)
RecordedExact ==
    \A m \in Mids :
        /\ m_subscriptions[m] \in {asked[m], NoPattern}
        /\ m \in returned => asked[m] \in Patterns /\ m_subscriptions[m] = asked[m]

ToldExact ==
    \A m \in Mids : \A x \in told[m] :
        x.pattern = asked[m] \/ (x.pattern = NoPattern /\ ~x.late)

(* A subject's observers are the callbacks of the subscribe() calls for    *)
(* its pattern.                                                            *)
ObserversExact ==
    \A p \in Patterns : \A m \in Mids :
        m \in m_onMessageSubject[p] <=> (m \in returned /\ asked[m] = p)

MqttInv ==
    /\ StateOK /\ HistoryOK /\ UserOK /\ LoopFollowed /\ IdsFresh /\ CallExact /\ RecordedExact
    /\ ToldExact /\ ObserversExact /\ calls = due

-----------------------------------------------------------------------------
(* The initial state satisfies the inductive invariant. *)
LEMMA InitMqttInv == MqttInit => MqttInv
<1> SUFFICES ASSUME MqttInit PROVE MqttInv
  OBVIOUS
<1> USE MqttAssumption DEF MqttInit, Mids, NoCall
<1>1. StateOK
  <2>1. /\ m_subscriptions \in [Mids -> PatternsOrNone]
        /\ asked \in [Mids -> PatternsOrNone]
    BY DEF PatternsOrNone
  <2>2. m_onMessageSubject \in [Patterns -> SUBSET Mids]
    OBVIOUS
  <2>3. /\ loops \in Nat /\ started \in Nat /\ mids \in 0 .. MaxMids
        /\ unacked \subseteq Mids /\ returned \subseteq Mids
    OBVIOUS
  <2>4. client \in {"none", "made", "gone"} /\ m_mosquittoLoopStarted \in BOOLEAN
    OBVIOUS
  <2> QED BY <2>1, <2>2, <2>3, <2>4 DEF StateOK
<1>a. HistoryOK BY DEF HistoryOK
<1>b. UserOK BY DEF UserOK, PatternsOrNone
<1>2. LoopFollowed /\ IdsFresh BY DEF LoopFollowed, IdsFresh
<1>3. CallExact /\ RecordedExact BY DEF CallExact, RecordedExact
<1>4. ToldExact /\ ObserversExact /\ calls = due
  BY DEF ToldExact, ObserversExact
<1> QED BY <1>1, <1>a, <1>b, <1>2, <1>3, <1>4 DEF MqttInv

(* A message reaches a callback once: its id observes the subject of one   *)
(* pattern only, whichever other patterns match the topic as well.         *)
LEMMA CalledOnce ==
    ASSUME MqttInv, NEW t \in Topics, NEW m \in Mids
    PROVE  Cardinality({p \in Matching(t) : m \in m_onMessageSubject[p]})
               = IF m \in returned /\ asked[m] \in Matching(t) THEN 1 ELSE 0
<1> DEFINE P == {p \in Matching(t) : m \in m_onMessageSubject[p]}
<1>1. \A p \in Matching(t) :
          m \in m_onMessageSubject[p] <=> (m \in returned /\ asked[m] = p)
  BY DEF MqttInv, ObserversExact, Matching
<1>2. CASE m \in returned /\ asked[m] \in Matching(t)
  <2>1. P = {asked[m]} BY <1>1, <1>2
  <2> QED BY <1>2, <2>1, FS_Singleton
<1>3. CASE ~(m \in returned /\ asked[m] \in Matching(t))
  <2>1. P = {} BY <1>1, <1>3
  <2> QED BY <1>3, <2>1, FS_EmptySet
<1> QED BY <1>2, <1>3

(* Creating, connecting, disconnecting and destroying the client leave the *)
(* subscriptions alone.                                                    *)
LEMMA ConnectionStep ==
    ASSUME MqttInv,
           \/ LibInit \/ CreateClient \/ LibCleanup \/ Connect \/ Disconnect
           \/ DestroyBegins \/ DestroyEnds
           \/ HandleConnect \/ HandleDisconnect \/ LoopEnds \/ Reconnect \/ UNCHANGED mqttVars
    PROVE  MqttInv'
<1> USE MqttAssumption DEF MqttInv, Mids, NoCall, connection, maps, history,
        LibInit, CreateClient, InitClient, LibCleanup, Connect, StartLoop, Disconnect,
        DestroyBegins, DestroyEnds, HandleConnect, HandleDisconnect, LoopEnds, Reconnect, Idle, mqttVars
<1>1. StateOK'
  <2>1. mids' = mids /\ unacked' \subseteq unacked /\ UNCHANGED <<maps, returned, asked>>
    OBVIOUS
  <2>2. /\ loops' \in Nat /\ started' \in Nat
        /\ client' \in {"none", "made", "gone"}
        /\ m_mosquittoLoopStarted' \in BOOLEAN
    <3>1. client' \in {client, "none", "made", "gone"} BY Zenon
    <3>2. m_mosquittoLoopStarted' \in {m_mosquittoLoopStarted, TRUE, FALSE} BY Zenon
    <3>3. loops' \in {loops, loops + 1, 0} \cup (IF loops > 0 THEN {loops - 1} ELSE {}) /\ started' \in {started, started + 1}
      OBVIOUS
    <3>4. client' \in {"none", "made", "gone"} BY ONLY <3>1, StateOK DEF StateOK
    <3>5. m_mosquittoLoopStarted' \in BOOLEAN
      BY ONLY <3>2, StateOK, Zenon DEF StateOK
    <3>6. loops' \in Nat /\ started' \in Nat BY ONLY <3>3, StateOK DEF StateOK
    <3> QED BY ONLY <3>4, <3>5, <3>6
  <2> QED BY <2>1, <2>2 DEF StateOK
<1>2. HistoryOK'
  BY DEF HistoryOK, StateOK
<1>3. UserOK'
  BY DEF UserOK, StateOK, PatternsOrNone
<1>4. LoopFollowed'
  BY DEF LoopFollowed, StateOK, UserOK
<1>5. IdsFresh'
  BY DEF IdsFresh, StateOK, CallExact, HistoryOK
<1>6. CallExact'
  BY DEF CallExact, StateOK, UserOK
<1>7. RecordedExact'
  BY DEF RecordedExact, CallExact, StateOK, IdsFresh
<1>8. ToldExact'
  BY DEF ToldExact, StateOK, IdsFresh, HistoryOK
<1>9. ObserversExact'
  BY DEF ObserversExact, CallExact, StateOK, IdsFresh
<1>10. calls' = due'
  BY DEF StateOK, HistoryOK
<1> QED BY <1>1, <1>2, <1>3, <1>4, <1>5, <1>6, <1>7, <1>8, <1>9, <1>10

(* publish() uses up an id. *)
LEMMA PublishStep ==
    ASSUME MqttInv, Publish
    PROVE  MqttInv'
<1> USE MqttAssumption DEF MqttInv, Mids, NoCall, connection, maps, history,
        Publish
<1>1. StateOK'
  BY DEF StateOK, PatternsOrNone, CallExact
<1>2. HistoryOK'
  BY DEF HistoryOK, StateOK
<1>3. UserOK'
  BY DEF UserOK, StateOK, PatternsOrNone
<1>4. LoopFollowed'
  BY DEF LoopFollowed, StateOK, UserOK
<1>5. IdsFresh'
  BY DEF IdsFresh, StateOK, CallExact, HistoryOK
<1>6. CallExact'
  BY DEF CallExact, StateOK, UserOK
<1>7. RecordedExact'
  BY DEF RecordedExact, CallExact, StateOK, IdsFresh
<1>8. ToldExact'
  BY DEF ToldExact, StateOK, IdsFresh, HistoryOK
<1>9. ObserversExact'
  BY DEF ObserversExact, CallExact, StateOK, IdsFresh
<1>10. calls' = due'
  BY DEF StateOK, HistoryOK
<1> QED BY <1>1, <1>2, <1>3, <1>4, <1>5, <1>6, <1>7, <1>8, <1>9, <1>10

(* subscribe() takes an id that was never used ... *)
LEMMA SubscribeSendsStep ==
    ASSUME MqttInv, NEW p \in Patterns, SubscribeSends(p)
    PROVE  MqttInv'
<1> USE MqttAssumption DEF MqttInv, Mids, NoCall, connection, maps, history,
        SubscribeSends, Idle
<1>1. StateOK'
  BY DEF StateOK, PatternsOrNone, CallExact
<1>2. HistoryOK'
  BY DEF HistoryOK, StateOK
<1>3. UserOK'
  BY DEF UserOK, StateOK, PatternsOrNone
<1>4. LoopFollowed'
  BY DEF LoopFollowed, StateOK, UserOK
<1>5. IdsFresh'
  BY DEF IdsFresh, StateOK, CallExact, HistoryOK
<1>6. CallExact'
  <2>1. mids' \in Mids /\ mids' \notin returned
    BY DEF StateOK, IdsFresh
  <2>2. asked'[mids'] = p BY <2>1 DEF StateOK
  <2>3. user'.step = "sent" /\ user'.mid = mids' /\ user'.pattern = p
    OBVIOUS
  <2> QED BY <2>1, <2>2, <2>3 DEF CallExact
<1>7. RecordedExact'
  BY DEF RecordedExact, CallExact, StateOK, IdsFresh
<1>8. ToldExact'
  BY DEF ToldExact, StateOK, IdsFresh, HistoryOK
<1>9. ObserversExact'
  BY DEF ObserversExact, CallExact, StateOK, IdsFresh
<1>10. calls' = due'
  BY DEF StateOK, HistoryOK
<1> QED BY <1>1, <1>2, <1>3, <1>4, <1>5, <1>6, <1>7, <1>8, <1>9, <1>10

(* ... records the pattern under it ... *)
LEMMA SubscribeRecordsStep ==
    ASSUME MqttInv, SubscribeRecords
    PROVE  MqttInv'
<1> USE MqttAssumption DEF MqttInv, Mids, NoCall, connection, maps, history,
        SubscribeRecords
<1>1. StateOK'
  BY DEF StateOK, PatternsOrNone, CallExact
<1>2. HistoryOK'
  BY DEF HistoryOK, StateOK
<1>3. UserOK'
  BY DEF UserOK, StateOK, PatternsOrNone
<1>4. LoopFollowed'
  BY DEF LoopFollowed, StateOK, UserOK
<1>5. IdsFresh'
  BY DEF IdsFresh, StateOK, CallExact, HistoryOK
<1>6. CallExact'
  BY DEF CallExact, StateOK, UserOK
<1>7. RecordedExact'
  BY DEF RecordedExact, CallExact, StateOK, IdsFresh
<1>8. ToldExact'
  BY DEF ToldExact, StateOK, IdsFresh, HistoryOK
<1>9. ObserversExact'
  BY DEF ObserversExact, CallExact, StateOK, IdsFresh
<1>10. calls' = due'
  BY DEF StateOK, HistoryOK
<1> QED BY <1>1, <1>2, <1>3, <1>4, <1>5, <1>6, <1>7, <1>8, <1>9, <1>10

(* ... and makes the callback an observer of the pattern's subject. *)
LEMMA SubscribeReturnsStep ==
    ASSUME MqttInv, SubscribeReturns
    PROVE  MqttInv'
<1> USE MqttAssumption DEF MqttInv, Mids, NoCall, connection, maps, history,
        SubscribeReturns, Observes
<1>1. StateOK'
  BY DEF StateOK, PatternsOrNone, CallExact
<1>2. HistoryOK'
  BY DEF HistoryOK, StateOK
<1>3. UserOK'
  BY DEF UserOK, StateOK, PatternsOrNone
<1>4. LoopFollowed'
  BY DEF LoopFollowed, StateOK, UserOK
<1>5. IdsFresh'
  BY DEF IdsFresh, StateOK, CallExact, HistoryOK
<1>6. CallExact'
  BY DEF CallExact, StateOK, UserOK
<1>7. RecordedExact'
  BY DEF RecordedExact, CallExact, StateOK, IdsFresh
<1>8. ToldExact'
  BY DEF ToldExact, StateOK, IdsFresh, HistoryOK
<1>9. ObserversExact'
  BY DEF ObserversExact, CallExact, StateOK, IdsFresh
<1>10. calls' = due'
  BY DEF StateOK, HistoryOK
<1> QED BY <1>1, <1>2, <1>3, <1>4, <1>5, <1>6, <1>7, <1>8, <1>9, <1>10

(* onSubscribe is told what is recorded for the id. *)
LEMMA HandleSubscribeStep ==
    ASSUME MqttInv, NEW m \in Mids, HandleSubscribe(m)
    PROVE  MqttInv'
<1> USE MqttAssumption DEF MqttInv, Mids, NoCall, connection, maps, history,
        HandleSubscribe, MayRace
<1>1. StateOK'
  BY DEF StateOK, PatternsOrNone, CallExact
<1>2. HistoryOK'
  <2>1. [pattern |-> m_subscriptions[m], late |-> m \in returned]
            \in [pattern : PatternsOrNone, late : BOOLEAN]
    BY DEF StateOK
  <2> QED BY <2>1 DEF HistoryOK
<1>3. UserOK'
  BY DEF UserOK, StateOK, PatternsOrNone
<1>4. LoopFollowed'
  BY DEF LoopFollowed, StateOK, UserOK
<1>5. IdsFresh'
  BY DEF IdsFresh, StateOK, CallExact, HistoryOK
<1>6. CallExact'
  BY DEF CallExact, StateOK, UserOK
<1>7. RecordedExact'
  BY DEF RecordedExact, CallExact, StateOK, IdsFresh
<1>8. ToldExact'
  <2> DEFINE new == [pattern |-> m_subscriptions[m], late |-> m \in returned]
  <2> SUFFICES ASSUME NEW k \in Mids, NEW x \in told'[k]
               PROVE  x.pattern = asked[k] \/ (x.pattern = NoPattern /\ ~x.late)
    BY DEF ToldExact
  <2>1. x \in told[k] \/ (k = m /\ x = new) BY DEF HistoryOK
  <2>2. CASE x \in told[k] BY <2>2 DEF ToldExact
  <2>3. CASE k = m /\ x = new BY <2>3 DEF RecordedExact
  <2> QED BY <2>1, <2>2, <2>3
<1>9. ObserversExact'
  BY DEF ObserversExact, CallExact, StateOK, IdsFresh
<1>10. calls' = due'
  BY DEF StateOK, HistoryOK
<1> QED BY <1>1, <1>2, <1>3, <1>4, <1>5, <1>6, <1>7, <1>8, <1>9, <1>10

(* A message is delivered as often as it is due. *)
LEMMA HandleMessageStep ==
    ASSUME MqttInv, NEW t \in Topics, HandleMessage(t)
    PROVE  MqttInv'
<1> USE MqttAssumption DEF MqttInv, Mids, NoCall, connection, maps, history,
        HandleMessage, MayRace
<1>0. \A m \in Mids :
          Cardinality({p \in Matching(t) : m \in m_onMessageSubject[p]})
              = IF m \in returned /\ asked[m] \in Matching(t) THEN 1 ELSE 0
  BY CalledOnce
<1>1. StateOK'
  BY DEF StateOK, PatternsOrNone, CallExact
<1>2. HistoryOK'
  <2>1. ASSUME NEW m \in Mids PROVE calls'[m] \in Nat
    <3>1. Cardinality({p \in Matching(t) : m \in m_onMessageSubject[p]}) \in Nat
      BY <1>0
    <3>2. calls'[m] = calls[m]
             + Cardinality({p \in Matching(t) : m \in m_onMessageSubject[p]})
      OBVIOUS
    <3>3. calls[m] \in Nat BY DEF HistoryOK
    <3> QED BY <3>1, <3>2, <3>3
  <2>2. DOMAIN calls' = Mids /\ calls' = [m \in Mids |-> calls'[m]] OBVIOUS
  <2> QED BY <2>1, <2>2 DEF HistoryOK
<1>3. UserOK'
  BY DEF UserOK, StateOK, PatternsOrNone
<1>4. LoopFollowed'
  BY DEF LoopFollowed, StateOK, UserOK
<1>5. IdsFresh'
  BY DEF IdsFresh, StateOK, CallExact, HistoryOK
<1>6. CallExact'
  BY DEF CallExact, StateOK, UserOK
<1>7. RecordedExact'
  BY DEF RecordedExact, CallExact, StateOK, IdsFresh
<1>8. ToldExact'
  BY DEF ToldExact, StateOK, IdsFresh, HistoryOK
<1>9. ObserversExact'
  BY DEF ObserversExact, CallExact, StateOK, IdsFresh
<1>10. calls' = due'
  BY <1>0 DEF HistoryOK
<1> QED BY <1>1, <1>2, <1>3, <1>4, <1>5, <1>6, <1>7, <1>8, <1>9, <1>10

(* Every step keeps the inductive invariant. *)
LEMMA NextMqttInv == MqttInv /\ [MqttNext]_mqttVars => MqttInv'
<1> SUFFICES ASSUME MqttInv, [MqttNext]_mqttVars PROVE MqttInv'
  OBVIOUS
<1>1. CASE UserCalls
  BY <1>1, ConnectionStep, PublishStep, SubscribeSendsStep, SubscribeRecordsStep,
     SubscribeReturnsStep DEF UserCalls
<1>2. CASE LibraryThread
  BY <1>2, ConnectionStep, HandleSubscribeStep, HandleMessageStep DEF LibraryThread
<1>3. CASE UNCHANGED mqttVars
  BY <1>3, ConnectionStep
<1> QED BY <1>1, <1>2, <1>3 DEF MqttNext, Ended

(* The inductive invariant holds in every reachable state. *)
THEOREM MqttInvariance == MqttSpec => []MqttInv
  BY InitMqttInv, NextMqttInv, PTL DEF MqttSpec

(* However often connect() is called and fails, one library thread is      *)
(* started at most, and none runs on a client that is destroyed.           *)
THEOREM LoopOnceHolds == MqttSpec => []LoopOnce
<1>1. MqttInv => LoopOnce BY DEF MqttInv, StateOK, LoopFollowed, LoopOnce
<1> QED BY <1>1, MqttInvariance, PTL

(* onSubscribe is told the pattern that was asked under the confirmed id,  *)
(* wherever the SUBACK meets the subscribe() in progress.                  *)
THEOREM ConfirmedExactHolds == MqttSpec => []ConfirmedExact
<1>1. MqttInv => ConfirmedExact BY DEF MqttInv, ToldExact, ConfirmedExact
<1> QED BY <1>1, MqttInvariance, PTL

(* For any patterns and any overlap between them, a message reaches every  *)
(* callback it is due to, once.                                            *)
THEOREM DeliveredExactHolds == MqttSpec => []DeliveredExact
<1>1. MqttInv => DeliveredExact BY DEF MqttInv, DeliveredExact
<1> QED BY <1>1, MqttInvariance, PTL
=============================================================================
