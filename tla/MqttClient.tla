----------------------------- MODULE MqttClient -----------------------------
(***************************************************************************)
(* katla::Mqtt and katla::MqttClient: a client of the mosquitto library,   *)
(* whose own thread connects, reconnects and calls the handlers while the  *)
(* user calls the public methods.  The members are not protected by a      *)
(* lock.  A handler is one action; subscribe() is three, between which the *)
(* library thread may handle what the call has already sent.  A handler    *)
(* that reads a map the user is about to change may meet the change half   *)
(* way, which the language does not define: raced records it, and nothing  *)
(* is promised afterwards.                                                 *)
(*                                                                         *)
(* Of the library: its thread connects again after a failure, but ends     *)
(* once a disconnect() of the user is done; only destroying the client     *)
(* lets a thread be started anew.  The broker keeps to the protocol.       *)
(***************************************************************************)
EXTENDS Naturals, FiniteSets

CONSTANTS
    Patterns,       \* subscription patterns
    Topics,         \* topics of messages
    MatchesSub,     \* external: the pairs mosquitto_topic_matches_sub accepts
    NoPattern,      \* the empty string operator[] makes for an absent key
    MaxMids,        \* bound: how many message ids are used in a behaviour
    MaxLoops,       \* bound: how many times the loop is started
    MaxMessages     \* bound: how many messages reach each subscription

ASSUME MqttAssumption ==
    /\ MatchesSub \subseteq Patterns \X Topics
    /\ NoPattern \notin Patterns
    /\ MaxMids \in Nat

Mids == 1 .. MaxMids

VARIABLES
    lib,            \* libmosquitto is initialized
    client,         \* "none", "made" or "gone": m_client
    m_mosquittoLoopStarted,
    m_connected,
    loops,          \* number of library threads that run
    started,        \* history: number of loops ever started
    link,           \* the connection as the library sees it: "down", "pending",
                    \* "up", "refused", "lost", or "closing" by the user
    hungUp,         \* history: the user has called disconnect()
    atBroker,       \* patterns the broker has for the client
    mids,           \* number of message ids used
    unacked,        \* ids of subscribe calls whose SUBACK is on its way
    m_subscriptions,
    m_onMessageSubject, \* the observers of each pattern's subject, by id
    user,           \* subscribe() in progress: where, its id and pattern
    returned,       \* history: the ids whose subscribe() has returned
    asked,          \* history: the pattern each id was asked for
    told,           \* history: the pattern onSubscribe was told for each id
    calls,          \* history: how often each callback was called
    due,            \* history: how often it had to be called
    raced           \* a map was used by both threads at the same time

connection == <<m_connected, link, hungUp>>
maps == <<m_subscriptions, m_onMessageSubject>>
history == <<returned, asked, told, calls, due>>
mqttVars == <<lib, client, m_mosquittoLoopStarted, connection, loops, started,
              atBroker, mids, unacked, maps, user, history, raced>>

NoCall == [step |-> "idle", mid |-> 0, pattern |-> NoPattern]
Idle == client = "made" /\ user = NoCall

MqttInit ==
    /\ lib = FALSE
    /\ client = "none"
    /\ m_mosquittoLoopStarted = FALSE
    /\ m_connected = FALSE
    /\ loops = 0
    /\ started = 0
    /\ link = "down"
    /\ hungUp = FALSE
    /\ atBroker = {}
    /\ mids = 0
    /\ unacked = {}
    /\ m_subscriptions = [m \in Mids |-> NoPattern]
    /\ m_onMessageSubject = [p \in Patterns |-> {}]
    /\ user = NoCall
    /\ returned = {}
    /\ asked = [m \in Mids |-> NoPattern]
    /\ told = [m \in Mids |-> {}]
    /\ calls = [m \in Mids |-> 0]
    /\ due = [m \in Mids |-> 0]
    /\ raced = FALSE

-----------------------------------------------------------------------------
(* The user's calls *)

LibInit ==
    /\ ~lib
    /\ client = "none"
    /\ lib' \in BOOLEAN
    /\ UNCHANGED <<client, m_mosquittoLoopStarted, connection, loops, started, atBroker, mids,
                   unacked, maps, user, history, raced>>

(* Mqtt is destroyed after its clients. *)
LibCleanup ==
    /\ lib
    /\ client = "gone"
    /\ lib' = FALSE
    /\ UNCHANGED <<client, m_mosquittoLoopStarted, connection, loops, started, atBroker, mids,
                   unacked, maps, user, history, raced>>

(* init(): mosquitto_new may fail; the callbacks of the client are set.    *)
InitClient ==
    /\ client = "none"
    /\ client' \in {"made", "none"}

(* createClient(): a client whose init() fails is dropped.                 *)
CreateClient ==
    /\ lib
    /\ InitClient
    /\ UNCHANGED <<lib, m_mosquittoLoopStarted, connection, loops, started, atBroker, mids,
                   unacked, maps, user, history, raced>>

(* Mutant of StartLoop: the flag is set although the loop did not start. *)
StartLoop_Unchecked ==
    IF m_mosquittoLoopStarted
    THEN UNCHANGED <<loops, started, m_mosquittoLoopStarted>>
    ELSE /\ started < MaxLoops
         /\ loops' \in {loops, loops + 1}
         /\ started' = started + 1
         /\ m_mosquittoLoopStarted' = TRUE

(* Mutant of StartLoop: every connect() starts a loop. *)
StartLoop_Always ==
    /\ started < MaxLoops
    /\ loops' = loops + 1
    /\ started' = started + 1
    /\ m_mosquittoLoopStarted' = TRUE

(* connect() starts the loop if it is not started; that may fail. *)
StartLoop ==
    \/ /\ ~m_mosquittoLoopStarted
       /\ started < MaxLoops
       /\ loops' = loops + 1
       /\ started' = started + 1
       /\ m_mosquittoLoopStarted' = TRUE
    \/ UNCHANGED <<loops, started, m_mosquittoLoopStarted>>

(* mosquitto_connect_async succeeds: a connection in use is given up. *)
Connect ==
    /\ Idle
    /\ link' = "pending"
    /\ StartLoop
    /\ UNCHANGED <<lib, client, m_connected, hungUp, atBroker, mids, unacked, maps, user, history, raced>>

(* mosquitto_disconnect: nothing is connected again.  Without a connection *)
(* it is an error.                                                         *)
HangUp ==
    link' = IF link \in {"pending", "up", "refused"} THEN "closing"
            ELSE IF link = "lost" THEN "down" ELSE link

(* disconnect() *)
Disconnect ==
    /\ Idle
    /\ HangUp
    /\ hungUp' = TRUE
    /\ UNCHANGED <<lib, client, m_mosquittoLoopStarted, m_connected, loops, started, atBroker,
                   mids, unacked, maps, user, history, raced>>

(* publish(), by the user or by a callback of the library thread: takes a  *)
(* message id, or fails without a connection.                              *)
Publish ==
    /\ client = "made"
    /\ link = "up"
    /\ mids < MaxMids
    /\ mids' = mids + 1
    /\ UNCHANGED <<lib, client, m_mosquittoLoopStarted, connection, loops, started, atBroker,
                   unacked, maps, user, history, raced>>

(* subscribe() sends the packet; without a connection it returns an error. *)
SubscribeSends(p) ==
    /\ Idle
    /\ link = "up"
    /\ mids < MaxMids
    /\ mids' = mids + 1
    /\ unacked' = unacked \cup {mids'}
    /\ atBroker' = atBroker \cup {p}
    /\ asked' = [asked EXCEPT ![mids'] = p]
    /\ user' = [step |-> "sent", mid |-> mids', pattern |-> p]
    /\ UNCHANGED <<lib, client, m_mosquittoLoopStarted, connection, loops, started, maps,
                   returned, told, calls, due, raced>>

(* Mutant of SubscribeRecords: the id is not recorded. *)
SubscribeRecords_Not ==
    /\ user.step = "sent"
    /\ user' = [user EXCEPT !.step = "recorded"]
    /\ UNCHANGED <<lib, client, m_mosquittoLoopStarted, connection, loops, started, atBroker,
                   mids, unacked, maps, history, raced>>

SubscribeRecords ==
    /\ user.step = "sent"
    /\ m_subscriptions' = [m_subscriptions EXCEPT ![user.mid] = user.pattern]
    /\ user' = [user EXCEPT !.step = "recorded"]
    /\ UNCHANGED <<lib, client, m_mosquittoLoopStarted, connection, loops, started, atBroker,
                   mids, unacked, m_onMessageSubject, history, raced>>

(* Mutant of Observes: the subject of the pattern is made anew. *)
Observes_Anew(mid, p) == [m_onMessageSubject EXCEPT ![p] = {mid}]

(* The pattern's subject is found or made and the callback added to it. *)
Observes(mid, p) == [m_onMessageSubject EXCEPT ![p] = @ \cup {mid}]

SubscribeReturns ==
    /\ user.step = "recorded"
    /\ m_onMessageSubject' = Observes(user.mid, user.pattern)
    /\ returned' = returned \cup {user.mid}
    /\ user' = NoCall
    /\ UNCHANGED <<lib, client, m_mosquittoLoopStarted, connection, loops, started, atBroker,
                   mids, unacked, m_subscriptions, asked, told, calls, due, raced>>

(* The destructor disconnects if connected ... *)
DestroyBegins ==
    /\ Idle
    /\ IF m_connected THEN HangUp ELSE UNCHANGED link
    /\ user' = [NoCall EXCEPT !.step = "ending"]
    /\ UNCHANGED <<lib, client, m_mosquittoLoopStarted, m_connected, hungUp, loops, started,
                   atBroker, mids, unacked, maps, history, raced>>

(* ... cancels and joins the library thread, and destroys the client. *)
DestroyEnds ==
    /\ user.step = "ending"
    /\ client' = "gone"
    /\ m_mosquittoLoopStarted' = FALSE
    /\ loops' = 0
    /\ user' = NoCall
    /\ UNCHANGED <<lib, connection, started, atBroker, mids, unacked, maps, history, raced>>

-----------------------------------------------------------------------------
(* The handlers, called by the library thread *)

(* rc = 0: connected; otherwise the broker refuses and closes. *)
HandleConnect ==
    /\ loops > 0
    /\ link = "pending"
    /\ \/ link' = "up" /\ m_connected' = TRUE
       \/ link' = "refused" /\ UNCHANGED m_connected
    /\ UNCHANGED <<lib, client, m_mosquittoLoopStarted, hungUp, loops, started, atBroker, mids,
                   unacked, maps, user, history, raced>>

(* After disconnect(), a refusal, or a failure of the network, also before *)
(* the broker has answered, which may take the SUBACKs with it; the        *)
(* session is kept (clean_session false).                                  *)
HandleDisconnect ==
    /\ loops > 0
    /\ link \in {"pending", "up", "refused", "closing"}
    /\ link' = IF link = "closing" THEN "down" ELSE "lost"
    /\ m_connected' = FALSE
    /\ unacked' \in SUBSET unacked
    /\ UNCHANGED <<lib, client, m_mosquittoLoopStarted, hungUp, loops, started, atBroker, mids,
                   maps, user, history, raced>>

(* The library's thread ends after a disconnect(), of which the client is  *)
(* not told.                                                               *)
LoopEnds ==
    /\ loops > 0
    /\ link = "down"
    /\ loops' = loops - 1
    /\ UNCHANGED <<lib, client, m_mosquittoLoopStarted, connection, started, atBroker, mids,
                   unacked, maps, user, history, raced>>

(* The loop connects again unless the user disconnected.  An attempt that  *)
(* finds no broker is repeated without a callback.                         *)
Reconnect ==
    /\ loops > 0
    /\ link = "lost"
    /\ link' = "pending"
    /\ UNCHANGED <<lib, client, m_mosquittoLoopStarted, m_connected, hungUp, loops, started,
                   atBroker, mids, unacked, maps, user, history, raced>>

(* A handler that reads the map a subscribe() at step writes next. *)
MayRace(step) == raced' \in IF user.step = step THEN {raced, TRUE} ELSE {raced}

(* onSubscribe is told what m_subscriptions has for the id. *)
HandleSubscribe(m) ==
    /\ loops > 0
    /\ link = "up"
    /\ m \in unacked
    /\ MayRace("sent")
    /\ unacked' = unacked \ {m}
    /\ told' = [told EXCEPT ![m] =
                  @ \cup {[pattern |-> m_subscriptions[m], late |-> m \in returned]}]
    /\ UNCHANGED <<lib, client, m_mosquittoLoopStarted, connection, loops, started, atBroker,
                   mids, maps, user, returned, asked, calls, due>>

(* Every pattern that matches the topic has its observers called. *)
Matching(t) == {p \in Patterns : <<p, t>> \in MatchesSub}

HandleMessage(t) ==
    /\ loops > 0
    /\ link = "up"
    /\ Matching(t) \cap atBroker # {}
    /\ \A m \in Mids : due[m] < MaxMessages
    /\ MayRace("recorded")
    /\ calls' = [m \in Mids |->
                   calls[m] + Cardinality({p \in Matching(t) : m \in m_onMessageSubject[p]})]
    /\ due' = [m \in Mids |->
                   due[m] + IF m \in returned /\ asked[m] \in Matching(t) THEN 1 ELSE 0]
    /\ UNCHANGED <<lib, client, m_mosquittoLoopStarted, connection, loops, started, atBroker,
                   mids, unacked, maps, user, returned, asked, told>>

-----------------------------------------------------------------------------
UserCalls ==
    \/ LibInit \/ CreateClient \/ Connect \/ Disconnect \/ Publish
    \/ \E p \in Patterns : SubscribeSends(p)
    \/ SubscribeRecords \/ SubscribeReturns
    \/ DestroyBegins \/ DestroyEnds \/ LibCleanup

LibraryThread ==
    \/ HandleConnect \/ HandleDisconnect \/ LoopEnds \/ Reconnect
    \/ \E m \in Mids : HandleSubscribe(m)
    \/ \E t \in Topics : HandleMessage(t)

(* The program goes on without Mqtt. *)
Ended == client = "gone" /\ ~lib /\ UNCHANGED mqttVars

MqttNext == UserCalls \/ LibraryThread \/ Ended

(* Fairness, of the network: a broker that is asked for long enough is     *)
(* reached.  It then accepts or refuses, or the connection fails, in the   *)
(* end by the time-out of keepalive.  Where there is no broker the library *)
(* tries for ever without a callback, and nothing is promised.             *)
AttemptEnds == link = "pending" /\ (HandleConnect \/ HandleDisconnect)

MqttSpec == MqttInit /\ [][MqttNext]_mqttVars /\ WF_mqttVars(AttemptEnds)

-----------------------------------------------------------------------------
(* "the mosquitto loop should only be started once", however often         *)
(* connect() is called and whichever of its calls fail, and no handler is  *)
(* called on a client that is destroyed.                                   *)
LoopOnce == started <= 1 /\ (loops > 0 => client = "made")

(* A connect() that has returned without an error is answered, by         *)
(* onConnect, a refusal or onDisconnect: whichever call started the loop,  *)
(* and after calls that failed to, unless the client is destroyed.  It is  *)
(* promised to a user who has not called disconnect(), where the broker    *)
(* can be reached.                                                         *)
ConnectAnswered ==
    (link = "pending" /\ m_mosquittoLoopStarted /\ ~hungUp)
        ~> (link # "pending" \/ client = "gone")

(* "MqttClient::connect function is supposed to be called multiple times": *)
(* each call is answered, also one after a disconnect().                   *)
ReconnectAnswered ==
    (link = "pending" /\ m_mosquittoLoopStarted) ~> (link # "pending" \/ client = "gone")

(* A message that is handled once subscribe() has returned reaches every   *)
(* callback whose pattern matches it, once, also when several callbacks    *)
(* share a pattern or patterns overlap, and after a reconnect.             *)
DeliveredExact == ~raced => calls = due

(* onSubscribe is told the pattern of the subscription that was confirmed; *)
(* it is told the empty string only when the SUBACK overtakes the          *)
(* subscribe() that asked for it.                                          *)
ConfirmedExact ==
    ~raced =>
        \A m \in Mids : \A x \in told[m] :
            \/ x.pattern = asked[m]
            \/ x.pattern = NoPattern /\ ~x.late
=============================================================================
