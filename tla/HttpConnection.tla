--------------------------- MODULE HttpConnection ---------------------------
(***************************************************************************)
(* One HTTP connection of katla::WebSocketServerLws, from                  *)
(* LWS_CALLBACK_HTTP to LWS_CALLBACK_CLOSED_HTTP, on the service thread of *)
(* libwebsockets.                                                          *)
(*                                                                         *)
(* The handlers are registered with handle() before the server serves.  A  *)
(* handler that is run answers with sendHttpResult(), once or more often,  *)
(* or does not; answers are given by the time the handlers return, as the  *)
(* class requires: the connection is closed when there are none.  A url is *)
(* the sequence of its parts.  The Content-Length header, where there is   *)
(* one, is an int; the body has as many fragments as it says.              *)
(*                                                                         *)
(* Of libwebsockets: it calls HTTP_BODY for each fragment and then         *)
(* HTTP_BODY_COMPLETION when the header tells of a body.  After            *)
(* LWS_CALLBACK_HTTP has returned 0 for a POST whose header is zero it     *)
(* calls both at once, HTTP_BODY with nothing.                             *)
(***************************************************************************)
EXTENDS Naturals, SequencesExt

CONSTANTS
    Urls,        \* urls that handlers are registered for
    RequestUrls, \* urls that are requested
    Methods,     \* methods that handlers are registered for
    Tokens,      \* methods of the requests that libwebsockets accepts
    Statuses,    \* status codes that handlers answer with
    MaxHandlers, \* bound: calls of handle()
    MaxBody,     \* bound: fragments of a body
    MaxPackets,  \* bound: packets of an answer
    MaxAnswers   \* bound: answers of the handlers to one request

Variable == ":"         \* a part of a registered url that begins with ":"
Wildcard == <<"*">>     \* the url of a wildcard handler

ASSUME HttpAssumption ==
    /\ MaxHandlers \in Nat /\ MaxBody \in Nat
    /\ MaxPackets \in Nat \ {0} /\ MaxAnswers \in Nat \ {0}

VARIABLES
    httpHandlers,   \* entries of url, method and callbacks
    phase,          \* "new", "body", "handling", "answering", "closed", or
                    \* "crashed": the program has used a null pointer
    request,        \* its url, method, header and contentLength
    inbox,          \* network: fragments of the body still to come
    bodyDue,        \* libwebsockets: it has still to call HTTP_BODY_COMPLETION
    m_buffer,       \* IncomingHttpRequest: fragments that came
    m_request,      \* IncomingHttpRequest: the request, or it was moved out
    toRun,          \* callbacks still to be run
    m_sendList,     \* packets <<answer, number>> to write
    wantWritable,   \* libwebsockets: a writable callback is asked for
    registered,     \* history: url and method of each call of handle()
    ran,            \* history: callbacks that were run
    answers,        \* history: the number of packets and the status of each answer
    given,          \* history: bodies of the requests given to handlers
    written,        \* history: packets written
    headers,        \* history: status codes of the headers written
    aborted         \* history: the connection failed, or the peer closed it

handlerVars == <<httpHandlers, registered>>
requestVars == <<request, inbox, bodyDue, m_buffer, m_request, given>>
answerVars == <<m_sendList, answers>>
writeVars == <<written, headers, aborted>>
httpVars == <<phase, toRun, ran, wantWritable, handlerVars, requestVars, answerVars, writeVars>>

(* HttpMethod, in the order in which getMethod() looks for the url *)
HttpMethod == <<"Get", "Post", "Put", "Options", "Delete", "Head", "Patch">>

(* HttpStatusCode *)
HttpStatusCode == [Continue |-> 100, Ok |-> 200, Created |-> 201, BadRequest |-> 400,
                   NotFound |-> 404, InternalServerError |-> 500,
                   ServiceUnavailable |-> 503]

ASSUME StatusAssumption == Statuses \subseteq DOMAIN HttpStatusCode

Requests == [url : RequestUrls \cup {<<>>}, method : ToSet(HttpMethod) \cup {"Unknown"},
             header : BOOLEAN, contentLength : 0 .. MaxBody]

(* Has a Content-Length header of zero, for which libwebsockets tells of a *)
(* body all the same.                                                      *)
EmptyPost(r) == r.header /\ r.contentLength = 0 /\ r.method = "Post"

Callbacks == 1 .. MaxHandlers

(* getMethod(): libwebsockets keeps the url under a token for its method;  *)
(* a method that is not looked for is Unknown, and has no url.             *)
GetMethod(token, url) ==
    IF token \in ToSet(HttpMethod) THEN [method |-> token, url |-> url]
                                   ELSE [method |-> "Unknown", url |-> <<>>]

(* toLwsStatusCode() of a named code *)
ToLwsStatusCode(status) == HttpStatusCode[status]

IsFirst(p) == p[2] = 1
IsFinal(p) == p[2] = answers[p[1]].packets
HasDataToSend == m_sendList # <<>>

(***************************************************************************)
(* The single type invariant of the module.                                *)
(***************************************************************************)
HttpTypeOK ==
    /\ phase \in {"new", "body", "handling", "answering", "closed", "crashed"}
    /\ httpHandlers \in Seq([url : Urls, method : Methods, callbacks : Seq(Callbacks)])
    /\ registered \in Seq(Urls \X Methods)
    /\ request \in Seq(Requests) /\ Len(request) <= 1
    /\ inbox \in Seq(0 .. MaxBody) /\ m_buffer \in Seq(0 .. MaxBody)
    /\ bodyDue \in BOOLEAN
    /\ m_request \in {"none", "held", "moved"}
    /\ toRun \in Seq(Callbacks) /\ ran \in Seq(Callbacks)
    /\ \A i \in 1 .. Len(m_sendList) : m_sendList[i][2] \in 1 .. answers[m_sendList[i][1]].packets
    /\ headers \in Seq(Range(HttpStatusCode))
    /\ wantWritable \in BOOLEAN /\ aborted \in BOOLEAN
    /\ answers \in Seq([packets : 1 .. MaxPackets, status : DOMAIN HttpStatusCode])

HttpInit ==
    /\ phase = "new"
    /\ httpHandlers = <<>> /\ registered = <<>>
    /\ request = <<>>
    /\ inbox = <<>> /\ m_buffer = <<>> /\ bodyDue = FALSE
    /\ m_request = "none"
    /\ toRun = <<>> /\ ran = <<>>
    /\ m_sendList = <<>> /\ answers = <<>>
    /\ wantWritable = FALSE
    /\ given = <<>> /\ written = <<>> /\ headers = <<>> /\ aborted = FALSE

-----------------------------------------------------------------------------
(* The handlers *)

SameEntry(url, method) == {i \in DOMAIN httpHandlers :
    httpHandlers[i].url = url /\ httpHandlers[i].method = method}

Registers(url, method) ==
    /\ phase = "new"
    /\ Len(registered) < MaxHandlers
    /\ registered' = Append(registered, <<url, method>>)
    /\ UNCHANGED <<phase, toRun, ran, wantWritable, requestVars, answerVars, writeVars>>

(* Mutant of Handle: a second handler replaces the first one. *)
Handle_Replaces(url, method) ==
    /\ Registers(url, method)
    /\ httpHandlers' =
          IF SameEntry(url, method) # {}
          THEN [i \in DOMAIN httpHandlers |->
                   IF i \in SameEntry(url, method)
                   THEN [httpHandlers[i] EXCEPT !.callbacks = <<Len(registered) + 1>>]
                   ELSE httpHandlers[i]]
          ELSE Append(httpHandlers, [url |-> url, method |-> method,
                                     callbacks |-> <<Len(registered) + 1>>])

(* handle(): a callback for a url and a method that have an entry joins it. *)
Handle(url, method) ==
    /\ Registers(url, method)
    /\ httpHandlers' =
          IF SameEntry(url, method) # {}
          THEN [i \in DOMAIN httpHandlers |->
                   IF i \in SameEntry(url, method)
                   THEN [httpHandlers[i] EXCEPT !.callbacks = Append(@, Len(registered) + 1)]
                   ELSE httpHandlers[i]]
          ELSE Append(httpHandlers, [url |-> url, method |-> method,
                                     callbacks |-> <<Len(registered) + 1>>])

(* Parts that only one of the two urls has are not compared. *)
MatchInclusiveUrl(requestUrl, subscribedUrl) ==
    \A i \in 1 .. Len(subscribedUrl) :
        \/ subscribedUrl[i] = Variable
        \/ i > Len(requestUrl)
        \/ subscribedUrl[i] = requestUrl[i]

(* The callbacks of some of the entries, in the order of the list. *)
CallbacksOf(entries) ==
    FlattenSeq([i \in 1 .. Len(httpHandlers) |->
                   IF i \in entries THEN httpHandlers[i].callbacks ELSE <<>>])

(* The callbacks of the entries that match or, if there are none, of the   *)
(* wildcards.                                                              *)
Found(r) ==
    LET Entries(Url(_)) == {i \in 1 .. Len(httpHandlers) :
                               Url(httpHandlers[i].url) /\ httpHandlers[i].method = r.method}
        Matches(url) == MatchInclusiveUrl(r.url, url)
        IsWild(url) == url = Wildcard
    IN CallbacksOf(IF Entries(Matches) # {} THEN Entries(Matches) ELSE Entries(IsWild))

-----------------------------------------------------------------------------
(* The request *)

HandleHttpRequest(r) ==
    /\ phase' = "handling"
    /\ toRun' = Found(r)

(* completedRequest() moves the request out, with the body.  When it was   *)
(* moved out before, its payload is assigned through a null pointer.       *)
CompletedRequest(r) ==
    \/ /\ m_request = "held"
       /\ given' = Append(given, m_buffer)
       /\ m_buffer' = <<>>
       /\ m_request' = "moved"
       /\ HandleHttpRequest(r)
    \/ /\ m_request = "moved"
       /\ phase' = "crashed"
       /\ UNCHANGED <<given, m_buffer, m_request, toRun>>

(* The client object is made, and the request from its headers.            *)
Connects(r) ==
    /\ phase = "new"
    /\ r.contentLength > 0 => r.header
    /\ request' = <<r>>
    /\ inbox' = IF EmptyPost(r) THEN <<0>> ELSE [i \in 1 .. r.contentLength |-> i]
    /\ bodyDue' = (EmptyPost(r) \/ r.contentLength > 0)
    /\ UNCHANGED <<ran, m_buffer, wantWritable, handlerVars, answerVars, writeVars>>

HandledAtOnce(r) ==
    /\ m_request' = "moved"
    /\ given' = Append(given, m_buffer)
    /\ HandleHttpRequest(r)

(* Mutant of NewConnection: every request is handled at once.              *)
NewConnection_AtOnce(r) == Connects(r) /\ HandledAtOnce(r)

(* LWS_CALLBACK_HTTP: a request without a body is handled at once. *)
NewConnection(r) ==
    /\ Connects(r)
    /\ IF r.contentLength = 0
       THEN HandledAtOnce(r)
       ELSE /\ m_request' = "held"
            /\ phase' = "body"
            /\ UNCHANGED <<given, toRun>>

(* The callbacks for a body are called when its fragments come, or before  *)
(* any other when they are called at once.                                 *)
Receives == bodyDue /\ phase \in {"body", "answering"}

(* LWS_CALLBACK_HTTP_BODY *)
Body ==
    /\ Receives
    /\ inbox # <<>>
    /\ m_buffer' = Append(m_buffer, Head(inbox))
    /\ inbox' = Tail(inbox)
    /\ UNCHANGED <<phase, toRun, ran, wantWritable, handlerVars, request, bodyDue, m_request,
                   given, answerVars, writeVars>>

(* LWS_CALLBACK_HTTP_BODY_COMPLETION *)
BodyCompletion ==
    /\ Receives
    /\ inbox = <<>>
    /\ bodyDue' = FALSE
    /\ CompletedRequest(request[1])
    /\ UNCHANGED <<ran, handlerVars, request, inbox, wantWritable, answerVars, writeVars>>

-----------------------------------------------------------------------------
(* The answers *)

(* An answer of k packets. *)
SendHttpResult(k, status) ==
    /\ answers' = Append(answers, [packets |-> k, status |-> status])
    /\ m_sendList' = m_sendList \o [i \in 1 .. k |-> <<Len(answers) + 1, i>>]

(* The callback that is run answers, and returns. *)
HandlerAnswers(k, status) ==
    /\ phase = "handling"
    /\ toRun # <<>>
    /\ Len(answers) < MaxAnswers
    /\ SendHttpResult(k, status)
    /\ UNCHANGED <<phase, toRun, ran, wantWritable, handlerVars, requestVars, writeVars>>

HandlerReturns ==
    /\ phase = "handling"
    /\ toRun # <<>>
    /\ ran' = Append(ran, Head(toRun))
    /\ toRun' = Tail(toRun)
    /\ UNCHANGED <<phase, wantWritable, handlerVars, requestVars, answerVars, writeVars>>

NotFound ==
    /\ phase = "handling"
    /\ Found(request[1]) = <<>> /\ answers = <<>>
    /\ SendHttpResult(1, "NotFound")
    /\ UNCHANGED <<phase, toRun, ran, wantWritable, handlerVars, requestVars, writeVars>>

(* Back from handleHttpRequest() *)
Handled == phase = "handling" /\ toRun = <<>> /\ (ran # <<>> \/ answers # <<>>)

(* Mutant of AsksToWrite: the callback is left to the next work(). *)
AsksToWrite_Not ==
    /\ Handled
    /\ HasDataToSend
    /\ phase' = "answering"
    /\ UNCHANGED <<wantWritable, toRun, ran, handlerVars, requestVars, answerVars, writeVars>>

AsksToWrite ==
    /\ Handled
    /\ HasDataToSend
    /\ phase' = "answering"
    /\ wantWritable' = TRUE
    /\ UNCHANGED <<toRun, ran, handlerVars, requestVars, answerVars, writeVars>>

(* The callback returns 1 and the connection is closed.                    *)
NothingToAnswer ==
    /\ Handled
    /\ ~HasDataToSend
    /\ phase' = "closed"
    /\ UNCHANGED <<toRun, ran, wantWritable, handlerVars, requestVars, answerVars, writeVars>>

-----------------------------------------------------------------------------
(* One packet; the headers go before the first one of an answer. *)
WritesPacket ==
    /\ phase = "answering" /\ ~bodyDue
    /\ wantWritable
    /\ HasDataToSend
    /\ m_sendList' = Tail(m_sendList)
    /\ written' = Append(written, Head(m_sendList))
    /\ LET p == Head(m_sendList)
       IN headers' = IF IsFirst(p)
                     THEN Append(headers, ToLwsStatusCode(answers[p[1]].status)) ELSE headers
    /\ UNCHANGED <<toRun, ran, handlerVars, requestVars, answers, aborted>>

(* Mutant of HttpWriteable: the connection stays open. *)
HttpWriteable_StaysOpen ==
    /\ WritesPacket
    /\ wantWritable' = (m_sendList' # <<>>)
    /\ UNCHANGED phase

(* LWS_CALLBACK_HTTP_WRITEABLE: the connection is closed after the final   *)
(* packet of an answer.                                                    *)
HttpWriteable ==
    /\ WritesPacket
    /\ wantWritable' = (~IsFinal(Head(m_sendList)) /\ m_sendList' # <<>>)
    /\ phase' = IF IsFinal(Head(m_sendList)) THEN "closed" ELSE "answering"

(* work() asks again on its way to every lws_service. *)
Scan ==
    /\ phase = "answering" /\ ~bodyDue
    /\ HasDataToSend
    /\ wantWritable' = TRUE
    /\ UNCHANGED <<phase, toRun, ran, handlerVars, requestVars, answerVars, writeVars>>

(* lws_write or a header function fails, or the peer closes.               *)
Aborts ==
    /\ phase = "body" \/ (phase = "answering" /\ ~bodyDue)
    /\ phase' = "closed"
    /\ aborted' = TRUE
    /\ UNCHANGED <<toRun, ran, wantWritable, handlerVars, requestVars, answerVars, written, headers>>

-----------------------------------------------------------------------------
Handling ==
    \/ HandlerReturns \/ \E k \in 1 .. MaxPackets, c \in Statuses : HandlerAnswers(k, c)
    \/ NotFound
    \/ AsksToWrite
    \/ NothingToAnswer

HttpNext ==
    \/ \E url \in Urls, method \in Methods : Handle(url, method)
    \/ \E token \in Tokens, url \in RequestUrls, h \in BOOLEAN, n \in 0 .. MaxBody :
          LET m == GetMethod(token, url)
          IN NewConnection([url |-> m.url, method |-> m.method, header |-> h,
                            contentLength |-> n])
    \/ Body \/ BodyCompletion
    \/ Handling
    \/ HttpWriteable \/ Scan
    \/ Aborts

(* The handlers return, and the peer reads what is written; the rounds of  *)
(* work() are not needed.                                                  *)
HttpFairness == WF_httpVars(Handling) /\ WF_httpVars(HttpWriteable)

HttpSpec == HttpInit /\ [][HttpNext]_httpVars /\ HttpFairness

-----------------------------------------------------------------------------
(* A request is given to the handlers once and with the whole body; a      *)
(* request that was moved out is not asked for again, but for that of an   *)
(* empty POST (the completion of its body comes to a request that was      *)
(* handled at once: websocket-server-lws.cpp, 55 and 118).                 *)
RequestOnce ==
    /\ Len(given) <= 1
    /\ \A i \in 1 .. Len(given) :
          given[i] = [j \in 1 .. request[1].contentLength |-> j]
    /\ phase = "crashed" => EmptyPost(request[1])

(* Every callback ever registered for a url that matches, and the method,  *)
(* is run once for the request; where there is none, every wildcard.       *)
RunsRegistered ==
    phase \in {"handling", "answering"} =>
        LET r == request[1]
            Of(Url(_)) == {c \in DOMAIN registered :
                              Url(registered[c][1]) /\ registered[c][2] = r.method}
            Matches(url) == MatchInclusiveUrl(r.url, url)
            IsWild(url) == url = Wildcard
            called == ran \o toRun
        IN /\ ToSet(called) = IF Of(Matches) # {} THEN Of(Matches) ELSE Of(IsWild)
           /\ \A i, j \in DOMAIN called : called[i] = called[j] => i = j

(* The request goes once and whole to those who registered for it. *)
RequestHandled == RequestOnce /\ RunsRegistered

(* What the peer reads is one answer, the first one that was given, in the *)
(* order of its packets: it sees one header, with the status of that       *)
(* answer, and no part of another one.                                     *)
AnswerExact ==
    /\ \A i \in 1 .. Len(written) : written[i] = <<1, i>>
    /\ headers = IF written = <<>> THEN <<>> ELSE <<HttpStatusCode[answers[1].status]>>

(* The server closes a connection of its own accord only after a whole     *)
(* answer, or without any when no handler gave one.                        *)
ClosedComplete ==
    (phase = "closed" /\ ~aborted) =>
        IF answers = <<>> THEN written = <<>> ELSE Len(written) = answers[1].packets

(* The peer reads one whole answer. *)
AnswerWhole == AnswerExact /\ ClosedComplete

(* A connection whose request is handled is closed in the end, unless it   *)
(* is an empty POST.                                                       *)
AnswerCompletes ==
    (phase = "handling" /\ ~EmptyPost(request[1])) ~> (phase = "closed")

(* A connection is closed after an answer so that no completion of a body  *)
(* is called for a request that has none ("Need to close connection        *)
(* otherwise next request immediately gives                                *)
(* LWS_CALLBACK_HTTP_BODY_COMPLETION"): whenever it is called, the request *)
(* is there.                                                               *)
CompletionHasRequest == phase # "crashed"
=============================================================================
