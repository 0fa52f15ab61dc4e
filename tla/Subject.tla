------------------------------- MODULE Subject -------------------------------
(***************************************************************************)
(* katla::Subject<T>: observers subscribe to it and next() calls them.     *)
(*                                                                         *)
(* m_mutex covers the changes of m_observers and the copy next() makes of  *)
(* it, each of them one action; the observers are called without it, so    *)
(* during next() any thread, also the called observer itself, may          *)
(* subscribe, unsubscribe, clear or call next() again.                     *)
(***************************************************************************)
EXTENDS Naturals, FiniteSets, SequencesExt

CONSTANTS
    Users,            \* the threads that use the subject
    Observers,        \* FuncObservers
    Functions,        \* those whose function is not empty
    MaxSubscriptions, \* bound: how many calls of subscribe() in a behaviour
    MaxDepth          \* bound: how deep calls of next() nest in one thread

ASSUME SubjectAssumption == MaxDepth \in Nat

VARIABLES
    m_observers,
    calls,          \* each thread's calls of next() in progress, outermost first
    subscriptions,  \* the observer of every subscription made, in order
    active,         \* history: subscriptions neither unsubscribed nor cleared
    again           \* history: observers of subscriptions unsubscribed again

historyVars == <<active, again>>
subjectVars == <<m_observers, calls, subscriptions, historyVars>>

(* next() in progress: the copy it iterates over, how many of it were      *)
(* called, whether the last call has still to return, and as history the   *)
(* observers subscribed since it began and not called yet.                 *)
Frame == [observers : Seq(Observers), done : Nat, inside : BOOLEAN,
          owed : SUBSET Observers]

(***************************************************************************)
(* The single type invariant of the module.                                *)
(***************************************************************************)
SubjectTypeOK ==
    /\ m_observers \in Seq(Observers)
    /\ \A u \in Users :
          /\ Len(calls[u]) <= MaxDepth
          /\ \A i \in 1 .. Len(calls[u]) :
                /\ calls[u][i] \in Frame
                /\ calls[u][i].done <= Len(calls[u][i].observers)
    /\ subscriptions \in Seq(Observers)
    /\ active \subseteq 1 .. Len(subscriptions)
    /\ again \subseteq Observers

SubjectInit ==
    /\ m_observers = <<>>
    /\ calls = [u \in Users |-> <<>>]
    /\ subscriptions = <<>>
    /\ active = {}
    /\ again = {}

(* A thread acts on the subject from outside next() or from an observer. *)
Acts(u) == calls[u] # <<>> => Last(calls[u]).inside

(* The calls of next() in progress owe nothing to an observer that left. *)
Forgiven(remaining) ==
    [u \in Users |->
        [i \in 1 .. Len(calls[u]) |->
            [calls[u][i] EXCEPT !.owed = @ \cap ToSet(remaining)]]]

SetTop(u, frame) == calls' = [calls EXCEPT ![u] = Append(Front(@), frame)]

-----------------------------------------------------------------------------
Subscribe(u, o) ==
    /\ Acts(u)
    /\ Len(subscriptions) < MaxSubscriptions
    /\ m_observers' = Append(m_observers, o)
    /\ subscriptions' = Append(subscriptions, o)
    /\ active' = active \cup {Len(subscriptions')}
    /\ UNCHANGED <<calls, again>>

(* Mutant of Erased: every occurrence is erased. *)
Erased_All(observers, o) == Remove(observers, o)

(* std::find and erase: the first occurrence. *)
Erased(observers, o) == RemoveFirst(observers, o)

(* Subscription::unsubscribe(), any number of times.  The observer is      *)
(* found by its pointer: a second call ends another subscription of the    *)
(* same observer, if there is one.                                         *)
Unsubscribe(u, s) ==
    /\ Acts(u)
    /\ m_observers' = Erased(m_observers, subscriptions[s])
    /\ active' = active \ {s}
    /\ again' = IF s \in active THEN again ELSE again \cup {subscriptions[s]}
    /\ calls' = Forgiven(m_observers')
    /\ UNCHANGED subscriptions

Clear(u) ==
    /\ Acts(u)
    /\ m_observers' = <<>>
    /\ active' = {}
    /\ again' = {}
    /\ calls' = Forgiven(<<>>)
    /\ UNCHANGED subscriptions

(* next() copies the observers under the mutex ... *)
Notify(u) ==
    /\ Acts(u)
    /\ Len(calls[u]) < MaxDepth
    /\ calls' = [calls EXCEPT ![u] =
                    Append(@, [observers |-> m_observers, done |-> 0,
                               inside |-> FALSE, owed |-> ToSet(m_observers)])]
    /\ UNCHANGED <<m_observers, subscriptions, historyVars>>

(* Mutant of Iterated: the loop goes over m_observers itself. *)
Iterated_Live(frame) == m_observers

Iterated(frame) == frame.observers

(* FuncObserver::next(): without a function there is nothing to enter. *)
Enters(o) == o \in Functions

(* ... and calls them in order, one after the other has returned. *)
CallObserver(u) ==
    /\ calls[u] # <<>>
    /\ LET top == Last(calls[u])
       IN  /\ ~top.inside
           /\ top.done < Len(Iterated(top))
           /\ LET o == Iterated(top)[top.done + 1]
              IN  SetTop(u, [top EXCEPT !.done = @ + 1, !.inside = Enters(o),
                                        !.owed = @ \ {o}])
    /\ UNCHANGED <<m_observers, subscriptions, historyVars>>

ObserverReturns(u) ==
    /\ calls[u] # <<>>
    /\ Last(calls[u]).inside
    /\ SetTop(u, [Last(calls[u]) EXCEPT !.inside = FALSE])
    /\ UNCHANGED <<m_observers, subscriptions, historyVars>>

(* Every observer of the copy was called and has returned. *)
Finished(frame) == ~frame.inside /\ frame.done >= Len(Iterated(frame))

NextReturns(u) ==
    /\ calls[u] # <<>>
    /\ Finished(Last(calls[u]))
    /\ calls' = [calls EXCEPT ![u] = Front(@)]
    /\ UNCHANGED <<m_observers, subscriptions, historyVars>>

-----------------------------------------------------------------------------
SubjectNext ==
    \E u \in Users :
        \/ \E o \in Observers : Subscribe(u, o)
        \/ \E s \in 1 .. Len(subscriptions) : Unsubscribe(u, s)
        \/ Clear(u)
        \/ Notify(u)
        \/ CallObserver(u) \/ ObserverReturns(u) \/ NextReturns(u)

SubjectSpec == SubjectInit /\ [][SubjectNext]_subjectVars

-----------------------------------------------------------------------------
(* An observer that stays subscribed while next() runs is called by it,    *)
(* however the others come and go meanwhile, in this thread or another.    *)
NotSkipped ==
    \A u \in Users : \A i \in 1 .. Len(calls[u]) :
        Finished(calls[u][i]) => calls[u][i].owed = {}

(* The subject calls an observer once for each subscription it still has:  *)
(* ending one subscription leaves the others of the same observer and of   *)
(* other ones.  A subscription ended twice may cost the same observer, and *)
(* nobody else, another subscription; none ever outlives its end.          *)
SubscriptionsExact ==
    \A o \in Observers :
        LET registered == Cardinality({i \in 1 .. Len(m_observers) : m_observers[i] = o})
            subscribed == Cardinality({s \in active : subscriptions[s] = o})
        IN  IF o \in again THEN registered <= subscribed ELSE registered = subscribed
=============================================================================
