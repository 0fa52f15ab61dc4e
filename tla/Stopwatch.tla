----------------------------- MODULE Stopwatch -----------------------------
(***************************************************************************)
(* katla::Stopwatch: one run from start() to stop(), and the sum of the    *)
(* runs since reset().  The clock advances by Tick nanoseconds at a time.  *)
(***************************************************************************)
EXTENDS Naturals

CONSTANTS
    Tick,    \* nanoseconds between two readings of the clock
    MaxTime  \* bound: how long the clock runs

ASSUME StopwatchAssumption == Tick \in Nat \ {0} /\ MaxTime \in Nat

VARIABLES
    now,        \* steady_clock::now()
    m_isValid, m_isStarted,
    m_steadyStartTime, m_steadyStopTime,
    m_totalElapsed,
    ran,        \* history: how long the last run has lasted
    ranBefore   \* history: how long the stopped runs since reset() lasted

stopwatchVars == <<now, m_isValid, m_isStarted, m_steadyStartTime,
                   m_steadyStopTime, m_totalElapsed, ran, ranBefore>>

StopwatchInit ==
    /\ now = Tick
    /\ m_isValid = FALSE
    /\ m_isStarted = FALSE
    /\ m_steadyStartTime = 0
    /\ m_steadyStopTime = 0
    /\ m_totalElapsed = 0
    /\ ran = 0
    /\ ranBefore = 0

Ticks ==
    /\ now < MaxTime
    /\ now' = now + Tick
    /\ ran' = IF m_isStarted THEN ran + Tick ELSE ran
    /\ UNCHANGED <<m_isValid, m_isStarted, m_steadyStartTime, m_steadyStopTime,
                   m_totalElapsed, ranBefore>>

(* start() also begins anew when the stopwatch is started. *)
Starts ==
    /\ m_steadyStartTime' = now
    /\ m_isValid' = TRUE
    /\ m_isStarted' = TRUE
    /\ ran' = 0
    /\ UNCHANGED <<now, m_steadyStopTime>>

StartStopwatch == Starts /\ UNCHANGED <<m_totalElapsed, ranBefore>>

ResetStopwatch == Starts /\ m_totalElapsed' = 0 /\ ranBefore' = 0

(* Mutant of StopStopwatch: a stopwatch that is stopped is stopped again. *)
StopStopwatch_Again ==
    /\ m_isValid
    /\ m_steadyStopTime' = now
    /\ m_isStarted' = FALSE
    /\ m_totalElapsed' = m_totalElapsed + (now - m_steadyStartTime)
    /\ ranBefore' = IF m_isStarted THEN ranBefore + ran ELSE ranBefore
    /\ UNCHANGED <<now, m_isValid, m_steadyStartTime, ran>>

(* stop() asserts that the stopwatch is valid. *)
StopStopwatch ==
    /\ m_isValid
    /\ m_isStarted
    /\ m_steadyStopTime' = now
    /\ m_isStarted' = FALSE
    /\ m_totalElapsed' = m_totalElapsed + (now - m_steadyStartTime)
    /\ ranBefore' = ranBefore + ran
    /\ UNCHANGED <<now, m_isValid, m_steadyStartTime, ran>>

StopwatchNext == Ticks \/ StartStopwatch \/ ResetStopwatch \/ StopStopwatch

-----------------------------------------------------------------------------
(* elapsed() *)
ElapsedTime == (IF m_isStarted THEN now ELSE m_steadyStopTime) - m_steadyStartTime

NsecsElapsed == ElapsedTime
UsecsElapsed == NsecsElapsed \div 1000
MsecsElapsed == NsecsElapsed \div 1000000

(* Whatever start(), stop() and reset() were called, and how often, what   *)
(* is reported is the length of the last run and nothing that passed after *)
(* its stop() (the casts round down), and m_totalElapsed is the sum of the *)
(* runs that were stopped since reset(), each counted once.                *)
ElapsedExact ==
    m_isValid =>
        /\ NsecsElapsed = ran
        /\ UsecsElapsed * 1000 <= ran /\ ran < (UsecsElapsed + 1) * 1000
        /\ MsecsElapsed = UsecsElapsed \div 1000
        /\ m_totalElapsed = ranBefore
=============================================================================
