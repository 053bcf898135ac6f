-------------------------- MODULE UnixSocket_proofs -------------------------
(***************************************************************************)
(* Any number of server processes on one socket path.  The invariant says  *)
(* what each place of a process means for the file while no race has been: *)
(* the overlap of two starts, or of a start and a stop, counts as one.     *)
(***************************************************************************)
EXTENDS UnixSocket, TLAPS

NobodyListens == \A q \in Process : ~ Listening(q)

(* What holds of the file where process p is. *)
Undisturbed(p) ==
    /\ Listening(p) => socket = p
    /\ at[p] \in {"remove", "bind", "listen", "close", "cleanup"} => NobodyListens
    /\ at[p] \in {"dial", "remove"} => socket # NoFile
    /\ at[p] = "bind" => socket = NoFile
    /\ at[p] = "listen" => socket = p

SocketInv ==
    /\ SocketTypeOK
    /\ Overlap => raced
    /\ ~ raced => \A p \in Process : Undisturbed(p)

USE UnixSocketAssumption

-----------------------------------------------------------------------------
LEMMA SocketInitInv == SocketInit => SocketInv
  BY DEF SocketInit, SocketInv, SocketTypeOK, Overlap, Starting, Listening,
         Undisturbed

(* A step of p to a place: the types, and that it counts as a race if two
   processes overlap afterwards. *)
LEMMA GotoOverlap ==
    ASSUME NEW p \in Process, NEW place, Goto(p, place)
    PROVE  Overlap' => raced'
  BY DEF Goto

(* While there is no race, a process that starts is the only one that starts
   or stops, before a step and after it. *)
LEMMA Alone ==
    ASSUME SocketInv, ~ raced, NEW p \in Process, NEW q \in Process, p # q,
           Starting(p)
    PROVE  ~ Starting(q) /\ ~ Stopping(q)
  BY DEF SocketInv, Overlap

(* The types are kept by every step of a process. *)
LEMMA StepType ==
    ASSUME SocketInv, NEW p \in Process,
           \/ Start(p) \/ Stat(p) \/ DialAnswered(p) \/ DialRefused(p)
           \/ DialTimesOut(p) \/ Remove(p) \/ Bind(p) \/ Listen(p)
           \/ Serve(p) \/ Close(p) \/ StopListening(p) \/ Cleanup(p)
           \/ Quit(p) \/ Crash(p)
    PROVE  SocketTypeOK'
<1> USE DEF SocketInv, SocketTypeOK, Goto, Listening
<1>1. CASE Start(p) \/ Stat(p) \/ DialAnswered(p)
  BY <1>1 DEF Start, Stat, DialAnswered
<1>2. CASE DialRefused(p) \/ DialTimesOut(p)
  BY <1>2 DEF DialRefused, DialTimesOut
<1>3. CASE Remove(p)
  BY <1>3 DEF Remove
<1>4. CASE Bind(p) \/ Listen(p)
  BY <1>4 DEF Bind, Listen
<1>5. CASE Close(p) \/ StopListening(p) \/ Cleanup(p)
  BY <1>5 DEF Close, StopListening, Cleanup
<1>6. CASE Serve(p)
  BY <1>6 DEF Serve
<1>7. CASE Quit(p)
  BY <1>7 DEF Quit, Starting
<1>8. CASE Crash(p)
  BY <1>8 DEF Crash, Alive, Starting, Stopping
<1>9. QED
  BY <1>1, <1>2, <1>3, <1>4, <1>5, <1>6, <1>7, <1>8

(* Each step of p leaves every process where its place says. *)
LEMMA StepUndisturbed ==
    ASSUME SocketInv, NEW p \in Process, ~ raced', NEW q \in Process,
           \/ Start(p) \/ Stat(p) \/ DialAnswered(p) \/ DialRefused(p)
           \/ DialTimesOut(p) \/ Remove(p) \/ Bind(p) \/ Listen(p)
           \/ Serve(p) \/ Close(p) \/ StopListening(p) \/ Cleanup(p)
           \/ Quit(p) \/ Crash(p)
    PROVE  Undisturbed(q)'
<1>1. ~ raced /\ \A r \in Process : Undisturbed(r)
  BY DEF SocketInv, SocketTypeOK, Start, Stat, DialAnswered, DialRefused,
         DialTimesOut, Remove, Bind, Listen, Close, StopListening, Cleanup,
         Serve, Quit, Crash, Goto
<1>2. ~ Overlap'
  BY GotoOverlap
     DEF Start, Stat, DialAnswered, DialRefused, DialTimesOut, Remove, Bind,
         Listen, Close, StopListening, Cleanup, Serve, Quit, Crash
<1>3. at \in [Process -> {"off", "stat", "dial", "remove", "bind", "listen",
                          "listening", "serving", "close", "cleanup",
                          "exited", "failed", "quit", "crashed"}]
  BY DEF SocketInv, SocketTypeOK
<1> USE <1>1, <1>2, <1>3 DEF Undisturbed, NobodyListens, Listening, Goto
<1>4. CASE Start(p)
  BY <1>4 DEF Start
<1>5. CASE Stat(p)
  BY <1>5 DEF Stat
<1>6. CASE DialAnswered(p)
  BY <1>6 DEF DialAnswered
<1>7. CASE DialRefused(p)
  BY <1>7 DEF DialRefused, Answered
<1>8. CASE DialTimesOut(p)
  BY <1>8 DEF DialTimesOut
<1>9. CASE Remove(p)
  BY <1>9, Alone DEF Remove, Starting
<1>10. CASE Bind(p)
  BY <1>10, Alone DEF Bind, Starting
<1>11. CASE Listen(p)
  BY <1>11, Alone DEF Listen, Starting, Stopping
<1>12. CASE Close(p)
  BY <1>12 DEF Close, Overlap, Starting, Stopping
<1>13. CASE StopListening(p)
  BY <1>13 DEF StopListening
<1>14. CASE Cleanup(p)
  BY <1>14, Alone DEF Cleanup, Starting, Stopping
<1>15. CASE Crash(p)
  BY <1>15 DEF Crash
<1>16. CASE Serve(p)
  BY <1>16 DEF Serve
<1>17. CASE Quit(p)
  BY <1>17 DEF Quit
<1>18. QED
  BY <1>4, <1>5, <1>6, <1>7, <1>8, <1>9, <1>10, <1>11, <1>12, <1>13, <1>14,
     <1>15, <1>16, <1>17

LEMMA SocketStepInv == SocketInv /\ [SocketNext]_socketVars => SocketInv'
<1> SUFFICES ASSUME SocketInv, [SocketNext]_socketVars PROVE SocketInv'
  OBVIOUS
<1>1. CASE UNCHANGED socketVars
  BY <1>1 DEF SocketInv, SocketTypeOK, Overlap, Starting, Stopping, Undisturbed,
              NobodyListens, Listening, socketVars
<1>2. ASSUME NEW p \in Process,
             \/ Start(p) \/ Stat(p) \/ DialAnswered(p) \/ DialRefused(p)
             \/ DialTimesOut(p) \/ Remove(p) \/ Bind(p) \/ Listen(p)
             \/ Serve(p) \/ Close(p) \/ StopListening(p) \/ Cleanup(p)
             \/ Quit(p) \/ Crash(p)
      PROVE  SocketInv'
  <2>1. SocketTypeOK'
    BY <1>2, StepType
  <2>2. Overlap' => raced'
    BY <1>2, GotoOverlap
       DEF Start, Stat, DialAnswered, DialRefused, DialTimesOut, Remove, Bind,
           Listen, Close, StopListening, Cleanup, Serve, Quit, Crash
  <2>3. ~ raced' => \A q \in Process : Undisturbed(q)'
    BY <1>2, StepUndisturbed
  <2>4. QED
    BY <2>1, <2>2, <2>3 DEF SocketInv
<1>3. QED
  BY <1>1, <1>2 DEF SocketNext

LEMMA SocketInvariant == SocketSpec => []SocketInv
  BY SocketInitInv, SocketStepInv, PTL DEF SocketSpec

-----------------------------------------------------------------------------
(* Types, and no file of a process that has served and ended, or of one whose
   start failed. *)
THEOREM SocketTypeCorrect == SocketSpec => []SocketTypeOK
<1>1. SocketInv => SocketTypeOK
  BY DEF SocketInv
<1>2. QED
  BY <1>1, SocketInvariant, PTL

(* SPEC.md's probe does what it is for, for any number of processes: without
   a race no process that listens is cut off from the path, and so there are
   never two. *)
THEOREM SocketReachable == SocketSpec => []ReachableUnlessRaced
<1>1. SocketInv => ReachableUnlessRaced
  BY DEF SocketInv, Undisturbed, ReachableUnlessRaced
<1>2. QED
  BY <1>1, SocketInvariant, PTL

(* A start that fails without a race fails because of a process that listens,
   and never because of a stale file. *)
THEOREM SocketFailsForAReason == SocketSpec => FailsOnlyForAnother
<1> DEFINE Blamed == \A p \in Process : at[p] # "failed" /\ at'[p] = "failed" =>
                         raced' \/ \E q \in Process \ {p} : Listening(q)
<1>1. SocketInv /\ [SocketNext]_socketVars => [Blamed]_socketVars
  <2> SUFFICES ASSUME SocketInv, SocketNext, NEW p \in Process,
                      at[p] # "failed", at'[p] = "failed", ~ raced'
               PROVE  \E q \in Process \ {p} : Listening(q)
    BY DEF SocketInv
  <2>1. at \in [Process -> {"off", "stat", "dial", "remove", "bind", "listen",
                            "listening", "serving", "close", "cleanup",
                            "exited", "failed", "quit", "crashed"}]
    BY DEF SocketInv, SocketTypeOK
  <2>2. ~ raced /\ Undisturbed(p)
    BY DEF SocketNext, SocketInv, SocketTypeOK, Start, Stat, DialAnswered,
           DialRefused, DialTimesOut, Remove, Bind, Listen, Close,
           StopListening, Cleanup, Serve, Quit, Crash, Goto
  <2>3. DialAnswered(p) \/ Remove(p) \/ Bind(p)
    BY <2>1 DEF SocketNext, Start, Stat, DialAnswered, DialRefused,
           DialTimesOut, Remove, Bind, Listen, Close, StopListening, Cleanup,
           Serve, Quit, Crash, Goto
  <2>4. DialAnswered(p)
    BY <2>1, <2>2, <2>3 DEF Remove, Bind, Goto, Undisturbed
  <2>5. PICK q \in Process : socket = q /\ Listening(q)
    BY <2>4 DEF DialAnswered, Answered
  <2>6. q # p
    BY <2>4, <2>5 DEF DialAnswered, Listening
  <2>7. QED
    BY <2>5, <2>6
<1>2. QED
  BY <1>1, SocketInvariant, PTL DEF SocketSpec, FailsOnlyForAnother
=============================================================================
