--------------------------- MODULE ServiceProofs ---------------------------
(***************************************************************************)
(* Proofs that a server program loses track of no session, and that one    *)
(* that ran ends with every session stopped, its owner told and its io     *)
(* threads joined, for any number of connections and each of the programs. *)
(***************************************************************************)
EXTENDS Service, TLAPS

-----------------------------------------------------------------------------
(* The inductive invariant.                                                *)

\* A connection that has not arrived has no session; the one that the listener
\* has in hand is known to nobody but the owner.
ListenerHolds ==
  /\ \A s \in Sessions : s > made => phase[s] = "live" /\ stopper[s] = "nobody"
  /\ listener = "ready" => made < MaxSessions
  /\ listener \in {"told", "added"} => made \in Sessions
  /\ listener = "told" =>
       phase[made] = "live" /\ made \notin sessions /\ made \notin curList /\ made \notin started

\* A session is inside stop() exactly while some thread runs it, and leaves the
\* owner's table and then the server's.
StopOrder ==
  \A s \in Sessions :
    /\ stopper[s] # "nobody" <=> phase[s] \in {"won", "told"}
    /\ phase[s] \in {"told", "gone"} => s \notin owner
    /\ phase[s] = "gone" => s \notin sessions

\* Every session that is not stopped is in sessions_, in closeAll's copy of it,
\* or still in the listener's hand.
Tracked ==
  \A s \in 1..made :
    phase[s] = "live" => s \in sessions \/ s \in curList \/ (s = made /\ listener = "told")

\* closeAll's copy exists only while closeAll runs.
CopyIsLocal == main \notin {"closing", "closing again"} => curList = {}

\* The stages of a program that ran: the threads are told to stop, then joined,
\* then the last sessions are taken out and closed.
RanPhases ==
  /\ main \in {"running", "stopping", "closing", "joining", "joined"} => ran
  /\ ran => main \notin {"starting", "abandoned"}
ThreadsEnd ==
  /\ ran /\ main \in {"joining", "joined", "destroying", "closing again", "destroyed"} => ~ioRuns
  /\ ran /\ main \in {"joined", "destroying", "closing again", "destroyed"} =>
       listener \notin {"told", "added"} /\ \A s \in Sessions : stopper[s] # "io"
LastClosed ==
  /\ ran /\ main \in {"closing again", "destroyed"} => sessions = {}
  /\ ran /\ main = "destroyed" => \A s \in Sessions : stopper[s] # "main"
  /\ ran /\ ~Lives => main = "destroyed" /\ ended # "aborted"

IInv ==
  /\ TypeOK /\ ListenerHolds /\ StopOrder /\ Tracked /\ CopyIsLocal
  /\ RanPhases /\ ThreadsEnd /\ LastClosed

USE ServerAssumption, ServiceAssumption
-----------------------------------------------------------------------------
(* Sessions and the ones made so far.                                      *)

\* The sessions made are the first ones, and one more may be made below the bound.
LEMMA Made ==
  ASSUME TypeOK
  PROVE  /\ made \in Nat /\ 1..made \subseteq Sessions
         /\ made \in Sessions => made \in 1..made
         /\ \A s \in Sessions : s \in 1..made <=> ~(s > made)
         /\ made < MaxSessions =>
              /\ made + 1 \in Sessions /\ made + 1 > made /\ made + 1 \notin 1..made
              /\ 1..(made + 1) = (1..made) \union {made + 1}
              /\ \A s \in Sessions : s > made + 1 => s > made
<1>0. made \in 0..MaxSessions
  BY Zenon DEF TypeOK, ServerTypeOK
<1>1. made \in Nat /\ MaxSessions \in Nat /\ made <= MaxSessions
  BY <1>0
<1>2. made + 1 \notin 1..made /\ 1..(made + 1) = (1..made) \union {made + 1}
  BY <1>1
<1>3. QED
  BY <1>1 DEF Sessions

-----------------------------------------------------------------------------
(* The inductive step, one action at a time.                               *)

\* The steps of start() that do not touch the server, and a signal, keep the invariant.
LEMMA QuietStartKeeps ==
  ASSUME IInv, InitConfig \/ WaitForSignal \/ Register \/ Signal
  PROVE  IInv'
<1> USE DEF IInv
<1>a. /\ stopFlag' \in BOOLEAN /\ armed' \in BOOLEAN
      /\ registered' \in BOOLEAN /\ ran' \in BOOLEAN
  BY Zenon DEF InitConfig, WaitForSignal, Register, Signal, Done, TypeOK
<1>b. step' \in 0..5
  BY DEF InitConfig, WaitForSignal, Register, Signal, Doing, Done, TypeOK
<1>1. TypeOK'
  <2>1. ServerTypeOK'
    BY ZenonT(60) DEF InitConfig, WaitForSignal, Register, Signal, serverVars, TypeOK,
       ServerTypeOK, Sessions
  <2>2. QED
    BY <1>b, <2>1 DEF InitConfig, WaitForSignal, Register, Signal, Done, TypeOK
<1>2. ListenerHolds'
  BY <1>1, ZenonT(60) DEF InitConfig, WaitForSignal, Register, Signal, Doing, Done, Lives,
     serverVars, ListenerHolds, TypeOK, ServerTypeOK, Sessions
<1>3. StopOrder'
  BY DEF InitConfig, WaitForSignal, Register, Signal, serverVars, StopOrder
<1>4. Tracked'
  BY <1>1 DEF InitConfig, WaitForSignal, Register, Signal, Doing, Done, Lives,
     serverVars, Tracked, CopyIsLocal, ListenerHolds, TypeOK, ServerTypeOK, Sessions
<1>5. CopyIsLocal' /\ RanPhases'
  BY <1>1 DEF InitConfig, WaitForSignal, Register, Signal, Done, serverVars,
     CopyIsLocal, RanPhases, TypeOK
<1>6. ThreadsEnd'
  BY <1>1 DEF InitConfig, WaitForSignal, Register, Signal, Done, serverVars,
     ThreadsEnd, TypeOK, ServerTypeOK
<1>7. LastClosed'
  BY <1>1 DEF InitConfig, WaitForSignal, Register, Signal, Done, Lives, serverVars,
     LastClosed, TypeOK
<1>8. QED
  BY <1>1, <1>2, <1>3, <1>4, <1>5, <1>6, <1>7

\* Starting the pool keeps the invariant: no program that ran does it.
LEMMA StartPoolKeeps ==
  ASSUME IInv, StartPool
  PROVE  IInv'
<1> USE DEF IInv
<1>1. TypeOK'
  BY DEF StartPool, startPool, Doing, Done, TypeOK, ServerTypeOK
<1>2. ListenerHolds'
  BY DEF StartPool, startPool, ListenerHolds
<1>3. StopOrder'
  BY DEF StartPool, startPool, StopOrder
<1>4. Tracked'
  BY DEF StartPool, startPool, Tracked
<1>5. CopyIsLocal' /\ RanPhases'
  BY DEF StartPool, startPool, Done, CopyIsLocal, RanPhases
<1>6. ThreadsEnd'
  BY DEF StartPool, startPool, Doing, ThreadsEnd
<1>7. LastClosed'
  BY DEF StartPool, startPool, Done, Lives, LastClosed
<1>8. QED
  BY <1>1, <1>2, <1>3, <1>4, <1>5, <1>6, <1>7

\* Starting the server keeps the invariant.
LEMMA StartServerKeeps ==
  ASSUME IInv, StartServer
  PROVE  IInv'
<1> USE DEF IInv
<1>1. TypeOK'
  BY DEF StartServer, startServer, Doing, Done, TypeOK, ServerTypeOK
<1>2. ListenerHolds'
  BY DEF StartServer, startServer, ListenerHolds
<1>3. StopOrder'
  BY DEF StartServer, startServer, StopOrder
<1>4. Tracked'
  BY DEF StartServer, startServer, Tracked
<1>5. CopyIsLocal' /\ RanPhases'
  BY DEF StartServer, startServer, Done, CopyIsLocal, RanPhases
<1>6. ThreadsEnd'
  BY DEF StartServer, startServer, Doing, ThreadsEnd
<1>7. LastClosed'
  BY DEF StartServer, startServer, Done, Lives, LastClosed
<1>8. QED
  BY <1>1, <1>2, <1>3, <1>4, <1>5, <1>6, <1>7

\* A failed start() keeps the invariant.
LEMMA StartFailsKeeps ==
  ASSUME IInv, StartFails
  PROVE  IInv'
<1> USE DEF IInv
<1>1. TypeOK'
  BY DEF StartFails, TypeOK, ServerTypeOK
<1>2. ListenerHolds'
  BY DEF StartFails, ListenerHolds
<1>3. StopOrder'
  BY DEF StartFails, StopOrder
<1>4. Tracked'
  BY DEF StartFails, Tracked
<1>5. CopyIsLocal' /\ RanPhases'
  BY DEF StartFails, Doing, CopyIsLocal, RanPhases
<1>6. ThreadsEnd'
  BY DEF StartFails, ThreadsEnd
<1>7. LastClosed'
  BY DEF StartFails, Doing, Lives, LastClosed
<1>8. QED
  BY <1>1, <1>2, <1>3, <1>4, <1>5, <1>6, <1>7

\* The end of start() keeps the invariant.
LEMMA StartReturnsKeeps ==
  ASSUME IInv, StartReturns
  PROVE  IInv'
<1> USE DEF IInv
<1>1. TypeOK'
  BY DEF StartReturns, TypeOK, ServerTypeOK
<1>2. ListenerHolds'
  BY DEF StartReturns, ListenerHolds
<1>3. StopOrder'
  BY DEF StartReturns, StopOrder
<1>4. Tracked'
  BY DEF StartReturns, Tracked
<1>5. CopyIsLocal' /\ RanPhases'
  BY DEF StartReturns, CopyIsLocal, RanPhases
<1>6. ThreadsEnd'
  BY DEF StartReturns, ThreadsEnd
<1>7. LastClosed'
  BY DEF StartReturns, Lives, LastClosed
<1>8. QED
  BY <1>1, <1>2, <1>3, <1>4, <1>5, <1>6, <1>7

\* stop() and ~Server begin: the acceptor is closed.
LEMMA StopKeeps ==
  ASSUME IInv, Stop
  PROVE  IInv'
<1> USE DEF IInv
<1>1. TypeOK'
  BY DEF Stop, CloseAcceptor, serviceVars, Lives, TypeOK, ServerTypeOK
<1>2. ListenerHolds'
  BY DEF Stop, CloseAcceptor, ListenerHolds
<1>3. StopOrder'
  BY DEF Stop, CloseAcceptor, StopOrder
<1>4. Tracked'
  BY DEF Stop, CloseAcceptor, Tracked
<1>5. CopyIsLocal' /\ RanPhases'
  BY DEF Stop, CloseAcceptor, serviceVars, CopyIsLocal, RanPhases
<1>6. ThreadsEnd'
  BY DEF Stop, CloseAcceptor, serviceVars, ThreadsEnd, RanPhases
<1>7. LastClosed'
  BY DEF Stop, CloseAcceptor, serviceVars, Lives, LastClosed
<1>8. QED
  BY <1>1, <1>2, <1>3, <1>4, <1>5, <1>6, <1>7

\* The end of the process keeps the invariant.
LEMMA ProcessEndsKeeps ==
  ASSUME IInv, ProcessEnds
  PROVE  IInv'
<1> USE DEF IInv
<1>1. TypeOK'
  BY DEF ProcessEnds, serverVars, TypeOK, ServerTypeOK
<1>2. ListenerHolds'
  BY DEF ProcessEnds, serverVars, ListenerHolds
<1>3. StopOrder'
  BY DEF ProcessEnds, serverVars, StopOrder
<1>4. Tracked'
  BY DEF ProcessEnds, serverVars, Tracked
<1>5. CopyIsLocal' /\ RanPhases'
  BY DEF ProcessEnds, serverVars, CopyIsLocal, RanPhases
<1>6. ThreadsEnd'
  BY DEF ProcessEnds, serverVars, ThreadsEnd
<1>7. LastClosed'
  BY DEF ProcessEnds, serverVars, LastClosed, ThreadsEnd, RanPhases
<1>8. QED
  BY <1>1, <1>2, <1>3, <1>4, <1>5, <1>6, <1>7

\* A connection arrives, or ends the listener, or its accept is aborted.
LEMMA AcceptKeeps ==
  ASSUME IInv, Lives, ConnectionArrives \/ ListenerThrows \/ ListenerAborted, UNCHANGED serviceVars
  PROVE  IInv'
<1> USE DEF IInv
<1>1. TypeOK'
  BY ZenonT(60) DEF ConnectionArrives, ListenerThrows, ListenerAborted, serviceVars, Lives,
     TypeOK, ServerTypeOK, ListenerHolds, Sessions
<1>2. ListenerHolds'
  BY DEF ConnectionArrives, ListenerThrows, ListenerAborted, ListenerHolds
<1>3. StopOrder'
  BY DEF ConnectionArrives, ListenerThrows, ListenerAborted, StopOrder
<1>4. Tracked'
  BY DEF ConnectionArrives, ListenerThrows, ListenerAborted, Tracked
<1>5. CopyIsLocal' /\ RanPhases'
  BY DEF ConnectionArrives, ListenerThrows, ListenerAborted, serviceVars,
     CopyIsLocal, RanPhases
<1>6. ThreadsEnd'
  BY <1>1 DEF ConnectionArrives, ListenerThrows, ListenerAborted, serviceVars,
     ThreadsEnd, TypeOK, ServerTypeOK
<1>7. LastClosed'
  BY DEF ConnectionArrives, ListenerThrows, ListenerAborted, serviceVars, Lives,
     LastClosed
<1>8. QED
  BY <1>1, <1>2, <1>3, <1>4, <1>5, <1>6, <1>7

\* A session is made and the owner told of it.
LEMMA ListenerTellsKeeps ==
  ASSUME IInv, Lives, ListenerTells, UNCHANGED serviceVars
  PROVE  IInv'
<1> USE DEF IInv
<1>a. /\ made' = made + 1 /\ made \in Nat /\ made' \in Sessions
      /\ made' \notin 1..made /\ 1..made' = (1..made) \union {made'}
  BY Made DEF ListenerTells, ListenerHolds
<1>b. owner' = owner \union {made'}
  BY DEF ListenerTells
<1>1. TypeOK'
  <2>1. /\ made' \in 0..MaxSessions /\ owner' \subseteq 1..made'
        /\ sessions \subseteq 1..made' /\ started \subseteq 1..made'
        /\ curList \subseteq 1..made'
    <3>1. /\ owner \subseteq 1..made /\ sessions \subseteq 1..made
          /\ started \subseteq 1..made /\ curList \subseteq 1..made
      BY Zenon DEF TypeOK, ServerTypeOK
    <3>2. QED
      BY <1>a, <1>b, <3>1 DEF Sessions
  <2>2. QED
    BY <2>1 DEF ListenerTells, serviceVars, TypeOK, ServerTypeOK
<1>2. ListenerHolds'
  <2>1. \A s \in Sessions : s > made' => s > made
    BY <1>a
  <2>2. made' > made /\ made' \notin sessions \union curList \union started
    <3>1. /\ sessions \subseteq 1..made /\ started \subseteq 1..made
          /\ curList \subseteq 1..made
      BY Zenon DEF TypeOK, ServerTypeOK
    <3>2. QED
      BY <1>a, <3>1
  <2>3. QED
    BY <1>a, <2>2 DEF ListenerTells, ListenerHolds
<1>3. StopOrder'
  <2>1. phase[made'] = "live"
    BY <1>a DEF ListenerHolds
  <2>2. QED
    BY <2>1 DEF ListenerTells, StopOrder
<1>4. Tracked'
  BY <1>a DEF ListenerTells, Tracked
<1>5. CopyIsLocal' /\ RanPhases'
  BY DEF ListenerTells, serviceVars, CopyIsLocal, RanPhases
<1>6. ThreadsEnd'
  BY DEF ListenerTells, serviceVars, ThreadsEnd
<1>7. LastClosed'
  BY DEF ListenerTells, serviceVars, Lives, LastClosed
<1>8. QED
  BY <1>1, <1>2, <1>3, <1>4, <1>5, <1>6, <1>7

\* addSession keeps the invariant, also when closeAll has run meanwhile.
LEMMA AddSessionKeeps ==
  ASSUME IInv, Lives, addSession, UNCHANGED serviceVars
  PROVE  IInv'
<1> USE DEF IInv
<1>1. TypeOK'
  <2>1. made \in 1..made
    BY Made DEF addSession, ListenerHolds
  <2>2. QED
    BY <2>1, ZenonT(60) DEF addSession, serviceVars, TypeOK, ServerTypeOK
<1>2. ListenerHolds'
  BY DEF addSession, ListenerHolds
<1>3. StopOrder'
  BY DEF addSession, StopOrder, ListenerHolds
<1>4. Tracked'
  BY DEF addSession, Tracked
<1>5. CopyIsLocal' /\ RanPhases'
  BY DEF addSession, serviceVars, CopyIsLocal, RanPhases
<1>6. ThreadsEnd'
  BY DEF addSession, serviceVars, ThreadsEnd
<1>7. LastClosed'
  BY DEF addSession, serviceVars, Lives, LastClosed, ThreadsEnd
<1>8. QED
  BY <1>1, <1>2, <1>3, <1>4, <1>5, <1>6, <1>7

\* The session starts.
LEMMA ListenerStartsKeeps ==
  ASSUME IInv, Lives, ListenerStarts, UNCHANGED serviceVars
  PROVE  IInv'
<1> USE DEF IInv
<1>1. TypeOK'
  <2>1. made \in 1..made
    BY Made DEF ListenerStarts, ListenerHolds
  <2>2. QED
    BY <2>1, ZenonT(60) DEF ListenerStarts, serviceVars, TypeOK, ServerTypeOK
<1>2. ListenerHolds'
  BY DEF ListenerStarts, ListenerHolds
<1>3. StopOrder'
  BY DEF ListenerStarts, StopOrder
<1>4. Tracked'
  BY DEF ListenerStarts, Tracked
<1>5. CopyIsLocal' /\ RanPhases'
  BY DEF ListenerStarts, serviceVars, CopyIsLocal, RanPhases
<1>6. ThreadsEnd'
  BY DEF ListenerStarts, serviceVars, ThreadsEnd
<1>7. LastClosed'
  BY DEF ListenerStarts, serviceVars, Lives, LastClosed
<1>8. QED
  BY <1>1, <1>2, <1>3, <1>4, <1>5, <1>6, <1>7

\* A session is stopped on its own thread.
LEMMA SessionBreaksKeeps ==
  ASSUME IInv, NEW s \in Sessions, Lives, SessionBreaks(s), UNCHANGED serviceVars
  PROVE  IInv'
<1> USE DEF IInv
<1>a. /\ 1..made \subseteq Sessions
      /\ \A t \in Sessions : phase'[t] = IF t = s THEN "won" ELSE phase[t]
      /\ \A t \in Sessions : stopper'[t] = IF t = s THEN "io" ELSE stopper[t]
  BY Made DEF SessionBreaks, TypeOK, ServerTypeOK
<1>b. s \in 1..made /\ (s = made => listener # "told")
  BY DEF SessionBreaks, ListenerHolds, TypeOK, ServerTypeOK
<1>1. TypeOK'
  <2>1. /\ phase' \in [Sessions -> {"live", "won", "told", "gone"}]
        /\ stopper' \in [Sessions -> {"nobody", "io", "main"}]
    BY DEF SessionBreaks, TypeOK, ServerTypeOK
  <2>2. owner' \subseteq 1..made' /\ sessions' \subseteq 1..made'
    BY Zenon DEF SessionBreaks, TypeOK, ServerTypeOK
  <2>3. /\ made' \in 0..MaxSessions /\ open' \in BOOLEAN /\ ioRuns' \in BOOLEAN
        /\ started' \subseteq 1..made' /\ curList' \subseteq 1..made'
    BY Zenon DEF SessionBreaks, TypeOK, ServerTypeOK
  <2>4. UNCHANGED <<listener, main, program, step, stopFlag, armed, registered, ran, ended>>
    BY Zenon DEF SessionBreaks, serviceVars
  <2>5. QED
    BY <2>1, <2>2, <2>3, <2>4, ZenonT(60) DEF TypeOK, ServerTypeOK
<1>2. ListenerHolds'
  BY <1>b, Made DEF SessionBreaks, ListenerHolds
<1>3. StopOrder'
  BY <1>a DEF SessionBreaks, StopOrder
<1>4. Tracked'
  BY DEF SessionBreaks, Tracked
<1>5. CopyIsLocal' /\ RanPhases'
  BY DEF SessionBreaks, serviceVars, CopyIsLocal, RanPhases
<1>6. ThreadsEnd'
  BY DEF SessionBreaks, serviceVars, ThreadsEnd
<1>7. LastClosed'
  BY DEF SessionBreaks, serviceVars, Lives, LastClosed, TypeOK, ServerTypeOK
<1>8. QED
  BY <1>1, <1>2, <1>3, <1>4, <1>5, <1>6, <1>7

\* The owner's disconnect handler keeps the invariant.
LEMMA DisconnectKeeps ==
  ASSUME IInv, NEW s \in Sessions, Lives, disconnectProc(s), UNCHANGED serviceVars
  PROVE  IInv'
<1> USE DEF IInv
<1>a. /\ 1..made \subseteq Sessions
      /\ \A t \in Sessions : phase'[t] = IF t = s THEN "told" ELSE phase[t]
      /\ stopper' = stopper
  BY Made DEF disconnectProc, TypeOK, ServerTypeOK
<1>b. s \in 1..made /\ (s = made => listener # "told")
  BY Made DEF disconnectProc, ListenerHolds
<1>1. TypeOK'
  <2>1. /\ phase' \in [Sessions -> {"live", "won", "told", "gone"}]
        /\ stopper' \in [Sessions -> {"nobody", "io", "main"}]
    BY DEF disconnectProc, TypeOK, ServerTypeOK
  <2>2. owner' \subseteq 1..made' /\ sessions' \subseteq 1..made'
    BY Zenon DEF disconnectProc, TypeOK, ServerTypeOK
  <2>3. /\ made' \in 0..MaxSessions /\ open' \in BOOLEAN /\ ioRuns' \in BOOLEAN
        /\ started' \subseteq 1..made' /\ curList' \subseteq 1..made'
    BY Zenon DEF disconnectProc, TypeOK, ServerTypeOK
  <2>4. UNCHANGED <<listener, main, program, step, stopFlag, armed, registered, ran, ended>>
    BY Zenon DEF disconnectProc, serviceVars
  <2>5. QED
    BY <2>1, <2>2, <2>3, <2>4, ZenonT(60) DEF TypeOK, ServerTypeOK
<1>2. ListenerHolds'
  BY DEF disconnectProc, ListenerHolds
<1>3. StopOrder'
  BY DEF disconnectProc, StopOrder
<1>4. Tracked'
  BY DEF disconnectProc, Tracked
<1>5. CopyIsLocal' /\ RanPhases'
  BY DEF disconnectProc, serviceVars, CopyIsLocal, RanPhases
<1>6. ThreadsEnd'
  BY DEF disconnectProc, serviceVars, ThreadsEnd
<1>7. LastClosed'
  BY DEF disconnectProc, serviceVars, Lives, LastClosed
<1>8. QED
  BY <1>1, <1>2, <1>3, <1>4, <1>5, <1>6, <1>7

\* delSession keeps the invariant.
LEMMA DelSessionKeeps ==
  ASSUME IInv, NEW s \in Sessions, Lives, delSession(s), UNCHANGED serviceVars
  PROVE  IInv'
<1> USE DEF IInv
<1>a. /\ 1..made \subseteq Sessions
      /\ \A t \in Sessions : phase'[t] = IF t = s THEN "gone" ELSE phase[t]
      /\ \A t \in Sessions : stopper'[t] = IF t = s THEN "nobody" ELSE stopper[t]
  BY Made DEF delSession, TypeOK, ServerTypeOK
<1>b. s \in 1..made /\ (s = made => listener # "told")
  BY Made DEF delSession, ListenerHolds
<1>1. TypeOK'
  <2>1. /\ phase' \in [Sessions -> {"live", "won", "told", "gone"}]
        /\ stopper' \in [Sessions -> {"nobody", "io", "main"}]
    BY DEF delSession, TypeOK, ServerTypeOK
  <2>2. owner' \subseteq 1..made' /\ sessions' \subseteq 1..made'
    BY Zenon DEF delSession, TypeOK, ServerTypeOK
  <2>3. /\ made' \in 0..MaxSessions /\ open' \in BOOLEAN /\ ioRuns' \in BOOLEAN
        /\ started' \subseteq 1..made' /\ curList' \subseteq 1..made'
    BY Zenon DEF delSession, TypeOK, ServerTypeOK
  <2>4. UNCHANGED <<listener, main, program, step, stopFlag, armed, registered, ran, ended>>
    BY Zenon DEF delSession, serviceVars
  <2>5. QED
    BY <2>1, <2>2, <2>3, <2>4, ZenonT(60) DEF TypeOK, ServerTypeOK
<1>2. ListenerHolds'
  BY DEF delSession, ListenerHolds
<1>3. StopOrder'
  BY <1>a DEF delSession, StopOrder
<1>4. Tracked'
  BY DEF delSession, Tracked
<1>5. CopyIsLocal' /\ RanPhases'
  BY DEF delSession, serviceVars, CopyIsLocal, RanPhases
<1>6. ThreadsEnd'
  BY DEF delSession, serviceVars, ThreadsEnd, TypeOK, ServerTypeOK
<1>7. LastClosed'
  BY DEF delSession, serviceVars, Lives, LastClosed, ThreadsEnd, StopOrder, TypeOK,
     ServerTypeOK
<1>8. QED
  BY <1>1, <1>2, <1>3, <1>4, <1>5, <1>6, <1>7

\* closeAll takes the table over.
LEMMA CloseAllKeeps ==
  ASSUME IInv, Lives, closeAll, UNCHANGED serviceVars
  PROVE  IInv'
<1> USE DEF IInv
<1>1. TypeOK'
  BY ZenonT(60) DEF closeAll, takeAll, serviceVars, Lives, TypeOK, ServerTypeOK, ListenerHolds,
     Sessions
<1>2. ListenerHolds'
  BY DEF closeAll, takeAll, ListenerHolds
<1>3. StopOrder'
  BY DEF closeAll, takeAll, StopOrder
<1>4. Tracked'
  BY DEF closeAll, takeAll, Tracked, CopyIsLocal
<1>5. CopyIsLocal' /\ RanPhases'
  BY DEF closeAll, serviceVars, CopyIsLocal, RanPhases
<1>6. ThreadsEnd'
  BY DEF closeAll, serviceVars, ThreadsEnd
<1>7. LastClosed'
  BY DEF closeAll, takeAll, serviceVars, Lives, LastClosed
<1>8. QED
  BY <1>1, <1>2, <1>3, <1>4, <1>5, <1>6, <1>7

\* closeAll stops one session, or finds it stopped.
LEMMA CloseOneKeeps ==
  ASSUME IInv, NEW s \in Sessions, Lives, CloseOne(s), UNCHANGED serviceVars
  PROVE  IInv'
<1> USE DEF IInv
<1>a. 1..made \subseteq Sessions /\ s \in 1..made /\ (s = made => listener # "told")
  BY Made DEF CloseOne, ListenerHolds, TypeOK, ServerTypeOK
<1>b. \/ /\ phase[s] = "live"
         /\ \A t \in Sessions : phase'[t] = IF t = s THEN "won" ELSE phase[t]
         /\ \A t \in Sessions : stopper'[t] = IF t = s THEN "main" ELSE stopper[t]
      \/ phase[s] # "live" /\ phase' = phase /\ stopper' = stopper
  BY DEF CloseOne, TypeOK, ServerTypeOK
<1>1. TypeOK'
  BY ZenonT(60) DEF CloseOne, MainIdle, serviceVars, Lives, TypeOK, ServerTypeOK,
     ListenerHolds, Sessions
<1>2. ListenerHolds'
  BY <1>a, <1>b, Made DEF CloseOne, ListenerHolds
<1>3. StopOrder'
  BY <1>b DEF CloseOne, StopOrder
<1>4. Tracked'
  BY <1>a, <1>b DEF CloseOne, Tracked
<1>5. CopyIsLocal' /\ RanPhases'
  BY DEF CloseOne, serviceVars, CopyIsLocal, RanPhases
<1>6. ThreadsEnd'
  BY <1>1 DEF CloseOne, MainIdle, serviceVars, Lives, ThreadsEnd, RanPhases, TypeOK,
     ServerTypeOK
<1>7. LastClosed'
  BY DEF CloseOne, serviceVars, Lives, LastClosed
<1>8. QED
  BY <1>1, <1>2, <1>3, <1>4, <1>5, <1>6, <1>7

\* closeAll is through.
LEMMA ClosedAllKeeps ==
  ASSUME IInv, Lives, ClosedAll, UNCHANGED serviceVars
  PROVE  IInv'
<1> USE DEF IInv
<1>1. TypeOK'
  BY DEF ClosedAll, MainIdle, serviceVars, Lives, TypeOK, ServerTypeOK,
     ListenerHolds, Sessions
<1>2. ListenerHolds'
  BY DEF ClosedAll, ListenerHolds
<1>3. StopOrder'
  BY DEF ClosedAll, StopOrder
<1>4. Tracked'
  BY DEF ClosedAll, Tracked
<1>5. CopyIsLocal' /\ RanPhases'
  BY DEF ClosedAll, serviceVars, CopyIsLocal, RanPhases
<1>6. ThreadsEnd'
  BY DEF ClosedAll, serviceVars, ThreadsEnd
<1>7. LastClosed'
  BY DEF ClosedAll, MainIdle, serviceVars, Lives, LastClosed
<1>8. QED
  BY <1>1, <1>2, <1>3, <1>4, <1>5, <1>6, <1>7

\* The threads are joined.
LEMMA JoinKeeps ==
  ASSUME IInv, Lives, Join, UNCHANGED serviceVars
  PROVE  IInv'
<1> USE DEF IInv
<1>1. TypeOK'
  BY DEF Join, serviceVars, TypeOK, ServerTypeOK
<1>2. ListenerHolds'
  BY DEF Join, ListenerHolds
<1>3. StopOrder'
  BY DEF Join, StopOrder
<1>4. Tracked'
  BY DEF Join, Tracked
<1>5. CopyIsLocal' /\ RanPhases'
  BY DEF Join, serviceVars, CopyIsLocal, RanPhases
<1>6. ThreadsEnd'
  BY DEF Join, serviceVars, ThreadsEnd
<1>7. LastClosed'
  BY DEF Join, serviceVars, Lives, LastClosed
<1>8. QED
  BY <1>1, <1>2, <1>3, <1>4, <1>5, <1>6, <1>7

-----------------------------------------------------------------------------
(* The theorems.                                                           *)

\* The invariant holds at first and is kept by every step.
LEMMA Inductive == Spec => []IInv
<1>1. Init => IInv
  <2> SUFFICES ASSUME Init PROVE IInv
    OBVIOUS
  <2>1. TypeOK
    <3>1. made \in 0..MaxSessions /\ step \in 0..5
      BY DEF Init, ServerInit
    <3>2. QED
      BY <3>1, Zenon DEF Init, ServerInit, TypeOK, ServerTypeOK
  <2>2. ListenerHolds /\ StopOrder /\ Tracked
    BY DEF Init, ServerInit, ListenerHolds, StopOrder, Tracked
  <2>3. CopyIsLocal /\ RanPhases /\ ThreadsEnd /\ LastClosed
    BY DEF Init, ServerInit, CopyIsLocal, RanPhases, ThreadsEnd, LastClosed
  <2>4. QED
    BY <2>1, <2>2, <2>3 DEF IInv
<1>2. ASSUME IInv, [Next]_vars PROVE IInv'
  <2> USE <1>2
  <2>1. CASE StartStep
    BY <2>1, QuietStartKeeps, StartPoolKeeps, StartServerKeeps, StartReturnsKeeps
       DEF StartStep
  <2>2. CASE StartFails \/ Signal
    BY <2>2, StartFailsKeeps, QuietStartKeeps
  <2>3. CASE /\ Lives
             /\ ConnectionArrives \/ ListenerThrows \/ (\E s \in Sessions : SessionBreaks(s))
             /\ UNCHANGED serviceVars
    BY <2>3, AcceptKeeps, SessionBreaksKeeps
  <2>4. CASE IoStep
    BY <2>4, ListenerTellsKeeps, AddSessionKeeps, ListenerStartsKeeps, AcceptKeeps,
       DisconnectKeeps, DelSessionKeeps DEF IoStep, ListenerStep, StopStep
  <2>5. CASE MainStep
    BY <2>5, CloseAllKeeps, CloseOneKeeps, ClosedAllKeeps, JoinKeeps, StopKeeps,
       ProcessEndsKeeps DEF MainStep, CloseStep
  <2>6. CASE UNCHANGED vars
    <3> USE <2>6 DEF vars, serverVars, serviceVars, IInv, Lives
    <3>1. TypeOK'
      <4>1. ServerTypeOK'
        BY Zenon DEF TypeOK, ServerTypeOK
      <4>2. QED
        BY <4>1, Zenon DEF TypeOK
    <3>2. ListenerHolds' /\ StopOrder' /\ Tracked'
      BY DEF ListenerHolds, StopOrder, Tracked
    <3>3. CopyIsLocal' /\ RanPhases' /\ ThreadsEnd' /\ LastClosed'
      BY DEF CopyIsLocal, RanPhases, ThreadsEnd, LastClosed
    <3>4. QED
      BY <3>1, <3>2, <3>3
  <2>7. QED
    BY <2>1, <2>2, <2>3, <2>4, <2>5, <2>6 DEF Next
<1>3. QED
  BY <1>1, <1>2, PTL DEF Spec

\* A session that runs can always be reached by broadcast and by closeAll,
\* whatever addSession, delSession and the two closeAll calls did meanwhile.
THEOREM SessionsReachable == Spec => []LiveIsListed
<1>1. IInv => LiveIsListed
  <2> SUFFICES ASSUME IInv, NEW s \in started, phase[s] = "live"
               PROVE  s \in sessions \union curList
    BY DEF LiveIsListed
  <2>1. s \in 1..made /\ ~(s = made /\ listener = "told")
    BY DEF IInv, TypeOK, ServerTypeOK, ListenerHolds
  <2>2. QED
    BY <2>1 DEF IInv, Tracked
<1>2. QED
  BY <1>1, Inductive, PTL

\* A session whose stop() has come to its end is in neither table.
THEOREM SessionsForgotten == Spec => []GoneIsForgotten
<1>1. IInv => GoneIsForgotten
  BY DEF IInv, StopOrder, GoneIsForgotten
<1>2. QED
  BY <1>1, Inductive, PTL

\* A program that ran ends with every session stopped and its owner told,
\* though the listener may add sessions while and after stop() closes them.
THEOREM EndsClean == Spec => []AllStoppedAtEnd
<1>1. IInv => AllStoppedAtEnd
  <2> SUFFICES ASSUME IInv, ran, ~Lives
               PROVE  owner = {} /\ sessions = {} /\ \A s \in 1..made : phase[s] = "gone"
    BY DEF AllStoppedAtEnd
  <2>1. main = "destroyed" /\ sessions = {} /\ curList = {} /\ listener # "told"
    BY DEF IInv, LastClosed, CopyIsLocal, ThreadsEnd
  <2>2. \A s \in Sessions : stopper[s] = "nobody"
    BY DEF IInv, LastClosed, ThreadsEnd, TypeOK, ServerTypeOK
  <2>3. \A s \in 1..made : s \in Sessions /\ phase[s] = "gone"
    <3>1. 1..made \subseteq Sessions
      BY Made DEF IInv
    <3>2. \A s \in 1..made : phase[s] # "live"
      BY <2>1 DEF IInv, Tracked
    <3>3. \A s \in Sessions : phase[s] \notin {"won", "told"}
      BY <2>2 DEF IInv, StopOrder
    <3>4. QED
      BY <3>1, <3>2, <3>3 DEF IInv, TypeOK, ServerTypeOK
  <2>4. owner = {}
    <3>1. owner \subseteq 1..made
      BY Zenon DEF IInv, TypeOK, ServerTypeOK
    <3>2. QED
      BY <3>1, <2>3 DEF IInv, StopOrder
  <2>5. QED
    BY <2>1, <2>3, <2>4
<1>2. QED
  BY <1>1, Inductive, PTL

\* No io thread is left in a handler when the Server of a program that ran is
\* destroyed, and the pool's threads have been joined when the process ends.
THEOREM EndsAlone == Spec => []DestroyedAlone
<1>1. IInv => DestroyedAlone
  BY DEF IInv, ThreadsEnd, LastClosed, Lives, DestroyedAlone
<1>2. QED
  BY <1>1, Inductive, PTL
=============================================================================
