--------------------------- MODULE DeadlineProofs ---------------------------
(***************************************************************************)
(* Theorems about Deadline, for any number of calls, any timeout, any      *)
(* number of addresses and a clock that runs as long as it likes.          *)
(***************************************************************************)
EXTENDS Deadline, TLAPS

-----------------------------------------------------------------------------
(* The inductive invariant.                                                *)

(* The call that is inside the transport is the holder of the lock.        *)
Held == \A c \in Calls : pc[c] \in Inside <=> lock = c

(* The connection the holder drives carries the holder's own deadline, and *)
(* an operation under way gives up then.                                   *)
OwnDeadline ==
    /\ lock # NoCall => attr = due[lock]
    /\ timer # NoTimer => lock # NoCall /\ timer = attr

(* A lookup that has not ended though the call stopped waiting for it, and *)
(* a last error that is a timeout, are seen at the deadline or after it.   *)
LateIsLate ==
    \A c \in Calls :
        /\ pc[c] \in {"joining", "joined"} => lookup[c] # "none"
        /\ pc[c] = "joined" /\ lookup[c] = "running" => now >= due[c]
        /\ pc[c] \in {"choosing", "connecting"} /\ error = "timeout" =>
              now >= due[c]

(* One socket is open while the holder has one, and the pool's otherwise.  *)
SocketsCounted ==
    /\ SocketsAreClosed
    /\ \A c \in Calls :
          lock = c => sockets = IF pc[c] \in Socketed \cup {"connecting"}
                                THEN 1 ELSE 0

IndInv == TypeOK /\ Held /\ OwnDeadline /\ LateIsLate /\ SocketsCounted

USE DEF Places, Inside, Socketed, Failures, Lookups, Hosts

-----------------------------------------------------------------------------
LEMMA InitIndInv == Init => IndInv
<1> SUFFICES ASSUME Init PROVE IndInv
  OBVIOUS
<1>1. TypeOK
  BY NamesAssumption DEF Init, TypeOK, FlagsOK
<1>2. Held /\ OwnDeadline /\ LateIsLate
  BY NamesAssumption DEF Init, Held, OwnDeadline, LateIsLate
<1>3. SocketsCounted
  BY NamesAssumption DEF Init, SocketsCounted, SocketsAreClosed
<1> QED
  BY <1>1, <1>2, <1>3 DEF IndInv

(* A step leaves each flag as it is or sets it to one of its values.        *)
LEMMA FlagsStep ==
  ASSUME FlagsOK, [Next]_vars
  PROVE  FlagsOK'
<1> USE DEF FlagsOK
<1>1. ASSUME NEW c \in Calls, OpenFresh(c) PROVE FlagsOK'
  BY <1>1, Zenon DEF OpenFresh
<1>2. ASSUME NEW c \in Calls, EvictDead(c) PROVE FlagsOK'
  BY <1>2, Zenon DEF EvictDead
<1>3. ASSUME NEW c \in Calls, Reuse(c) PROVE FlagsOK'
  BY <1>3, Zenon DEF Reuse
<1>4. ASSUME NEW c \in Calls, ReadAnswer(c) PROVE FlagsOK'
  BY <1>4, Zenon DEF ReadAnswer, Raises
<1>5. ASSUME NEW c \in Calls, NoSocket(c) PROVE FlagsOK'
  BY <1>5, Zenon DEF NoSocket, Raises
<1>6. ASSUME NEW c \in Calls, NoneLeft(c) PROVE FlagsOK'
  BY <1>6, Zenon DEF NoneLeft, Raises
<1>7. ASSUME NEW c \in Calls, StartOp(c) PROVE FlagsOK'
  BY <1>7, Zenon DEF StartOp, Raises
<1>8. ASSUME NEW c \in Calls, Answered(c) PROVE FlagsOK'
  BY <1>8, Zenon DEF Answered
<1>9. ASSUME NEW c \in Calls, OpBreaks(c) PROVE FlagsOK'
  BY <1>9, Zenon DEF OpBreaks, Raises
<1>10. ASSUME NEW c \in Calls, OpTimesOut(c) PROVE FlagsOK'
  BY <1>10, Zenon DEF OpTimesOut, Raises
<1>11. ASSUME NEW c \in Calls, Reconnect(c) PROVE FlagsOK'
  BY <1>11, Zenon DEF Reconnect
<1>12. ASSUME NEW c \in Calls,
             Begin(c) \/ ResolveAddress(c) \/ LookUp(c) \/
             ResolverEnds(c) \/ JoinEnds(c) \/ TryAddress(c) \/
             Connected(c) \/ AttemptFails(c) \/ HandshakeEnds(c) \/
             SendTakes(c) \/ RecvBrings(c)
      PROVE  FlagsOK'
  BY <1>12, Zenon DEF Begin, ResolveAddress, LookUp, ResolverEnds, JoinEnds,
     TryAddress, Connected, AttemptFails, HandshakeEnds, SendTakes, RecvBrings
<1>13. CASE Tick \/ Terminating \/ UNCHANGED vars
  BY <1>13, Zenon DEF Tick, Terminating, vars
<1> QED
  BY <1>1, <1>2, <1>3, <1>4, <1>5, <1>6, <1>7, <1>8, <1>9, <1>10, <1>11,
     <1>12, <1>13 DEF Next

(* A step takes the lock for a call on its way in, or releases it for the  *)
(* holder on its way out, and moves no other call.                         *)
LEMMA HeldStep ==
  ASSUME IndInv, [Next]_vars
  PROVE  Held'
<1> USE TimesAssumption, NamesAssumption DEF IndInv, TypeOK, Held
<1>1. ASSUME NEW c \in Calls, Begin(c) PROVE Held'
  BY <1>1 DEF Begin, At, Goes, lookups
<1>2. ASSUME NEW c \in Calls, OpenFresh(c) PROVE Held'
  BY <1>2 DEF OpenFresh, At, Goes, Ends, TimeLeft, lookups
<1>3. ASSUME NEW c \in Calls, EvictDead(c) PROVE Held'
  BY <1>3 DEF EvictDead, At, Goes, Ends, TimeLeft, lookups
<1>4. ASSUME NEW c \in Calls, Reuse(c) PROVE Held'
  BY <1>4 DEF Reuse, At, Goes, Ends, TimeLeft, lookups
<1>5. ASSUME NEW c \in Calls, ResolveAddress(c) PROVE Held'
  BY <1>5 DEF ResolveAddress, At, Goes
<1>6. ASSUME NEW c \in Calls, LookUp(c) PROVE Held'
  BY <1>6 DEF LookUp, At, Goes, SecondsLeft, GivenWhatIsLeft
<1>7. ASSUME NEW c \in Calls, ResolverEnds(c) PROVE Held'
  BY <1>7 DEF ResolverEnds
<1>8. ASSUME NEW c \in Calls, JoinEnds(c) PROVE Held'
  BY <1>8 DEF JoinEnds, At, Goes, Expired, lookups
<1>9. ASSUME NEW c \in Calls, ReadAnswer(c) PROVE Held'
  BY <1>9 DEF ReadAnswer, At, Goes, Raises, Ends
<1>10. ASSUME NEW c \in Calls, TryAddress(c) PROVE Held'
  BY <1>10 DEF TryAddress, At, Goes, SecondsLeft, GivenWhatIsLeft
<1>11. ASSUME NEW c \in Calls, NoSocket(c) PROVE Held'
  BY <1>11 DEF NoSocket, At, Goes, Raises, Ends, lookups
<1>12. ASSUME NEW c \in Calls, Connected(c) PROVE Held'
  BY <1>12 DEF Connected, At, Goes, SecondsLeft, GivenWhatIsLeft
<1>13. ASSUME NEW c \in Calls, AttemptFails(c) PROVE Held'
  BY <1>13 DEF AttemptFails, At, Goes, Expired
<1>14. ASSUME NEW c \in Calls, NoneLeft(c) PROVE Held'
  BY <1>14 DEF NoneLeft, At, Goes, Raises, Ends, lookups
<1>15. ASSUME NEW c \in Calls, HandshakeEnds(c) PROVE Held'
  BY <1>15 DEF HandshakeEnds, At, Goes, lookups
<1>16. ASSUME NEW c \in Calls, StartOp(c) PROVE Held'
  BY <1>16 DEF StartOp, Goes, NotBlocked, SecondsLeft, GivenWhatIsLeft,
     Raises, Ends, lookups
<1>17. ASSUME NEW c \in Calls, SendTakes(c) PROVE Held'
  BY <1>17 DEF SendTakes, At, NotBlocked, lookups
<1>18. ASSUME NEW c \in Calls, RecvBrings(c) PROVE Held'
  BY <1>18 DEF RecvBrings, At, NotBlocked, lookups
<1>19. ASSUME NEW c \in Calls, Answered(c) PROVE Held'
  BY <1>19 DEF Answered, At, Goes, NotBlocked, Ends, lookups
<1>20. ASSUME NEW c \in Calls, OpBreaks(c) PROVE Held'
  BY <1>20 DEF OpBreaks, Goes, NotBlocked, Raises, Ends, lookups
<1>21. ASSUME NEW c \in Calls, OpTimesOut(c) PROVE Held'
  BY <1>21 DEF OpTimesOut, Goes, Expired, Raises, Ends, lookups
<1>22. ASSUME NEW c \in Calls, Reconnect(c) PROVE Held'
  BY <1>22 DEF Reconnect, At, Goes, NotBlocked, TimeLeft, Ends, lookups
<1>23. CASE Tick
  BY <1>23 DEF Tick, lookups
<1>24. CASE Terminating \/ UNCHANGED vars
  BY <1>24 DEF Terminating, vars
<1> QED
  BY <1>1, <1>2, <1>3, <1>4, <1>5, <1>6, <1>7, <1>8, <1>9, <1>10, <1>11,
     <1>12, <1>13, <1>14, <1>15, <1>16, <1>17, <1>18, <1>19, <1>20, <1>21,
     <1>22, <1>23, <1>24 DEF Next

(* The connection's deadline changes only where a call takes the lock or   *)
(* reconnects, and is then the call's; no timer outlives its operation.     *)
LEMMA OwnDeadlineStep ==
  ASSUME IndInv, Held', [Next]_vars
  PROVE  OwnDeadline'
<1> USE TimesAssumption, NamesAssumption DEF IndInv, TypeOK, Held, OwnDeadline
<1>1. ASSUME NEW c \in Calls, Begin(c) PROVE OwnDeadline'
  BY <1>1 DEF Begin, At, Goes, lookups
<1>2. ASSUME NEW c \in Calls, OpenFresh(c) PROVE OwnDeadline'
  BY <1>2 DEF OpenFresh, At, Goes, Ends, TimeLeft, lookups
<1>3. ASSUME NEW c \in Calls, EvictDead(c) PROVE OwnDeadline'
  BY <1>3 DEF EvictDead, At, Goes, Ends, TimeLeft, lookups
<1>4. ASSUME NEW c \in Calls, Reuse(c) PROVE OwnDeadline'
  BY <1>4 DEF Reuse, At, Goes, Ends, TimeLeft, lookups
<1>5. ASSUME NEW c \in Calls, ResolveAddress(c) PROVE OwnDeadline'
  BY <1>5 DEF ResolveAddress, At, Goes
<1>6. ASSUME NEW c \in Calls, LookUp(c) PROVE OwnDeadline'
  BY <1>6 DEF LookUp, At, Goes, SecondsLeft, GivenWhatIsLeft
<1>7. ASSUME NEW c \in Calls, ResolverEnds(c) PROVE OwnDeadline'
  BY <1>7 DEF ResolverEnds
<1>8. ASSUME NEW c \in Calls, JoinEnds(c) PROVE OwnDeadline'
  BY <1>8 DEF JoinEnds, At, Goes, Expired, lookups
<1>9. ASSUME NEW c \in Calls, ReadAnswer(c) PROVE OwnDeadline'
  BY <1>9 DEF ReadAnswer, At, Goes, Raises, Ends
<1>10. ASSUME NEW c \in Calls, TryAddress(c) PROVE OwnDeadline'
  BY <1>10 DEF TryAddress, At, Goes, SecondsLeft, GivenWhatIsLeft
<1>11. ASSUME NEW c \in Calls, NoSocket(c) PROVE OwnDeadline'
  BY <1>11 DEF NoSocket, At, Goes, Raises, Ends, lookups
<1>12. ASSUME NEW c \in Calls, Connected(c) PROVE OwnDeadline'
  BY <1>12 DEF Connected, At, Goes, SecondsLeft, GivenWhatIsLeft
<1>13. ASSUME NEW c \in Calls, AttemptFails(c) PROVE OwnDeadline'
  BY <1>13 DEF AttemptFails, At, Goes, Expired
<1>14. ASSUME NEW c \in Calls, NoneLeft(c) PROVE OwnDeadline'
  BY <1>14 DEF NoneLeft, At, Goes, Raises, Ends, lookups
<1>15. ASSUME NEW c \in Calls, HandshakeEnds(c) PROVE OwnDeadline'
  BY <1>15 DEF HandshakeEnds, At, Goes, lookups
<1>16. ASSUME NEW c \in Calls, StartOp(c) PROVE OwnDeadline'
  BY <1>16 DEF StartOp, Goes, NotBlocked, SecondsLeft, GivenWhatIsLeft,
     Raises, Ends, lookups
<1>17. ASSUME NEW c \in Calls, SendTakes(c) PROVE OwnDeadline'
  BY <1>17 DEF SendTakes, At, NotBlocked, lookups
<1>18. ASSUME NEW c \in Calls, RecvBrings(c) PROVE OwnDeadline'
  BY <1>18 DEF RecvBrings, At, NotBlocked, lookups
<1>19. ASSUME NEW c \in Calls, Answered(c) PROVE OwnDeadline'
  BY <1>19 DEF Answered, At, Goes, NotBlocked, Ends, lookups
<1>20. ASSUME NEW c \in Calls, OpBreaks(c) PROVE OwnDeadline'
  BY <1>20 DEF OpBreaks, Goes, NotBlocked, Raises, Ends, lookups
<1>21. ASSUME NEW c \in Calls, OpTimesOut(c) PROVE OwnDeadline'
  BY <1>21 DEF OpTimesOut, Goes, Expired, Raises, Ends, lookups
<1>22. ASSUME NEW c \in Calls, Reconnect(c) PROVE OwnDeadline'
  BY <1>22 DEF Reconnect, At, Goes, NotBlocked, TimeLeft, Ends, lookups
<1>23. CASE Tick
  BY <1>23 DEF Tick, lookups
<1>24. CASE Terminating \/ UNCHANGED vars
  BY <1>24 DEF Terminating, vars
<1> QED
  BY <1>1, <1>2, <1>3, <1>4, <1>5, <1>6, <1>7, <1>8, <1>9, <1>10, <1>11,
     <1>12, <1>13, <1>14, <1>15, <1>16, <1>17, <1>18, <1>19, <1>20, <1>21,
     <1>22, <1>23, <1>24 DEF Next

(* Only a join that gave up leaves a lookup running behind a call, and only *)
(* an attempt without time, or one that used all of it, a timeout as the    *)
(* last error.                                                              *)
LEMMA LateIsLateStep ==
  ASSUME IndInv, [Next]_vars
  PROVE  LateIsLate'
<1> USE TimesAssumption, NamesAssumption DEF IndInv, TypeOK, Held,
   OwnDeadline, LateIsLate
<1>1. ASSUME NEW c \in Calls, Begin(c) PROVE LateIsLate'
  BY <1>1 DEF Begin, At, Goes, lookups
<1>2. ASSUME NEW c \in Calls, OpenFresh(c) PROVE LateIsLate'
  BY <1>2 DEF OpenFresh, At, Goes, Ends, TimeLeft, lookups
<1>3. ASSUME NEW c \in Calls, EvictDead(c) PROVE LateIsLate'
  BY <1>3 DEF EvictDead, At, Goes, Ends, TimeLeft, lookups
<1>4. ASSUME NEW c \in Calls, Reuse(c) PROVE LateIsLate'
  BY <1>4 DEF Reuse, At, Goes, Ends, TimeLeft, lookups
<1>5. ASSUME NEW c \in Calls, ResolveAddress(c) PROVE LateIsLate'
  BY <1>5 DEF ResolveAddress, At, Goes
<1>6. ASSUME NEW c \in Calls, LookUp(c) PROVE LateIsLate'
  BY <1>6 DEF LookUp, At, Goes, SecondsLeft, GivenWhatIsLeft
<1>7. ASSUME NEW c \in Calls, ResolverEnds(c) PROVE LateIsLate'
  BY <1>7 DEF ResolverEnds
<1>8. ASSUME NEW c \in Calls, JoinEnds(c) PROVE LateIsLate'
  BY <1>8 DEF JoinEnds, At, Goes, Expired, lookups
<1>9. ASSUME NEW c \in Calls, ReadAnswer(c) PROVE LateIsLate'
  BY <1>9 DEF ReadAnswer, At, Goes, Raises, Ends
<1>10. ASSUME NEW c \in Calls, TryAddress(c) PROVE LateIsLate'
  BY <1>10 DEF TryAddress, At, Goes, SecondsLeft, GivenWhatIsLeft
<1>11. ASSUME NEW c \in Calls, NoSocket(c) PROVE LateIsLate'
  BY <1>11 DEF NoSocket, At, Goes, Raises, Ends, lookups
<1>12. ASSUME NEW c \in Calls, Connected(c) PROVE LateIsLate'
  BY <1>12 DEF Connected, At, Goes, SecondsLeft, GivenWhatIsLeft
<1>13. ASSUME NEW c \in Calls, AttemptFails(c) PROVE LateIsLate'
  BY <1>13 DEF AttemptFails, At, Goes, Expired
<1>14. ASSUME NEW c \in Calls, NoneLeft(c) PROVE LateIsLate'
  BY <1>14 DEF NoneLeft, At, Goes, Raises, Ends, lookups
<1>15. ASSUME NEW c \in Calls, HandshakeEnds(c) PROVE LateIsLate'
  BY <1>15 DEF HandshakeEnds, At, Goes, lookups
<1>16. ASSUME NEW c \in Calls, StartOp(c) PROVE LateIsLate'
  BY <1>16 DEF StartOp, Goes, NotBlocked, SecondsLeft, GivenWhatIsLeft,
     Raises, Ends, lookups
<1>17. ASSUME NEW c \in Calls, SendTakes(c) PROVE LateIsLate'
  BY <1>17 DEF SendTakes, At, NotBlocked, lookups
<1>18. ASSUME NEW c \in Calls, RecvBrings(c) PROVE LateIsLate'
  BY <1>18 DEF RecvBrings, At, NotBlocked, lookups
<1>19. ASSUME NEW c \in Calls, Answered(c) PROVE LateIsLate'
  BY <1>19 DEF Answered, At, Goes, NotBlocked, Ends, lookups
<1>20. ASSUME NEW c \in Calls, OpBreaks(c) PROVE LateIsLate'
  BY <1>20 DEF OpBreaks, Goes, NotBlocked, Raises, Ends, lookups
<1>21. ASSUME NEW c \in Calls, OpTimesOut(c) PROVE LateIsLate'
  BY <1>21 DEF OpTimesOut, Goes, Expired, Raises, Ends, lookups
<1>22. ASSUME NEW c \in Calls, Reconnect(c) PROVE LateIsLate'
  BY <1>22 DEF Reconnect, At, Goes, NotBlocked, TimeLeft, Ends, lookups
<1>23. CASE Tick
  BY <1>23 DEF Tick, lookups
<1>24. CASE Terminating \/ UNCHANGED vars
  BY <1>24 DEF Terminating, vars
<1> QED
  BY <1>1, <1>2, <1>3, <1>4, <1>5, <1>6, <1>7, <1>8, <1>9, <1>10, <1>11,
     <1>12, <1>13, <1>14, <1>15, <1>16, <1>17, <1>18, <1>19, <1>20, <1>21,
     <1>22, <1>23, <1>24 DEF Next

(* A socket is opened for an attempt and closed where the attempt, or the   *)
(* connection it became, ends; or it is the pool's.                         *)
LEMMA SocketsStep ==
  ASSUME IndInv, [Next]_vars
  PROVE  SocketsCounted' /\ sockets' \in Nat
<1> USE TimesAssumption, NamesAssumption DEF IndInv, TypeOK, Held,
   SocketsCounted, SocketsAreClosed
<1>1. ASSUME NEW c \in Calls, Begin(c) PROVE SocketsCounted' /\ sockets' \in
   Nat
  BY <1>1 DEF Begin, At, Goes, lookups
<1>2. ASSUME NEW c \in Calls, OpenFresh(c) PROVE SocketsCounted' /\ sockets'
   \in Nat
  BY <1>2 DEF OpenFresh, At, Goes, Ends, TimeLeft, lookups
<1>3. ASSUME NEW c \in Calls, EvictDead(c) PROVE SocketsCounted' /\ sockets'
   \in Nat
  BY <1>3 DEF EvictDead, At, Goes, Ends, TimeLeft, lookups
<1>4. ASSUME NEW c \in Calls, Reuse(c) PROVE SocketsCounted' /\ sockets' \in
   Nat
  BY <1>4 DEF Reuse, At, Goes, Ends, TimeLeft, lookups
<1>5. ASSUME NEW c \in Calls, ResolveAddress(c) PROVE SocketsCounted' /\
   sockets' \in Nat
  BY <1>5 DEF ResolveAddress, At, Goes
<1>6. ASSUME NEW c \in Calls, LookUp(c) PROVE SocketsCounted' /\ sockets' \in
   Nat
  BY <1>6 DEF LookUp, At, Goes, SecondsLeft, GivenWhatIsLeft
<1>7. ASSUME NEW c \in Calls, ResolverEnds(c) PROVE SocketsCounted' /\
   sockets' \in Nat
  BY <1>7 DEF ResolverEnds
<1>8. ASSUME NEW c \in Calls, JoinEnds(c) PROVE SocketsCounted' /\ sockets'
   \in Nat
  BY <1>8 DEF JoinEnds, At, Goes, Expired, lookups
<1>9. ASSUME NEW c \in Calls, ReadAnswer(c) PROVE SocketsCounted' /\ sockets'
   \in Nat
  BY <1>9 DEF ReadAnswer, At, Goes, Raises, Ends
<1>10. ASSUME NEW c \in Calls, TryAddress(c) PROVE SocketsCounted' /\ sockets'
   \in Nat
  BY <1>10 DEF TryAddress, At, Goes, SecondsLeft, GivenWhatIsLeft
<1>11. ASSUME NEW c \in Calls, NoSocket(c) PROVE SocketsCounted' /\ sockets'
   \in Nat
  BY <1>11 DEF NoSocket, At, Goes, Raises, Ends, lookups
<1>12. ASSUME NEW c \in Calls, Connected(c) PROVE SocketsCounted' /\ sockets'
   \in Nat
  BY <1>12 DEF Connected, At, Goes, SecondsLeft, GivenWhatIsLeft
<1>13. ASSUME NEW c \in Calls, AttemptFails(c) PROVE SocketsCounted' /\
   sockets' \in Nat
  BY <1>13 DEF AttemptFails, At, Goes, Expired
<1>14. ASSUME NEW c \in Calls, NoneLeft(c) PROVE SocketsCounted' /\ sockets'
   \in Nat
  BY <1>14 DEF NoneLeft, At, Goes, Raises, Ends, lookups
<1>15. ASSUME NEW c \in Calls, HandshakeEnds(c) PROVE SocketsCounted' /\
   sockets' \in Nat
  BY <1>15 DEF HandshakeEnds, At, Goes, lookups
<1>16. ASSUME NEW c \in Calls, StartOp(c) PROVE SocketsCounted' /\ sockets'
   \in Nat
  BY <1>16 DEF StartOp, Goes, NotBlocked, SecondsLeft, GivenWhatIsLeft,
     Raises, Ends, lookups
<1>17. ASSUME NEW c \in Calls, SendTakes(c) PROVE SocketsCounted' /\ sockets'
   \in Nat
  BY <1>17 DEF SendTakes, At, NotBlocked, lookups
<1>18. ASSUME NEW c \in Calls, RecvBrings(c) PROVE SocketsCounted' /\ sockets'
   \in Nat
  BY <1>18 DEF RecvBrings, At, NotBlocked, lookups
<1>19. ASSUME NEW c \in Calls, Answered(c) PROVE SocketsCounted' /\ sockets'
   \in Nat
  BY <1>19 DEF Answered, At, Goes, NotBlocked, Ends, lookups
<1>20. ASSUME NEW c \in Calls, OpBreaks(c) PROVE SocketsCounted' /\ sockets'
   \in Nat
  BY <1>20 DEF OpBreaks, Goes, NotBlocked, Raises, Ends, lookups
<1>21. ASSUME NEW c \in Calls, OpTimesOut(c) PROVE SocketsCounted' /\ sockets'
   \in Nat
  BY <1>21 DEF OpTimesOut, Goes, Expired, Raises, Ends, lookups
<1>22. ASSUME NEW c \in Calls, Reconnect(c) PROVE SocketsCounted' /\ sockets'
   \in Nat
  BY <1>22 DEF Reconnect, At, Goes, NotBlocked, TimeLeft, Ends, lookups
<1>23. CASE Tick
  BY <1>23 DEF Tick, lookups
<1>24. CASE Terminating \/ UNCHANGED vars
  BY <1>24 DEF Terminating, vars
<1> QED
  BY <1>1, <1>2, <1>3, <1>4, <1>5, <1>6, <1>7, <1>8, <1>9, <1>10, <1>11,
     <1>12, <1>13, <1>14, <1>15, <1>16, <1>17, <1>18, <1>19, <1>20, <1>21,
     <1>22, <1>23, <1>24 DEF Next

(* Each other variable keeps its type.                                      *)
LEMMA TypeStep ==
  ASSUME IndInv, FlagsOK', sockets' \in Nat, [Next]_vars
  PROVE  TypeOK'
<1> USE TimesAssumption, NamesAssumption DEF IndInv, TypeOK
<1>1. ASSUME NEW c \in Calls, Begin(c) PROVE TypeOK'
  BY <1>1 DEF Begin, At, Goes, lookups
<1>2. ASSUME NEW c \in Calls, OpenFresh(c) PROVE TypeOK'
  BY <1>2 DEF OpenFresh, At, Goes, Ends, TimeLeft, lookups
<1>3. ASSUME NEW c \in Calls, EvictDead(c) PROVE TypeOK'
  BY <1>3 DEF EvictDead, At, Goes, Ends, TimeLeft, lookups
<1>4. ASSUME NEW c \in Calls, Reuse(c) PROVE TypeOK'
  BY <1>4 DEF Reuse, At, Goes, Ends, TimeLeft, lookups
<1>5. ASSUME NEW c \in Calls, ResolveAddress(c) PROVE TypeOK'
  BY <1>5 DEF ResolveAddress, At, Goes
<1>6. ASSUME NEW c \in Calls, LookUp(c) PROVE TypeOK'
  BY <1>6 DEF LookUp, At, Goes, SecondsLeft, GivenWhatIsLeft
<1>7. ASSUME NEW c \in Calls, ResolverEnds(c) PROVE TypeOK'
  BY <1>7 DEF ResolverEnds
<1>8. ASSUME NEW c \in Calls, JoinEnds(c) PROVE TypeOK'
  BY <1>8 DEF JoinEnds, At, Goes, Expired, lookups
<1>9. ASSUME NEW c \in Calls, ReadAnswer(c) PROVE TypeOK'
  BY <1>9 DEF ReadAnswer, At, Goes, Raises, Ends
<1>10. ASSUME NEW c \in Calls, TryAddress(c) PROVE TypeOK'
  BY <1>10 DEF TryAddress, At, Goes, SecondsLeft, GivenWhatIsLeft
<1>11. ASSUME NEW c \in Calls, NoSocket(c) PROVE TypeOK'
  BY <1>11 DEF NoSocket, At, Goes, Raises, Ends, lookups
<1>12. ASSUME NEW c \in Calls, Connected(c) PROVE TypeOK'
  BY <1>12 DEF Connected, At, Goes, SecondsLeft, GivenWhatIsLeft
<1>13. ASSUME NEW c \in Calls, AttemptFails(c) PROVE TypeOK'
  BY <1>13 DEF AttemptFails, At, Goes, Expired
<1>14. ASSUME NEW c \in Calls, NoneLeft(c) PROVE TypeOK'
  BY <1>14 DEF NoneLeft, At, Goes, Raises, Ends, lookups
<1>15. ASSUME NEW c \in Calls, HandshakeEnds(c) PROVE TypeOK'
  BY <1>15 DEF HandshakeEnds, At, Goes, lookups
<1>16. ASSUME NEW c \in Calls, StartOp(c) PROVE TypeOK'
  BY <1>16 DEF StartOp, Goes, NotBlocked, SecondsLeft, GivenWhatIsLeft,
     Raises, Ends, lookups
<1>17. ASSUME NEW c \in Calls, SendTakes(c) PROVE TypeOK'
  BY <1>17 DEF SendTakes, At, NotBlocked, lookups
<1>18. ASSUME NEW c \in Calls, RecvBrings(c) PROVE TypeOK'
  BY <1>18 DEF RecvBrings, At, NotBlocked, lookups
<1>19. ASSUME NEW c \in Calls, Answered(c) PROVE TypeOK'
  BY <1>19 DEF Answered, At, Goes, NotBlocked, Ends, lookups
<1>20. ASSUME NEW c \in Calls, OpBreaks(c) PROVE TypeOK'
  BY <1>20 DEF OpBreaks, Goes, NotBlocked, Raises, Ends, lookups
<1>21. ASSUME NEW c \in Calls, OpTimesOut(c) PROVE TypeOK'
  BY <1>21 DEF OpTimesOut, Goes, Expired, Raises, Ends, lookups
<1>22. ASSUME NEW c \in Calls, Reconnect(c) PROVE TypeOK'
  BY <1>22 DEF Reconnect, At, Goes, NotBlocked, TimeLeft, Ends, lookups
<1>23. CASE Tick
  BY <1>23 DEF Tick, lookups
<1>24. CASE Terminating \/ UNCHANGED vars
  BY <1>24 DEF Terminating, vars
<1> QED
  BY <1>1, <1>2, <1>3, <1>4, <1>5, <1>6, <1>7, <1>8, <1>9, <1>10, <1>11,
     <1>12, <1>13, <1>14, <1>15, <1>16, <1>17, <1>18, <1>19, <1>20, <1>21,
     <1>22, <1>23, <1>24 DEF Next

(* An operation is begun only by the holder of the lock, over a connection  *)
(* that carries its deadline; the other steps leave the timer or stop it.   *)
LEMMA GivenStep ==
  ASSUME IndInv, Held', [Next]_vars
  PROVE  timer' \notin {timer, NoTimer} =>
             lock' # NoCall /\ timer' = due[lock'] /\ now < timer'
<1> DEFINE Given ==
      timer' \notin {timer, NoTimer} =>
             lock' # NoCall /\ timer' = due[lock'] /\ now < timer'
<1> USE TimesAssumption, NamesAssumption DEF IndInv, TypeOK, Held, OwnDeadline
<1>1. ASSUME NEW c \in Calls, LookUp(c) PROVE Given
  BY <1>1 DEF LookUp, At, Goes, SecondsLeft, GivenWhatIsLeft
<1>2. ASSUME NEW c \in Calls, TryAddress(c) PROVE Given
  BY <1>2 DEF TryAddress, At, Goes, SecondsLeft, GivenWhatIsLeft
<1>3. ASSUME NEW c \in Calls, Connected(c) PROVE Given
  BY <1>3 DEF Connected, At, Goes, SecondsLeft, GivenWhatIsLeft
<1>4. ASSUME NEW c \in Calls, StartOp(c) PROVE Given
  BY <1>4 DEF StartOp, Goes, NotBlocked, SecondsLeft, GivenWhatIsLeft, Raises,
     Ends, lookups
<1>5. ASSUME NEW c \in Calls,
             Begin(c) \/ OpenFresh(c) \/ EvictDead(c) \/ Reuse(c) \/
             ResolveAddress(c) \/ ResolverEnds(c) \/ JoinEnds(c) \/
             ReadAnswer(c) \/ NoSocket(c) \/ AttemptFails(c) \/
             NoneLeft(c) \/ HandshakeEnds(c) \/ SendTakes(c) \/
             RecvBrings(c) \/ Answered(c) \/ OpBreaks(c) \/ OpTimesOut(c)
             \/ Reconnect(c)
      PROVE  Given
  <2>1. timer' \in {timer, NoTimer}
    BY <1>5 DEF Begin, OpenFresh, EvictDead, Reuse, ResolveAddress,
       ResolverEnds, JoinEnds, ReadAnswer, NoSocket, AttemptFails, NoneLeft,
       HandshakeEnds, SendTakes, RecvBrings, Answered, OpBreaks, OpTimesOut,
       Reconnect, At, Goes, lookups, Ends, TimeLeft, Expired, Raises,
       NotBlocked
  <2> QED
    BY <2>1
<1>6. CASE Tick \/ Terminating \/ UNCHANGED vars
  BY <1>6 DEF Tick, Terminating, vars, lookups
<1> QED
  BY <1>1, <1>2, <1>3, <1>4, <1>5, <1>6 DEF Next

(* Every way out with a timeout is one that read the clock at the deadline; *)
(* the other steps end a call otherwise or not at all.                      *)
LEMMA LateStep ==
  ASSUME IndInv, [Next]_vars
  PROVE  \A d \in Calls :
             outcome[d] = "none" /\ outcome'[d] = "timeout" => now >= due[d]
<1> DEFINE Late ==
      \A d \in Calls :
             outcome[d] = "none" /\ outcome'[d] = "timeout" => now >= due[d]
<1> USE TimesAssumption, NamesAssumption DEF IndInv, TypeOK, Held,
   OwnDeadline, LateIsLate
<1>1. ASSUME NEW c \in Calls, OpenFresh(c) PROVE Late
  BY <1>1 DEF OpenFresh, At, Goes, Ends, TimeLeft, lookups
<1>2. ASSUME NEW c \in Calls, EvictDead(c) PROVE Late
  BY <1>2 DEF EvictDead, At, Goes, Ends, TimeLeft, lookups
<1>3. ASSUME NEW c \in Calls, Reuse(c) PROVE Late
  BY <1>3 DEF Reuse, At, Goes, Ends, TimeLeft, lookups
<1>4. ASSUME NEW c \in Calls, ReadAnswer(c) PROVE Late
  BY <1>4 DEF ReadAnswer, At, Goes, Raises, Ends
<1>5. ASSUME NEW c \in Calls, NoneLeft(c) PROVE Late
  BY <1>5 DEF NoneLeft, At, Goes, Raises, Ends, lookups
<1>6. ASSUME NEW c \in Calls, StartOp(c) PROVE Late
  BY <1>6 DEF StartOp, Goes, NotBlocked, SecondsLeft, GivenWhatIsLeft, Raises,
     Ends, lookups
<1>7. ASSUME NEW c \in Calls, OpTimesOut(c) PROVE Late
  BY <1>7 DEF OpTimesOut, Goes, Expired, Raises, Ends, lookups
<1>8. ASSUME NEW c \in Calls, Reconnect(c) PROVE Late
  BY <1>8 DEF Reconnect, At, Goes, NotBlocked, TimeLeft, Ends, lookups
<1>9. ASSUME NEW c \in Calls,
             Begin(c) \/ ResolveAddress(c) \/ LookUp(c) \/
             ResolverEnds(c) \/ JoinEnds(c) \/ TryAddress(c) \/
             NoSocket(c) \/ Connected(c) \/ AttemptFails(c) \/
             HandshakeEnds(c) \/ SendTakes(c) \/ RecvBrings(c) \/
             Answered(c) \/ OpBreaks(c)
      PROVE  Late
  <2>1. \A d \in Calls : outcome'[d] \in {outcome[d], "answer", "error"}
    BY <1>9 DEF Begin, ResolveAddress, LookUp, ResolverEnds, JoinEnds,
       TryAddress, NoSocket, Connected, AttemptFails, HandshakeEnds,
       SendTakes, RecvBrings, Answered, OpBreaks, At, Goes, lookups,
       SecondsLeft, GivenWhatIsLeft, Expired, Raises, Ends, NotBlocked
  <2> QED
    BY <2>1
<1>10. CASE Tick \/ Terminating \/ UNCHANGED vars
  BY <1>10 DEF Tick, Terminating, vars, lookups
<1> QED
  BY <1>1, <1>2, <1>3, <1>4, <1>5, <1>6, <1>7, <1>8, <1>9, <1>10 DEF Next

-----------------------------------------------------------------------------
(* IndInv is an invariant.                                                 *)
LEMMA Invariant == Spec => []IndInv
<1>1. ASSUME IndInv, [Next]_vars
      PROVE  IndInv'
  <2>1. Held'
    BY <1>1, HeldStep
  <2>2. OwnDeadline'
    BY <1>1, <2>1, OwnDeadlineStep
  <2>3. LateIsLate'
    BY <1>1, LateIsLateStep
  <2>4. SocketsCounted' /\ sockets' \in Nat
    BY <1>1, SocketsStep
  <2>5. FlagsOK'
    BY <1>1, FlagsStep DEF IndInv, TypeOK
  <2>6. TypeOK'
    BY <1>1, <2>4, <2>5, TypeStep
  <2> QED
    BY <2>1, <2>2, <2>3, <2>4, <2>6 DEF IndInv
<1> QED
  BY <1>1, InitIndInv, PTL DEF Spec

(* Every variable keeps its type: see TypeOK.                              *)
THEOREM DeadlineTyped == Spec => []TypeOK
<1>1. IndInv => TypeOK
  BY DEF IndInv
<1> QED
  BY <1>1, Invariant, PTL

(* No failed attempt, evicted connection or raised exception leaves a      *)
(* socket open behind a call.                                              *)
THEOREM NoSocketIsLeft == Spec => []SocketsAreClosed
<1>1. IndInv => SocketsAreClosed
  BY DEF IndInv, SocketsCounted
<1> QED
  BY <1>1, Invariant, PTL

(* Every operation is held to the deadline of the call that makes it, and  *)
(* none begins after it.                                                   *)
THEOREM OwnDeadlineHolds == Spec => GivenWhatIsLeftOfItsOwn
<1>1. ASSUME IndInv, [Next]_vars
      PROVE  [timer' \notin {timer, NoTimer} =>
                 lock' # NoCall /\ timer' = due[lock'] /\ now < timer']_vars
  <2>1. Held'
    BY <1>1, HeldStep
  <2> QED
    BY <1>1, <2>1, GivenStep
<1> QED
  BY <1>1, Invariant, PTL DEF Spec, GivenWhatIsLeftOfItsOwn

(* A call that times out has used all of its own time.                     *)
THEOREM NoTimeoutIsEarly == Spec => TimesOutOnlyLate
<1>1. ASSUME IndInv, [Next]_vars
      PROVE  [\A c \in Calls :
                 outcome[c] = "none" /\ outcome'[c] = "timeout" =>
                     now >= due[c]]_vars
  BY <1>1, LateStep
<1> QED
  BY <1>1, Invariant, PTL DEF Spec, TimesOutOnlyLate
=============================================================================
