---------------------------- MODULE DaemonProofs ----------------------------
(***************************************************************************)
(* Proofs that the safety properties of Daemon hold for every set of       *)
(* connection threads.  IInv is the inductive invariant; its conjuncts are *)
(* preserved one by one (the ...Step lemmas), each under all of IInv and   *)
(* the types of the next state.  Each lemma has one step per action.  At   *)
(* the end, that Daemon implements Supervisor.                             *)
(***************************************************************************)
EXTENDS Daemon, TLAPS

USE DEF mainVars, mailbox, unix, http

(* What requests and the user ask for are values of signal_t and signals   *)
(* that have a handler.                                                    *)
LEMMA Environment == PageValues \subseteq signal_t /\ SentSigs \subseteq Sigs
  BY ValuesAssumption, SentAssumption DEF signal_t, Sigs

(* No step, of any thread, leaves the types. *)
LEMMA TypeStep == TypeOK /\ [Next]_vars => TypeOK'
<1> SUFFICES ASSUME TypeOK, [Next]_vars PROVE TypeOK'
  OBVIOUS
<1> USE DEF TypeOK, MainPcs, ConnPcs, Sigs, Handles, signal_t, Lock, Unlock,
            Main, Handling, Die, Publish
<1>1. CASE Construct
  BY <1>1 DEF Construct, ClearMailbox, Armed
<1>2. CASE ListThrows
  BY <1>2 DEF ListThrows
<1>3. CASE ListOneshot
  BY <1>3 DEF ListOneshot
<1>4. CASE Insufficient
  BY <1>4 DEF Insufficient, Disarm, Disarmed
<1>5. CASE Listed
  BY <1>5 DEF Listed
<1>6. CASE StartV4
  BY <1>6 DEF StartV4
<1>7. CASE StartV4Fails
  BY <1>7 DEF StartV4Fails
<1>8. CASE StartV6
  BY <1>8 DEF StartV6
<1>9. CASE StartV6Fails
  BY <1>9 DEF StartV6Fails
<1>10. CASE WaitLock
  BY <1>10 DEF WaitLock
<1>11. CASE CondWait
  BY <1>11 DEF CondWait
<1>12. CASE SpuriousWakeup
  BY <1>12 DEF SpuriousWakeup
<1>13. CASE Reacquire
  BY <1>13 DEF Reacquire
<1>14. CASE ReadValue
  BY <1>14 DEF ReadValue
<1>15. CASE StopV6
  BY <1>15 DEF StopV6
<1>16. CASE JoinV6
  BY <1>16 DEF JoinV6
<1>17. CASE StopV4
  BY <1>17 DEF StopV4
<1>18. CASE JoinV4
  BY <1>18 DEF JoinV4
<1>19. CASE Decide
  BY <1>19 DEF Decide, Quits
<1>20. CASE Destroy
  BY <1>20 DEF Destroy, Disarm, Disarmed
<1>21. ASSUME NEW c \in Conn, Answer(c) PROVE TypeOK'
  BY <1>21 DEF Answer
<1>21a. ASSUME NEW c \in Conn, InputTaken(c) PROVE TypeOK'
  BY <1>21a DEF InputTaken
<1>21b. ASSUME NEW c \in Conn, InputComes(c) PROVE TypeOK'
  BY <1>21b DEF InputComes
<1>22. ASSUME NEW c \in Conn, Abort(c) PROVE TypeOK'
  BY <1>22 DEF Abort
<1>23. ASSUME NEW c \in Conn, SignalLock(c) PROVE TypeOK'
  BY <1>23 DEF SignalLock
<1>24. ASSUME NEW c \in Conn, SignalPublish(c) PROVE TypeOK'
  BY <1>24 DEF SignalPublish
<1>25. ASSUME NEW c \in Conn, Reply(c) PROVE TypeOK'
  BY <1>25 DEF Reply
<1>26. ASSUME NEW c \in Conn, StaleCrash(c) PROVE TypeOK'
  BY <1>26 DEF StaleCrash
<1>27. ASSUME NEW c \in Conn, StaleEnd(c) PROVE TypeOK'
  BY <1>27 DEF StaleEnd
<1>28. ASSUME NEW c \in Conn, NEW v \in signal_t, CallSignal(c, v) PROVE TypeOK'
  BY <1>28 DEF CallSignal
<1>29. ASSUME NEW c \in Conn, NEW d \in Handles, Accept(c, d) PROVE TypeOK'
  BY <1>29 DEF Accept
<1>30. ASSUME NEW s \in Sigs, Kill(s) PROVE TypeOK'
  BY <1>30 DEF Kill
<1>31. ASSUME NEW s \in Sigs, Catch(s) PROVE TypeOK'
  BY <1>31 DEF Catch
<1>32. ASSUME NEW s \in Sigs, HandlerLock(s) PROVE TypeOK'
  BY <1>32 DEF HandlerLock
<1>33. ASSUME NEW s \in Sigs, HandlerPublish(s) PROVE TypeOK'
  <2>1. SigValue(s) \in signal_t
    BY DEF SigValue
  <2>2. running' \in Sigs \cup {"none"}
    BY <1>33 DEF HandlerPublish, Below
  <2> QED
    BY <1>33, <2>1, <2>2 DEF HandlerPublish
<1>34. CASE UNCHANGED vars
  BY <1>34 DEF vars
<1> QED
  BY <1>1, <1>2, <1>3, <1>4, <1>5, <1>6, <1>7, <1>8, <1>9, <1>10, <1>11,
     <1>12, <1>13, <1>14, <1>15, <1>16, <1>17, <1>18, <1>19, <1>20, <1>21,
     <1>21a, <1>21b, <1>22, <1>23, <1>24, <1>25, <1>26, <1>27, <1>28, <1>29, <1>30, <1>31,
     <1>32, <1>33, <1>34, Environment DEF Next, MainStep, ConnStep, ConnMay

(* Everything has its type, whatever the threads and the signals do. *)
THEOREM TypeCorrect == Spec => []TypeOK
<1>1. Init => TypeOK
  BY DEF Init, TypeOK, MainPcs, ConnPcs, Sigs, Handles, Disarmed, signal_t
<1> QED
  BY <1>1, TypeStep, PTL DEF Spec

(* The MHD daemons are in the state main's position says, and a daemon is   *)
(* marked down only after its connection threads were joined.              *)
LEMMA LifecycleStep == IInv /\ [Next]_vars => Lifecycle'
<1> SUFFICES ASSUME IInv, [Next]_vars PROVE Lifecycle'
  OBVIOUS
<1>0. TypeOK'
  BY TypeStep DEF IInv
<1> USE <1>0 DEF IInv, TypeOK, Main, Handling, Die, Publish, Lock, Unlock,
     Process, Sigs, Handles, signal_t, Lifecycle, Up, Stale
<1>1. CASE Construct
  BY <1>1 DEF Construct, ClearMailbox, Armed
<1>2. CASE ListThrows
  BY <1>2 DEF ListThrows
<1>3. CASE ListOneshot
  BY <1>3 DEF ListOneshot
<1>4. CASE Insufficient
  BY <1>4 DEF Insufficient, Disarm, Disarmed
<1>5. CASE Listed
  BY <1>5 DEF Listed
<1>6. CASE StartV4
  BY <1>6 DEF StartV4
<1>7. CASE StartV4Fails
  BY <1>7 DEF StartV4Fails
<1>8. CASE StartV6
  BY <1>8 DEF StartV6
<1>9. CASE StartV6Fails
  BY <1>9 DEF StartV6Fails
<1>10. CASE WaitLock
  BY <1>10 DEF WaitLock
<1>11. CASE CondWait
  BY <1>11 DEF CondWait
<1>12. CASE SpuriousWakeup
  BY <1>12 DEF SpuriousWakeup
<1>13. CASE Reacquire
  BY <1>13 DEF Reacquire
<1>14. CASE ReadValue
  BY <1>14 DEF ReadValue
<1>15. CASE StopV6
  BY <1>15 DEF StopV6
<1>16. CASE JoinV6
  BY <1>16 DEF JoinV6, Joined
<1>17. CASE StopV4
  BY <1>17 DEF StopV4
<1>18. CASE JoinV4
  BY <1>18 DEF JoinV4, Joined
<1>19. CASE Decide
  BY <1>19 DEF Decide, Quits, Fatal
<1>20. CASE Destroy
  BY <1>20 DEF Destroy, Disarm, Disarmed
<1>21. ASSUME NEW c \in Conn, Answer(c) PROVE Lifecycle'
  BY <1>21 DEF Answer
<1>21a. ASSUME NEW c \in Conn, InputTaken(c) PROVE Lifecycle'
  BY <1>21a DEF InputTaken
<1>21b. ASSUME NEW c \in Conn, InputComes(c) PROVE Lifecycle'
  BY <1>21b DEF InputComes
<1>22. ASSUME NEW c \in Conn, Abort(c) PROVE Lifecycle'
  BY <1>22 DEF Abort
<1>23. ASSUME NEW c \in Conn, SignalLock(c) PROVE Lifecycle'
  BY <1>23 DEF SignalLock
<1>24. ASSUME NEW c \in Conn, SignalPublish(c) PROVE Lifecycle'
  BY <1>24 DEF SignalPublish
<1>25. ASSUME NEW c \in Conn, Reply(c) PROVE Lifecycle'
  BY <1>25 DEF Reply
<1>26. ASSUME NEW c \in Conn, StaleCrash(c) PROVE Lifecycle'
  BY <1>26 DEF StaleCrash
<1>27. ASSUME NEW c \in Conn, StaleEnd(c) PROVE Lifecycle'
  BY <1>27 DEF StaleEnd
<1>28. ASSUME NEW c \in Conn, NEW v \in signal_t, CallSignal(c, v) PROVE Lifecycle'
  BY <1>28 DEF CallSignal
<1>29. ASSUME NEW c \in Conn, NEW d \in Handles, Accept(c, d) PROVE Lifecycle'
  BY <1>29 DEF Accept
<1>30. ASSUME NEW s \in Sigs, Kill(s) PROVE Lifecycle'
  BY <1>30 DEF Kill
<1>31. ASSUME NEW s \in Sigs, Catch(s) PROVE Lifecycle'
  BY <1>31 DEF Catch
<1>32. ASSUME NEW s \in Sigs, HandlerLock(s) PROVE Lifecycle'
  BY <1>32 DEF HandlerLock
<1>33. ASSUME NEW s \in Sigs, HandlerPublish(s) PROVE Lifecycle'
  BY <1>33 DEF HandlerPublish, SigValue, Below
<1>34. CASE UNCHANGED vars
  BY <1>34 DEF vars
<1> QED
  BY <1>1, <1>2, <1>3, <1>4, <1>5, <1>6, <1>7, <1>8, <1>9, <1>10, <1>11,
     <1>12, <1>13, <1>14, <1>15, <1>16, <1>17, <1>18, <1>19, <1>20, <1>21,
     <1>21a, <1>21b, <1>22, <1>23, <1>24, <1>25, <1>26, <1>27, <1>28, <1>29, <1>30, <1>31,
     <1>32, <1>33, <1>34, Environment DEF Next, MainStep, ConnStep, ConnMay

(* The signal handlers nest, and none is installed or runs without the     *)
(* Interfaces object: ~Interfaces restores SIG_DFL, and main reaches it    *)
(* only when no handler is on top of it.                                   *)
LEMMA HandlersStep == IInv /\ [Next]_vars => (HandlerStack /\ HandlersHaveInterfaces)'
<1> SUFFICES ASSUME IInv, [Next]_vars PROVE (HandlerStack /\ HandlersHaveInterfaces)'
  OBVIOUS
<1>0. TypeOK'
  BY TypeStep DEF IInv
<1> USE <1>0 DEF IInv, TypeOK, Main, Handling, Die, Publish, Lock, Unlock,
     Process, Sigs, Handles, signal_t, Lifecycle, HandlerStack,
     HandlersHaveInterfaces
<1>1. CASE Construct
  BY <1>1 DEF Construct, ClearMailbox, Armed
<1>2. CASE ListThrows
  BY <1>2 DEF ListThrows
<1>3. CASE ListOneshot
  BY <1>3 DEF ListOneshot
<1>4. CASE Insufficient
  BY <1>4 DEF Insufficient, Disarm, Disarmed
<1>5. CASE Listed
  BY <1>5 DEF Listed
<1>6. CASE StartV4
  BY <1>6 DEF StartV4
<1>7. CASE StartV4Fails
  BY <1>7 DEF StartV4Fails
<1>8. CASE StartV6
  BY <1>8 DEF StartV6
<1>9. CASE StartV6Fails
  BY <1>9 DEF StartV6Fails
<1>10. CASE WaitLock
  BY <1>10 DEF WaitLock
<1>11. CASE CondWait
  BY <1>11 DEF CondWait
<1>12. CASE SpuriousWakeup
  BY <1>12 DEF SpuriousWakeup
<1>13. CASE Reacquire
  BY <1>13 DEF Reacquire
<1>14. CASE ReadValue
  BY <1>14 DEF ReadValue
<1>15. CASE StopV6
  BY <1>15 DEF StopV6
<1>16. CASE JoinV6
  BY <1>16 DEF JoinV6, Joined
<1>17. CASE StopV4
  BY <1>17 DEF StopV4
<1>18. CASE JoinV4
  BY <1>18 DEF JoinV4, Joined
<1>19. CASE Decide
  BY <1>19 DEF Decide, Quits, Fatal
<1>20. CASE Destroy
  BY <1>20 DEF Destroy, Disarm, Disarmed
<1>21. ASSUME NEW c \in Conn, Answer(c) PROVE (HandlerStack /\ HandlersHaveInterfaces)'
  BY <1>21 DEF Answer
<1>21a. ASSUME NEW c \in Conn, InputTaken(c) PROVE (HandlerStack /\ HandlersHaveInterfaces)'
  BY <1>21a DEF InputTaken
<1>21b. ASSUME NEW c \in Conn, InputComes(c) PROVE (HandlerStack /\ HandlersHaveInterfaces)'
  BY <1>21b DEF InputComes
<1>22. ASSUME NEW c \in Conn, Abort(c) PROVE (HandlerStack /\ HandlersHaveInterfaces)'
  BY <1>22 DEF Abort
<1>23. ASSUME NEW c \in Conn, SignalLock(c) PROVE (HandlerStack /\ HandlersHaveInterfaces)'
  BY <1>23 DEF SignalLock
<1>24. ASSUME NEW c \in Conn, SignalPublish(c) PROVE (HandlerStack /\ HandlersHaveInterfaces)'
  BY <1>24 DEF SignalPublish
<1>25. ASSUME NEW c \in Conn, Reply(c) PROVE (HandlerStack /\ HandlersHaveInterfaces)'
  BY <1>25 DEF Reply
<1>26. ASSUME NEW c \in Conn, StaleCrash(c) PROVE (HandlerStack /\ HandlersHaveInterfaces)'
  BY <1>26 DEF StaleCrash
<1>27. ASSUME NEW c \in Conn, StaleEnd(c) PROVE (HandlerStack /\ HandlersHaveInterfaces)'
  BY <1>27 DEF StaleEnd
<1>28. ASSUME NEW c \in Conn, NEW v \in signal_t, CallSignal(c, v) PROVE (HandlerStack /\ HandlersHaveInterfaces)'
  BY <1>28 DEF CallSignal
<1>29. ASSUME NEW c \in Conn, NEW d \in Handles, Accept(c, d) PROVE (HandlerStack /\ HandlersHaveInterfaces)'
  BY <1>29 DEF Accept
<1>30. ASSUME NEW s \in Sigs, Kill(s) PROVE (HandlerStack /\ HandlersHaveInterfaces)'
  BY <1>30 DEF Kill
<1>31. ASSUME NEW s \in Sigs, Catch(s) PROVE (HandlerStack /\ HandlersHaveInterfaces)'
  BY <1>31 DEF Catch
<1>32. ASSUME NEW s \in Sigs, HandlerLock(s) PROVE (HandlerStack /\ HandlersHaveInterfaces)'
  BY <1>32 DEF HandlerLock
<1>33. ASSUME NEW s \in Sigs, HandlerPublish(s) PROVE (HandlerStack /\ HandlersHaveInterfaces)'
  BY <1>33 DEF HandlerPublish, SigValue, Below
<1>34. CASE UNCHANGED vars
  BY <1>34 DEF vars
<1> QED
  BY <1>1, <1>2, <1>3, <1>4, <1>5, <1>6, <1>7, <1>8, <1>9, <1>10, <1>11,
     <1>12, <1>13, <1>14, <1>15, <1>16, <1>17, <1>18, <1>19, <1>20, <1>21,
     <1>21a, <1>21b, <1>22, <1>23, <1>24, <1>25, <1>26, <1>27, <1>28, <1>29, <1>30, <1>31,
     <1>32, <1>33, <1>34, Environment DEF Next, MainStep, ConnStep, ConnMay

(* signal_mutex is held by the one thread between lock and unlock.         *)
LEMMA MutexStep == IInv /\ [Next]_vars => MutexSound'
<1> SUFFICES ASSUME IInv, [Next]_vars PROVE MutexSound'
  OBVIOUS
<1>0. TypeOK'
  BY TypeStep DEF IInv
<1> USE <1>0, ConnAssumption DEF IInv, TypeOK, Main, Handling, Die, Publish,
     Lock, Unlock, Process, Sigs, Handles, signal_t, Lifecycle, Stale, Up,
     HandlerStack, MutexSound, InWait, InHandler
<1>1. CASE Construct
  BY <1>1 DEF Construct, ClearMailbox, Armed
<1>2. CASE ListThrows
  BY <1>2 DEF ListThrows
<1>3. CASE ListOneshot
  BY <1>3 DEF ListOneshot
<1>4. CASE Insufficient
  BY <1>4 DEF Insufficient, Disarm, Disarmed
<1>5. CASE Listed
  BY <1>5 DEF Listed
<1>6. CASE StartV4
  BY <1>6 DEF StartV4
<1>7. CASE StartV4Fails
  BY <1>7 DEF StartV4Fails
<1>8. CASE StartV6
  BY <1>8 DEF StartV6
<1>9. CASE StartV6Fails
  BY <1>9 DEF StartV6Fails
<1>10. CASE WaitLock
  BY <1>10 DEF WaitLock
<1>11. CASE CondWait
  BY <1>11 DEF CondWait
<1>12. CASE SpuriousWakeup
  BY <1>12 DEF SpuriousWakeup
<1>13. CASE Reacquire
  BY <1>13 DEF Reacquire
<1>14. CASE ReadValue
  BY <1>14 DEF ReadValue
<1>15. CASE StopV6
  BY <1>15 DEF StopV6
<1>16. CASE JoinV6
  BY <1>16 DEF JoinV6, Joined
<1>17. CASE StopV4
  BY <1>17 DEF StopV4
<1>18. CASE JoinV4
  BY <1>18 DEF JoinV4, Joined
<1>19. CASE Decide
  BY <1>19 DEF Decide, Quits, Fatal
<1>20. CASE Destroy
  BY <1>20 DEF Destroy, Disarm, Disarmed
<1>21. ASSUME NEW c \in Conn, Answer(c) PROVE MutexSound'
  BY <1>21 DEF Answer
<1>21a. ASSUME NEW c \in Conn, InputTaken(c) PROVE MutexSound'
  BY <1>21a DEF InputTaken
<1>21b. ASSUME NEW c \in Conn, InputComes(c) PROVE MutexSound'
  BY <1>21b DEF InputComes
<1>22. ASSUME NEW c \in Conn, Abort(c) PROVE MutexSound'
  BY <1>22 DEF Abort
<1>23. ASSUME NEW c \in Conn, SignalLock(c) PROVE MutexSound'
  BY <1>23 DEF SignalLock
<1>24. ASSUME NEW c \in Conn, SignalPublish(c) PROVE MutexSound'
  BY <1>24 DEF SignalPublish
<1>25. ASSUME NEW c \in Conn, Reply(c) PROVE MutexSound'
  BY <1>25 DEF Reply
<1>26. ASSUME NEW c \in Conn, StaleCrash(c) PROVE MutexSound'
  BY <1>26 DEF StaleCrash
<1>27. ASSUME NEW c \in Conn, StaleEnd(c) PROVE MutexSound'
  BY <1>27 DEF StaleEnd
<1>28. ASSUME NEW c \in Conn, NEW v \in signal_t, CallSignal(c, v) PROVE MutexSound'
  BY <1>28 DEF CallSignal
<1>29. ASSUME NEW c \in Conn, NEW d \in Handles, Accept(c, d) PROVE MutexSound'
  BY <1>29 DEF Accept
<1>30. ASSUME NEW s \in Sigs, Kill(s) PROVE MutexSound'
  BY <1>30 DEF Kill
<1>31. ASSUME NEW s \in Sigs, Catch(s) PROVE MutexSound'
  BY <1>31 DEF Catch
<1>32. ASSUME NEW s \in Sigs, HandlerLock(s) PROVE MutexSound'
  BY <1>32 DEF HandlerLock
<1>33. ASSUME NEW s \in Sigs, HandlerPublish(s) PROVE MutexSound'
  BY <1>33 DEF HandlerPublish, SigValue, Below
<1>34. CASE UNCHANGED vars
  BY <1>34 DEF vars
<1> QED
  BY <1>1, <1>2, <1>3, <1>4, <1>5, <1>6, <1>7, <1>8, <1>9, <1>10, <1>11,
     <1>12, <1>13, <1>14, <1>15, <1>16, <1>17, <1>18, <1>19, <1>20, <1>21,
     <1>21a, <1>21b, <1>22, <1>23, <1>24, <1>25, <1>26, <1>27, <1>28, <1>29, <1>30, <1>31,
     <1>32, <1>33, <1>34, Environment DEF Next, MainStep, ConnStep, ConnMay

(* No request outlives the Interfaces object, by the joins in Lifecycle.   *)
LEMMA RequestsStep == IInv /\ [Next]_vars => RequestsHaveInterfaces'
<1> SUFFICES ASSUME IInv, [Next]_vars PROVE RequestsHaveInterfaces'
  OBVIOUS
<1>0. TypeOK'
  BY TypeStep DEF IInv
<1> USE <1>0 DEF IInv, TypeOK, Main, Handling, Die, Publish, Lock, Unlock,
     Process, Sigs, Handles, signal_t, Lifecycle, Up, Stale,
     RequestsHaveInterfaces
<1>1. CASE Construct
  BY <1>1 DEF Construct, ClearMailbox, Armed
<1>2. CASE ListThrows
  BY <1>2 DEF ListThrows
<1>3. CASE ListOneshot
  BY <1>3 DEF ListOneshot
<1>4. CASE Insufficient
  BY <1>4 DEF Insufficient, Disarm, Disarmed
<1>5. CASE Listed
  BY <1>5 DEF Listed
<1>6. CASE StartV4
  BY <1>6 DEF StartV4
<1>7. CASE StartV4Fails
  BY <1>7 DEF StartV4Fails
<1>8. CASE StartV6
  BY <1>8 DEF StartV6
<1>9. CASE StartV6Fails
  BY <1>9 DEF StartV6Fails
<1>10. CASE WaitLock
  BY <1>10 DEF WaitLock
<1>11. CASE CondWait
  BY <1>11 DEF CondWait
<1>12. CASE SpuriousWakeup
  BY <1>12 DEF SpuriousWakeup
<1>13. CASE Reacquire
  BY <1>13 DEF Reacquire
<1>14. CASE ReadValue
  BY <1>14 DEF ReadValue
<1>15. CASE StopV6
  BY <1>15 DEF StopV6
<1>16. CASE JoinV6
  BY <1>16 DEF JoinV6, Joined
<1>17. CASE StopV4
  BY <1>17 DEF StopV4
<1>18. CASE JoinV4
  BY <1>18 DEF JoinV4, Joined
<1>19. CASE Decide
  BY <1>19 DEF Decide, Quits, Fatal
<1>20. CASE Destroy
  BY <1>20 DEF Destroy, Disarm, Disarmed
<1>21. ASSUME NEW c \in Conn, Answer(c) PROVE RequestsHaveInterfaces'
  BY <1>21 DEF Answer
<1>21a. ASSUME NEW c \in Conn, InputTaken(c) PROVE RequestsHaveInterfaces'
  BY <1>21a DEF InputTaken
<1>21b. ASSUME NEW c \in Conn, InputComes(c) PROVE RequestsHaveInterfaces'
  BY <1>21b DEF InputComes
<1>22. ASSUME NEW c \in Conn, Abort(c) PROVE RequestsHaveInterfaces'
  BY <1>22 DEF Abort
<1>23. ASSUME NEW c \in Conn, SignalLock(c) PROVE RequestsHaveInterfaces'
  BY <1>23 DEF SignalLock
<1>24. ASSUME NEW c \in Conn, SignalPublish(c) PROVE RequestsHaveInterfaces'
  BY <1>24 DEF SignalPublish
<1>25. ASSUME NEW c \in Conn, Reply(c) PROVE RequestsHaveInterfaces'
  BY <1>25 DEF Reply
<1>26. ASSUME NEW c \in Conn, StaleCrash(c) PROVE RequestsHaveInterfaces'
  BY <1>26 DEF StaleCrash
<1>27. ASSUME NEW c \in Conn, StaleEnd(c) PROVE RequestsHaveInterfaces'
  BY <1>27 DEF StaleEnd
<1>28. ASSUME NEW c \in Conn, NEW v \in signal_t, CallSignal(c, v) PROVE RequestsHaveInterfaces'
  BY <1>28 DEF CallSignal
<1>29. ASSUME NEW c \in Conn, NEW d \in Handles, Accept(c, d) PROVE RequestsHaveInterfaces'
  BY <1>29 DEF Accept
<1>30. ASSUME NEW s \in Sigs, Kill(s) PROVE RequestsHaveInterfaces'
  BY <1>30 DEF Kill
<1>31. ASSUME NEW s \in Sigs, Catch(s) PROVE RequestsHaveInterfaces'
  BY <1>31 DEF Catch
<1>32. ASSUME NEW s \in Sigs, HandlerLock(s) PROVE RequestsHaveInterfaces'
  BY <1>32 DEF HandlerLock
<1>33. ASSUME NEW s \in Sigs, HandlerPublish(s) PROVE RequestsHaveInterfaces'
  BY <1>33 DEF HandlerPublish, SigValue, Below
<1>34. CASE UNCHANGED vars
  BY <1>34 DEF vars
<1> QED
  BY <1>1, <1>2, <1>3, <1>4, <1>5, <1>6, <1>7, <1>8, <1>9, <1>10, <1>11,
     <1>12, <1>13, <1>14, <1>15, <1>16, <1>17, <1>18, <1>19, <1>20, <1>21,
     <1>21a, <1>21b, <1>22, <1>23, <1>24, <1>25, <1>26, <1>27, <1>28, <1>29, <1>30, <1>31,
     <1>32, <1>33, <1>34, Environment DEF Next, MainStep, ConnStep, ConnMay

(* What main read, and what it quits for, was published in this generation. *)
LEMMA DecisionStep == IInv /\ [Next]_vars => (MailboxFresh /\ DecisionWasAsked /\ QuitWasAsked)'
<1> SUFFICES ASSUME IInv, [Next]_vars PROVE (MailboxFresh /\ DecisionWasAsked /\ QuitWasAsked)'
  OBVIOUS
<1>0. TypeOK'
  BY TypeStep DEF IInv
<1> USE <1>0 DEF IInv, TypeOK, Main, Handling, Die, Publish, Lock, Unlock,
     Process, Sigs, Handles, signal_t, Lifecycle, MailboxFresh,
     DecisionWasAsked, QuitWasAsked, Fatal
<1>1. CASE Construct
  BY <1>1 DEF Construct, ClearMailbox, Armed
<1>2. CASE ListThrows
  BY <1>2 DEF ListThrows
<1>3. CASE ListOneshot
  BY <1>3 DEF ListOneshot
<1>4. CASE Insufficient
  BY <1>4 DEF Insufficient, Disarm, Disarmed
<1>5. CASE Listed
  BY <1>5 DEF Listed
<1>6. CASE StartV4
  BY <1>6 DEF StartV4
<1>7. CASE StartV4Fails
  BY <1>7 DEF StartV4Fails
<1>8. CASE StartV6
  BY <1>8 DEF StartV6
<1>9. CASE StartV6Fails
  BY <1>9 DEF StartV6Fails
<1>10. CASE WaitLock
  BY <1>10 DEF WaitLock
<1>11. CASE CondWait
  BY <1>11 DEF CondWait
<1>12. CASE SpuriousWakeup
  BY <1>12 DEF SpuriousWakeup
<1>13. CASE Reacquire
  BY <1>13 DEF Reacquire
<1>14. CASE ReadValue
  BY <1>14 DEF ReadValue
<1>15. CASE StopV6
  BY <1>15 DEF StopV6
<1>16. CASE JoinV6
  BY <1>16 DEF JoinV6, Joined
<1>17. CASE StopV4
  BY <1>17 DEF StopV4
<1>18. CASE JoinV4
  BY <1>18 DEF JoinV4, Joined
<1>19. CASE Decide
  BY <1>19 DEF Decide, Quits
<1>20. CASE Destroy
  BY <1>20 DEF Destroy, Disarm, Disarmed
<1>21. ASSUME NEW c \in Conn, Answer(c) PROVE (MailboxFresh /\ DecisionWasAsked /\ QuitWasAsked)'
  BY <1>21 DEF Answer
<1>21a. ASSUME NEW c \in Conn, InputTaken(c) PROVE (MailboxFresh /\ DecisionWasAsked /\ QuitWasAsked)'
  BY <1>21a DEF InputTaken
<1>21b. ASSUME NEW c \in Conn, InputComes(c) PROVE (MailboxFresh /\ DecisionWasAsked /\ QuitWasAsked)'
  BY <1>21b DEF InputComes
<1>22. ASSUME NEW c \in Conn, Abort(c) PROVE (MailboxFresh /\ DecisionWasAsked /\ QuitWasAsked)'
  BY <1>22 DEF Abort
<1>23. ASSUME NEW c \in Conn, SignalLock(c) PROVE (MailboxFresh /\ DecisionWasAsked /\ QuitWasAsked)'
  BY <1>23 DEF SignalLock
<1>24. ASSUME NEW c \in Conn, SignalPublish(c) PROVE (MailboxFresh /\ DecisionWasAsked /\ QuitWasAsked)'
  BY <1>24 DEF SignalPublish
<1>25. ASSUME NEW c \in Conn, Reply(c) PROVE (MailboxFresh /\ DecisionWasAsked /\ QuitWasAsked)'
  BY <1>25 DEF Reply
<1>26. ASSUME NEW c \in Conn, StaleCrash(c) PROVE (MailboxFresh /\ DecisionWasAsked /\ QuitWasAsked)'
  BY <1>26 DEF StaleCrash
<1>27. ASSUME NEW c \in Conn, StaleEnd(c) PROVE (MailboxFresh /\ DecisionWasAsked /\ QuitWasAsked)'
  BY <1>27 DEF StaleEnd
<1>28. ASSUME NEW c \in Conn, NEW v \in signal_t, CallSignal(c, v) PROVE (MailboxFresh /\ DecisionWasAsked /\ QuitWasAsked)'
  BY <1>28 DEF CallSignal
<1>29. ASSUME NEW c \in Conn, NEW d \in Handles, Accept(c, d) PROVE (MailboxFresh /\ DecisionWasAsked /\ QuitWasAsked)'
  BY <1>29 DEF Accept
<1>30. ASSUME NEW s \in Sigs, Kill(s) PROVE (MailboxFresh /\ DecisionWasAsked /\ QuitWasAsked)'
  BY <1>30 DEF Kill
<1>31. ASSUME NEW s \in Sigs, Catch(s) PROVE (MailboxFresh /\ DecisionWasAsked /\ QuitWasAsked)'
  BY <1>31 DEF Catch
<1>32. ASSUME NEW s \in Sigs, HandlerLock(s) PROVE (MailboxFresh /\ DecisionWasAsked /\ QuitWasAsked)'
  BY <1>32 DEF HandlerLock
<1>33. ASSUME NEW s \in Sigs, HandlerPublish(s) PROVE (MailboxFresh /\ DecisionWasAsked /\ QuitWasAsked)'
  BY <1>33 DEF HandlerPublish, SigValue, Below
<1>34. CASE UNCHANGED vars
  BY <1>34 DEF vars
<1> QED
  BY <1>1, <1>2, <1>3, <1>4, <1>5, <1>6, <1>7, <1>8, <1>9, <1>10, <1>11,
     <1>12, <1>13, <1>14, <1>15, <1>16, <1>17, <1>18, <1>19, <1>20, <1>21,
     <1>21a, <1>21b, <1>22, <1>23, <1>24, <1>25, <1>26, <1>27, <1>28, <1>29, <1>30, <1>31,
     <1>32, <1>33, <1>34, Environment DEF Next, MainStep, ConnStep, ConnMay

(* The first state, before the first Interfaces object, satisfies IInv. *)
LEMMA InitIInv == Init => IInv
<1> SUFFICES ASSUME Init PROVE IInv
  OBVIOUS
<1>1. TypeOK
  BY DEF Init, TypeOK, MainPcs, ConnPcs, Sigs, Handles, Disarmed, signal_t
<1>2. Lifecycle /\ RequestsHaveInterfaces
  BY <1>1 DEF Init, Lifecycle, RequestsHaveInterfaces, Up, Handles, Process
<1>3. HandlerStack /\ HandlersHaveInterfaces
  BY DEF Init, HandlerStack, HandlersHaveInterfaces, Disarmed, Sigs
<1>4. MutexSound
  BY ConnAssumption DEF Init, MutexSound, InWait, InHandler, Sigs, Process
<1>5. MailboxFresh /\ DecisionWasAsked /\ QuitWasAsked
  BY DEF Init, MailboxFresh, DecisionWasAsked, QuitWasAsked
<1> QED
  BY <1>1, <1>2, <1>3, <1>4, <1>5 DEF IInv

(* IInv is an invariant of the program. *)
THEOREM Invariant == Spec => []IInv
<1>1. IInv /\ [Next]_vars => IInv'
  BY TypeStep, LifecycleStep, HandlersStep, MutexStep, RequestsStep, DecisionStep
     DEF IInv
<1> QED
  BY InitIInv, <1>1, PTL DEF Spec

(* signal_mutex protects the mailbox: no two threads, and no handler and    *)
(* the code below it, are between its lock and unlock.                     *)
THEOREM MutexCorrect == Spec => []MutexSound
<1>1. IInv => MutexSound
  BY DEF IInv
<1> QED
  BY Invariant, <1>1, PTL

(* A request is never handled, and a signal handler never runs, on an      *)
(* Interfaces object that has been destroyed.                              *)
THEOREM NoUseAfterDestroy == Spec => []UsersHaveInterfaces
<1>1. IInv => UsersHaveInterfaces
  BY DEF IInv, UsersHaveInterfaces
<1> QED
  BY Invariant, <1>1, PTL

(* The process leaves its loop through a fatal_exception only in a         *)
(* generation that was asked to quit.                                      *)
THEOREM QuitsOnlyWhenAsked == Spec => []QuitWasAsked
<1>1. IInv => QuitWasAsked
  BY DEF IInv
<1> QED
  BY Invariant, <1>1, PTL

(* After the IPv4 daemon has leaked, main never reaches wait() again.      *)
THEOREM NoServiceAfterLeak == Spec => []LeakStopsService
<1>1. IInv => LeakStopsService
  BY DEF IInv, TypeOK, MainPcs, Lifecycle, LeakStopsService, Process, Up
<1> QED
  BY Invariant, <1>1, PTL

-----------------------------------------------------------------------------
(* The refinement: most steps of Daemon change nothing Supervisor sees;     *)
(* every other one is one step of Supervisor.                              *)

(* main has decided nothing before wait() returns, and what it decided to  *)
(* quit for it does quit for.                                              *)
WaitvalActedOn ==
    /\ pc \in {"construct", "list", "start4", "start6", "lock", "enter",
               "blocked", "woken", "read"} => waitval = "none"
    /\ pc = "destroy" /\ waitval \in Fatal => ending = "quit"

(* Only ReadValue, Decide and Destroy touch what WaitvalActedOn is about.  *)
LEMMA WaitvalStep == IInv /\ WaitvalActedOn /\ [Next]_vars => WaitvalActedOn'
<1> SUFFICES ASSUME IInv, WaitvalActedOn, [Next]_vars PROVE WaitvalActedOn'
  OBVIOUS
<1> USE DEF IInv, TypeOK, MainPcs, Main, Handling, Die, Publish, Lock, Unlock,
     Process, signal_t, WaitvalActedOn, Fatal
<1>1. CASE Construct
  BY <1>1 DEF Construct, ClearMailbox, Armed
<1>2. CASE ListThrows
  BY <1>2 DEF ListThrows
<1>3. CASE ListOneshot
  BY <1>3 DEF ListOneshot
<1>4. CASE Insufficient
  BY <1>4 DEF Insufficient, Disarm
<1>5. CASE Listed
  BY <1>5 DEF Listed
<1>6. CASE StartV4
  BY <1>6 DEF StartV4
<1>7. CASE StartV4Fails
  BY <1>7 DEF StartV4Fails
<1>8. CASE StartV6
  BY <1>8 DEF StartV6
<1>9. CASE StartV6Fails
  BY <1>9 DEF StartV6Fails
<1>10. CASE WaitLock
  BY <1>10 DEF WaitLock
<1>11. CASE CondWait
  BY <1>11 DEF CondWait
<1>12. CASE SpuriousWakeup
  BY <1>12 DEF SpuriousWakeup
<1>13. CASE Reacquire
  BY <1>13 DEF Reacquire
<1>14. CASE ReadValue
  BY <1>14 DEF ReadValue
<1>15. CASE StopV6
  BY <1>15 DEF StopV6
<1>16. CASE JoinV6
  BY <1>16 DEF JoinV6, Joined
<1>17. CASE StopV4
  BY <1>17 DEF StopV4
<1>18. CASE JoinV4
  BY <1>18 DEF JoinV4, Joined
<1>19. CASE Decide
  BY <1>19 DEF Decide, Quits
<1>20. CASE Destroy
  BY <1>20 DEF Destroy, Disarm
<1>21. ASSUME NEW c \in Conn, Answer(c) PROVE WaitvalActedOn'
  BY <1>21 DEF Answer
<1>21a. ASSUME NEW c \in Conn, InputTaken(c) PROVE WaitvalActedOn'
  BY <1>21a DEF InputTaken
<1>21b. ASSUME NEW c \in Conn, InputComes(c) PROVE WaitvalActedOn'
  BY <1>21b DEF InputComes
<1>22. ASSUME NEW c \in Conn, Abort(c) PROVE WaitvalActedOn'
  BY <1>22 DEF Abort
<1>23. ASSUME NEW c \in Conn, SignalLock(c) PROVE WaitvalActedOn'
  BY <1>23 DEF SignalLock
<1>24. ASSUME NEW c \in Conn, SignalPublish(c) PROVE WaitvalActedOn'
  BY <1>24 DEF SignalPublish
<1>25. ASSUME NEW c \in Conn, Reply(c) PROVE WaitvalActedOn'
  BY <1>25 DEF Reply
<1>26. ASSUME NEW c \in Conn, StaleCrash(c) PROVE WaitvalActedOn'
  BY <1>26 DEF StaleCrash
<1>27. ASSUME NEW c \in Conn, StaleEnd(c) PROVE WaitvalActedOn'
  BY <1>27 DEF StaleEnd
<1>28. ASSUME NEW c \in Conn, NEW v \in signal_t, CallSignal(c, v) PROVE WaitvalActedOn'
  BY <1>28 DEF CallSignal
<1>29. ASSUME NEW c \in Conn, NEW d \in Handles, Accept(c, d) PROVE WaitvalActedOn'
  BY <1>29 DEF Accept
<1>30. ASSUME NEW s \in Sigs, Kill(s) PROVE WaitvalActedOn'
  BY <1>30 DEF Kill
<1>31. ASSUME NEW s \in Sigs, Catch(s) PROVE WaitvalActedOn'
  BY <1>31 DEF Catch
<1>32. ASSUME NEW s \in Sigs, HandlerLock(s) PROVE WaitvalActedOn'
  BY <1>32 DEF HandlerLock
<1>33. ASSUME NEW s \in Sigs, HandlerPublish(s) PROVE WaitvalActedOn'
  BY <1>33 DEF HandlerPublish, SigValue, Below
<1>34. CASE UNCHANGED vars
  BY <1>34 DEF vars
<1> QED
  BY <1>1, <1>2, <1>3, <1>4, <1>5, <1>6, <1>7, <1>8, <1>9, <1>10, <1>11,
     <1>12, <1>13, <1>14, <1>15, <1>16, <1>17, <1>18, <1>19, <1>20, <1>21,
     <1>21a, <1>21b, <1>22, <1>23, <1>24, <1>25, <1>26, <1>27, <1>28, <1>29, <1>30, <1>31,
     <1>32, <1>33, <1>34, Environment DEF Next, MainStep, ConnStep, ConnMay

(* A daemon handle that is down, or has leaked, has no request that counts *)
(* as busy.                                                                *)
LEMMA NobodyBusy ==
    ASSUME IInv, pc \in {"construct", "list", "start4", "decide", "destroy"}
    PROVE  Busy = {}
  BY DEF IInv, TypeOK, Lifecycle, Process, Busy, Stale, Handles

(* Steps that keep every handle out of "leaked" and every request as it is *)
(* keep the busy ones.                                                     *)
LEMMA SameBusy ==
    ASSUME TypeOK,
           UNCHANGED via,
           \A c \in Conn : cpc[c] = "idle" <=> cpc'[c] = "idle",
           \A d \in Handles : daemon_handle[d] = "leaked" <=> daemon_handle'[d] = "leaked"
    PROVE  UNCHANGED Busy
  BY DEF TypeOK, Busy, Stale

(* Busy, phase and the rest are what Supervisor starts with. *)
LEMMA InitRefines == Init => S!Init
  BY DEF Init, S!Init, Phase, Busy, Stale

(* Every step of Daemon is a step of Supervisor or one it does not see. *)
LEMMA StepRefines == IInv /\ WaitvalActedOn /\ [Next]_vars => [S!Next]_(S!avars)
<1> SUFFICES ASSUME IInv, WaitvalActedOn, [Next]_vars PROVE S!Next \/ UNCHANGED S!avars
  OBVIOUS
<1> USE DEF IInv, TypeOK, MainPcs, Main, Handling, Die, Publish, Process, Up
<1>1. CASE Construct
  <2>1. UNCHANGED Busy
    BY <1>1, SameBusy DEF Construct, ClearMailbox, Armed
  <2>2. S!Begin
    BY <1>1, <2>1 DEF Construct, ClearMailbox, Armed, Phase, S!Begin
  <2> QED
    BY <2>2 DEF S!Next
<1>2. CASE ListThrows
  <2>1. Busy = {} /\ Busy' = {}
    BY <1>2, NobodyBusy, SameBusy DEF ListThrows
  <2>2. S!GiveUp
    BY <1>2, <2>1 DEF ListThrows, Phase, S!GiveUp
  <2> QED
    BY <2>2 DEF S!Next
<1>3. CASE ListOneshot
  <2>1. UNCHANGED Busy
    BY <1>3, SameBusy DEF ListOneshot
  <2>2. S!Done
    BY <1>3, <2>1 DEF ListOneshot, Phase, S!Done
  <2> QED
    BY <2>2 DEF S!Next
<1>4. CASE Insufficient
  <2>1. Busy = {} /\ Busy' = {}
    BY <1>4, NobodyBusy, SameBusy DEF Insufficient, Disarm
  <2>2. S!GiveUp
    BY <1>4, <2>1 DEF Insufficient, Disarm, Phase, S!GiveUp
  <2> QED
    BY <2>2 DEF S!Next
<1>5. CASE Listed
  <2>1. UNCHANGED Busy
    BY <1>5, SameBusy DEF Listed
  <2> QED
    BY <1>5, <2>1 DEF Listed, Phase, S!avars
<1>6. CASE StartV4
  <2>1. UNCHANGED Busy
    BY <1>6, SameBusy DEF StartV4, Lifecycle, Handles
  <2> QED
    BY <1>6, <2>1 DEF StartV4, Phase, S!avars
<1>7. CASE StartV4Fails
  <2>1. Busy = {} /\ Busy' = {}
    BY <1>7, NobodyBusy, SameBusy DEF StartV4Fails
  <2>2. S!GiveUp
    BY <1>7, <2>1 DEF StartV4Fails, Phase, S!GiveUp
  <2> QED
    BY <2>2 DEF S!Next
<1>8. CASE StartV6
  <2>1. UNCHANGED Busy
    BY <1>8, SameBusy DEF StartV6, Lifecycle, Handles
  <2>2. S!Serve
    BY <1>8, <2>1 DEF StartV6, Phase, S!Serve
  <2> QED
    BY <2>2 DEF S!Next
<1>9. CASE StartV6Fails
  <2>1. Busy' = {}
    BY <1>9 DEF StartV6Fails, Lifecycle, Busy, Stale, Handles
  <2>2. S!GiveUp
    BY <1>9, <2>1 DEF StartV6Fails, Phase, S!GiveUp
  <2> QED
    BY <2>2 DEF S!Next
<1>10. CASE WaitLock
  <2>1. UNCHANGED Busy
    BY <1>10, SameBusy DEF WaitLock
  <2> QED
    BY <1>10, <2>1 DEF WaitLock, Phase, S!avars
<1>11. CASE CondWait
  <2>1. UNCHANGED Busy
    BY <1>11, SameBusy DEF CondWait
  <2> QED
    BY <1>11, <2>1 DEF CondWait, Phase, S!avars
<1>12. CASE SpuriousWakeup
  <2>1. UNCHANGED Busy
    BY <1>12, SameBusy DEF SpuriousWakeup
  <2> QED
    BY <1>12, <2>1 DEF SpuriousWakeup, Phase, S!avars
<1>13. CASE Reacquire
  <2>1. UNCHANGED Busy
    BY <1>13, SameBusy DEF Reacquire
  <2> QED
    BY <1>13, <2>1 DEF Reacquire, Phase, S!avars
<1>14. CASE ReadValue
  <2>1. UNCHANGED Busy
    BY <1>14, SameBusy DEF ReadValue
  <2>2. S!Choose(signal_value)
    BY <1>14, <2>1 DEF ReadValue, Phase, MailboxFresh, S!Choose
  <2>3. signal_value \in signal_t \cup {"none"}
    OBVIOUS
  <2> QED
    BY <2>2, <2>3 DEF S!Next
<1>15. CASE StopV6
  <2>1. UNCHANGED Busy
    BY <1>15, SameBusy DEF StopV6, Lifecycle, Handles
  <2> QED
    BY <1>15, <2>1 DEF StopV6, Phase, S!avars
<1>16. CASE JoinV6
  <2>1. UNCHANGED Busy
    BY <1>16, SameBusy DEF JoinV6, Joined, Lifecycle, Handles
  <2> QED
    BY <1>16, <2>1 DEF JoinV6, Joined, Phase, S!avars
<1>17. CASE StopV4
  <2>1. UNCHANGED Busy
    BY <1>17, SameBusy DEF StopV4, Lifecycle, Handles
  <2> QED
    BY <1>17, <2>1 DEF StopV4, Phase, S!avars
<1>18. CASE JoinV4
  <2>1. UNCHANGED Busy
    BY <1>18, SameBusy DEF JoinV4, Joined, Lifecycle, Handles
  <2> QED
    BY <1>18, <2>1 DEF JoinV4, Joined, Phase, S!avars
<1>19. CASE Decide
  <2>1. Busy = {} /\ UNCHANGED Busy
    BY <1>19, NobodyBusy, SameBusy DEF Decide
  <2>2. ending = "none"
    BY <1>19 DEF Decide, Lifecycle
  <2>3. CASE waitval \in Fatal
    <3>1. S!Heed
      BY <1>19, <2>1, <2>3 DEF Decide, Quits, Phase, S!Heed
    <3> QED
      BY <3>1 DEF S!Next
  <2>4. CASE waitval \notin Fatal
    BY <1>19, <2>1, <2>2, <2>4 DEF Decide, Quits, Phase, S!avars
  <2> QED
    BY <2>3, <2>4
<1>20. CASE Destroy
  <2>1. Busy = {} /\ UNCHANGED Busy
    BY <1>20, NobodyBusy, SameBusy DEF Destroy
  <2>2. waitval \in Fatal => ending = "quit"
    BY <1>20 DEF Destroy, WaitvalActedOn
  <2>3. S!Over
    BY <1>20, <2>1, <2>2 DEF Destroy, Phase, S!Over
  <2> QED
    BY <2>3 DEF S!Next
<1>21. ASSUME NEW c \in Conn, Answer(c) PROVE S!Next \/ UNCHANGED S!avars
  <2>1. UNCHANGED Busy
    BY <1>21, SameBusy DEF Answer
  <2> QED
    BY <1>21, <2>1 DEF Answer, Phase, S!avars
<1>21a. ASSUME NEW c \in Conn, InputTaken(c) PROVE S!Next \/ UNCHANGED S!avars
  <2>1. UNCHANGED Busy
    BY <1>21a, SameBusy DEF InputTaken
  <2> QED
    BY <1>21a, <2>1 DEF InputTaken, Phase, S!avars
<1>21b. ASSUME NEW c \in Conn, InputComes(c) PROVE S!Next \/ UNCHANGED S!avars
  <2>1. UNCHANGED Busy
    BY <1>21b, SameBusy DEF InputComes
  <2> QED
    BY <1>21b, <2>1 DEF InputComes, Phase, S!avars
<1>22. ASSUME NEW c \in Conn, Abort(c) PROVE S!Next \/ UNCHANGED S!avars
  <2>1. UNCHANGED Busy
    BY <1>22, SameBusy DEF Abort
  <2>2. S!Die
    BY <1>22, <2>1 DEF Abort, Phase, S!Die
  <2> QED
    BY <2>2 DEF S!Next
<1>23. ASSUME NEW c \in Conn, SignalLock(c) PROVE S!Next \/ UNCHANGED S!avars
  <2>1. UNCHANGED Busy
    BY <1>23, SameBusy DEF SignalLock
  <2> QED
    BY <1>23, <2>1 DEF SignalLock, Phase, S!avars
<1>24. ASSUME NEW c \in Conn, SignalPublish(c) PROVE S!Next \/ UNCHANGED S!avars
  <2>1. UNCHANGED Busy
    BY <1>24, SameBusy DEF SignalPublish
  <2>2. pc \notin {"construct", "ended"}
    BY <1>24 DEF SignalPublish, RequestsHaveInterfaces, Lifecycle
  <2>3. S!Ask(val[c])
    BY <1>24, <2>1, <2>2 DEF SignalPublish, Phase, S!Ask, S!Alive
  <2>4. val[c] \in signal_t
    BY <1>24 DEF SignalPublish
  <2> QED
    BY <2>3, <2>4 DEF S!Next
<1>25. ASSUME NEW c \in Conn, Reply(c) PROVE S!Next \/ UNCHANGED S!avars
  <2>1. Busy' = Busy \ {c}
    BY <1>25 DEF Reply, Busy, Stale
  <2>2. S!Leave(c)
    BY <1>25, <2>1 DEF Reply, Phase, S!Leave
  <2> QED
    BY <2>2 DEF S!Next
<1>26. ASSUME NEW c \in Conn, StaleCrash(c) PROVE S!Next \/ UNCHANGED S!avars
  <2>1. UNCHANGED Busy
    BY <1>26, SameBusy DEF StaleCrash
  <2>2. S!Die
    BY <1>26, <2>1 DEF StaleCrash, Phase, S!Die
  <2> QED
    BY <2>2 DEF S!Next
<1>27. ASSUME NEW c \in Conn, StaleEnd(c) PROVE S!Next \/ UNCHANGED S!avars
  <2>1. UNCHANGED Busy
    BY <1>27 DEF StaleEnd, Busy, Stale
  <2> QED
    BY <1>27, <2>1 DEF StaleEnd, Phase, S!avars
<1>28. ASSUME NEW c \in Conn, NEW v \in signal_t, CallSignal(c, v) PROVE S!Next \/ UNCHANGED S!avars
  <2>1. UNCHANGED Busy
    BY <1>28, SameBusy DEF CallSignal
  <2> QED
    BY <1>28, <2>1 DEF CallSignal, Phase, S!avars
<1>29. ASSUME NEW c \in Conn, NEW d \in Handles, Accept(c, d) PROVE S!Next \/ UNCHANGED S!avars
  <2>1. CASE daemon_handle[d] = "up"
    <3>1. Busy' = Busy \cup {c}
      BY <1>29, <2>1 DEF Accept, Busy, Stale
    <3>2. pc \notin {"construct", "ended"}
      BY <1>29, <2>1 DEF Accept, Lifecycle, Handles
    <3>3. S!Enter(c)
      BY <1>29, <3>1, <3>2 DEF Accept, Phase, S!Enter
    <3> QED
      BY <3>3 DEF S!Next
  <2>2. CASE daemon_handle[d] = "leaked"
    <3>1. UNCHANGED Busy
      BY <1>29, <2>2 DEF Accept, Busy, Stale
    <3> QED
      BY <1>29, <3>1 DEF Accept, Phase, S!avars
  <2> QED
    BY <1>29, <2>1, <2>2 DEF Accept
<1>30. ASSUME NEW s \in Sigs, Kill(s) PROVE S!Next \/ UNCHANGED S!avars
  <2>1. UNCHANGED Busy
    BY <1>30, SameBusy DEF Kill
  <2>2. S!Die
    BY <1>30, <2>1 DEF Kill, Phase, S!Die
  <2> QED
    BY <2>2 DEF S!Next
<1>31. ASSUME NEW s \in Sigs, Catch(s) PROVE S!Next \/ UNCHANGED S!avars
  <2>1. UNCHANGED Busy
    BY <1>31, SameBusy DEF Catch
  <2> QED
    BY <1>31, <2>1 DEF Catch, Phase, S!avars
<1>32. ASSUME NEW s \in Sigs, HandlerLock(s) PROVE S!Next \/ UNCHANGED S!avars
  <2>1. UNCHANGED Busy
    BY <1>32, SameBusy DEF HandlerLock
  <2> QED
    BY <1>32, <2>1 DEF HandlerLock, Phase, S!avars
<1>33. ASSUME NEW s \in Sigs, HandlerPublish(s) PROVE S!Next \/ UNCHANGED S!avars
  <2>1. UNCHANGED Busy
    BY <1>33, SameBusy DEF HandlerPublish
  <2>2. pc \notin {"construct", "ended"}
    BY <1>33 DEF HandlerPublish, HandlersHaveInterfaces, Lifecycle
  <2>3. S!Ask(SigValue(s))
    BY <1>33, <2>1, <2>2 DEF HandlerPublish, Phase, S!Ask, S!Alive
  <2>4. SigValue(s) \in signal_t
    BY DEF SigValue, signal_t
  <2> QED
    BY <2>3, <2>4 DEF S!Next
<1>34. CASE UNCHANGED vars
  BY <1>34 DEF vars, Phase, Busy, Stale, S!avars
<1> QED
  BY <1>1, <1>2, <1>3, <1>4, <1>5, <1>6, <1>7, <1>8, <1>9, <1>10, <1>11,
     <1>12, <1>13, <1>14, <1>15, <1>16, <1>17, <1>18, <1>19, <1>20, <1>21,
     <1>21a, <1>21b, <1>22, <1>23, <1>24, <1>25, <1>26, <1>27, <1>28, <1>29, <1>30, <1>31,
     <1>32, <1>33, <1>34, Environment DEF Next, MainStep, ConnStep, ConnMay, signal_t

(* The threaded program implements the generation-by-generation one. *)
THEOREM Refinement == Spec => Supervised
<1>1. Init => WaitvalActedOn
  BY DEF Init, WaitvalActedOn
<1>2. Spec => []WaitvalActedOn
  BY <1>1, WaitvalStep, Invariant, PTL DEF Spec
<1> QED
  BY <1>2, Invariant, InitRefines, StepRefines, PTL DEF Spec, Supervised, S!Spec
=============================================================================
