------------------------ MODULE YFinanceStreamProofs ------------------------
(***************************************************************************)
(* Theorems about YFinanceStream, for any sets of interests and names.     *)
(*                                                                         *)
(* FeedInv is inductive: one lemma per action, one step per conjunct.  A   *)
(* leaf expands only the conjuncts it needs.                               *)
(***************************************************************************)
EXTENDS YFinanceStream, TLAPS

(* The initial state.                                                      *)
LEMMA InitSafe == Init => FeedInv
  BY NamesAssumption
  DEF Init, FeedInv, TypeOK, Tasks, CallerPhases, ListenerPhases, Running, BooksAgree,
      LockHeld, Roles, Hands, Carried, NothingLeaks, ClosedIsFinal

(* A step that changes nothing.                                            *)
LEMMA StutterSafe == FeedInv /\ UNCHANGED vars => FeedInv'
  BY DEF FeedInv, TypeOK, Running, BooksAgree, LockHeld, Roles, Hands, Carried,
         NothingLeaks, ClosedIsFinal, vars, callerVars, bookVars, taskVars, linkVars

-----------------------------------------------------------------------------
(* A call of subscribe_quote waits for the lock and changes no book.       *)
LEMMA SubscribeSafe ==
  ASSUME FeedInv, NEW i \in Interests, Subscribe(i)
  PROVE  FeedInv'
  <1> USE NamesAssumption
      DEF FeedInv, TypeOK, Tasks, CallerPhases, ListenerPhases, Running,
          CallerMoves, callerVars, bookVars, taskVars, linkVars, Subscribe
  <1>1. TypeOK'
    OBVIOUS
  <1>2. BooksAgree'
    BY DEF BooksAgree
  <1>3. LockHeld'
    BY DEF LockHeld
  <1>4. Roles'
    BY DEF Roles
  <1>5. Hands'
    BY DEF Hands
  <1>6. Carried'
    BY DEF Carried
  <1>7. NothingLeaks'
    BY DEF NothingLeaks
  <1>8. ClosedIsFinal'
    BY DEF ClosedIsFinal
  <1>9. QED
    BY <1>1, <1>2, <1>3, <1>4, <1>5, <1>6, <1>7, <1>8

(* A known interest: the call returns.                                     *)
LEMMA SubscribeAgainSafe ==
  ASSUME FeedInv, SubscribeAgain
  PROVE  FeedInv'
  <1> USE NamesAssumption
      DEF FeedInv, TypeOK, Tasks, CallerPhases, ListenerPhases, Running,
          CallerMoves, callerVars, bookVars, taskVars, linkVars, SubscribeAgain
  <1>1. TypeOK'
    OBVIOUS
  <1>2. BooksAgree'
    BY DEF BooksAgree
  <1>3. LockHeld'
    BY DEF LockHeld
  <1>4. Roles'
    BY DEF Roles
  <1>5. Hands'
    BY DEF Hands
  <1>6. Carried'
    BY DEF Carried
  <1>7. NothingLeaks'
    BY DEF NothingLeaks
  <1>8. ClosedIsFinal'
    BY DEF ClosedIsFinal
  <1>9. QED
    BY <1>1, <1>2, <1>3, <1>4, <1>5, <1>6, <1>7, <1>8

(* The symbol is counted and the lock kept, so the books may differ by it. *)
(* A new client is fresh: it is in nobody else's hands.                    *)
LEMMA SubscribeCountsSafe ==
  ASSUME FeedInv, SubscribeCounts
  PROVE  FeedInv'
  <1> USE NamesAssumption
      DEF FeedInv, TypeOK, Tasks, CallerPhases, ListenerPhases, Running,
          CallerMoves, callerVars, bookVars, taskVars, linkVars, SubscribeCounts,
          Create, Fresh
  <1>1. TypeOK'
    BY DEF BooksAgree
  <1>2. BooksAgree'
    BY DEF BooksAgree
  <1>3. LockHeld'
    BY DEF LockHeld
  <1>4. Roles'
    BY DEF Roles
  <1>5. Hands'
    BY DEF Hands
  <1>6. Carried'
    BY DEF Carried
  <1>7. NothingLeaks'
    BY DEF NothingLeaks
  <1>8. ClosedIsFinal'
    BY DEF ClosedIsFinal
  <1>9. QED
    BY <1>1, <1>2, <1>3, <1>4, <1>5, <1>6, <1>7, <1>8

(* The candidate becomes the client: it is subscribed to what is counted,  *)
(* which is the accepted interests and the new one.                        *)
LEMMA ConnectDoneSafe ==
  ASSUME FeedInv, ConnectDone
  PROVE  FeedInv'
  <1> USE NamesAssumption
      DEF FeedInv, TypeOK, Tasks, CallerPhases, ListenerPhases, Running,
          CallerMoves, callerVars, bookVars, taskVars, linkVars, ConnectDone,
          EnsureListener
  <1>1. TypeOK'
    BY DEF BooksAgree
  <1>2. BooksAgree'
    BY DEF BooksAgree
  <1>3. LockHeld'
    BY DEF LockHeld
  <1>4. Roles'
    BY DEF Roles
  <1>5. Hands'
    BY DEF Hands, LockHeld
  <1>6. Carried'
    BY DEF Carried, BooksAgree, Hands
  <1>7. NothingLeaks'
    BY DEF NothingLeaks, LockHeld
  <1>8. ClosedIsFinal'
    BY DEF ClosedIsFinal
  <1>9. QED
    BY <1>1, <1>2, <1>3, <1>4, <1>5, <1>6, <1>7, <1>8

(* The candidate failed: what is counted is again what is accepted.        *)
LEMMA ConnectFailsSafe ==
  ASSUME FeedInv, ConnectFails
  PROVE  FeedInv'
  <1> USE NamesAssumption
      DEF FeedInv, TypeOK, Tasks, CallerPhases, ListenerPhases, Running,
          CallerMoves, callerVars, bookVars, taskVars, linkVars, ConnectFails,
          Rollback
  <1>1. TypeOK'
    OBVIOUS
  <1>2. BooksAgree'
    BY DEF BooksAgree
  <1>3. LockHeld'
    BY DEF LockHeld
  <1>4. Roles'
    BY DEF Roles
  <1>5. Hands'
    BY DEF Hands
  <1>6. Carried'
    BY DEF Carried
  <1>7. NothingLeaks'
    BY DEF NothingLeaks
  <1>8. ClosedIsFinal'
    BY DEF ClosedIsFinal
  <1>9. QED
    BY <1>1, <1>2, <1>3, <1>4, <1>5, <1>6, <1>7, <1>8

(* The candidate is closed; _client was None all the time.                 *)
LEMMA DiscardedSafe ==
  ASSUME FeedInv, Discarded
  PROVE  FeedInv'
  <1> USE NamesAssumption
      DEF FeedInv, TypeOK, Tasks, CallerPhases, ListenerPhases, Running,
          CallerMoves, callerVars, bookVars, taskVars, linkVars, Discarded,
          CloseMine
  <1>1. TypeOK'
    OBVIOUS
  <1>2. BooksAgree'
    BY DEF BooksAgree
  <1>3. LockHeld'
    BY DEF LockHeld
  <1>4. Roles'
    BY DEF Roles
  <1>5. Hands'
    BY DEF Hands
  <1>6. Carried'
    BY DEF Carried, LockHeld
  <1>7. NothingLeaks'
    BY DEF NothingLeaks
  <1>8. ClosedIsFinal'
    BY DEF ClosedIsFinal
  <1>9. QED
    BY <1>1, <1>2, <1>3, <1>4, <1>5, <1>6, <1>7, <1>8

(* The client has one interest more, and so have the books.                *)
LEMMA AddDoneSafe ==
  ASSUME FeedInv, AddDone
  PROVE  FeedInv'
  <1> USE NamesAssumption
      DEF FeedInv, TypeOK, Tasks, CallerPhases, ListenerPhases, Running,
          CallerMoves, callerVars, bookVars, taskVars, linkVars, AddDone,
          EnsureListener
  <1>1. TypeOK'
    BY DEF BooksAgree, LockHeld
  <1>2. BooksAgree'
    BY DEF BooksAgree
  <1>3. LockHeld'
    BY DEF LockHeld
  <1>4. Roles'
    BY DEF Roles
  <1>5. Hands'
    BY DEF Hands
  <1>6. Carried'
    BY DEF Carried
  <1>7. NothingLeaks'
    BY DEF NothingLeaks
  <1>8. ClosedIsFinal'
    BY DEF ClosedIsFinal
  <1>9. QED
    BY <1>1, <1>2, <1>3, <1>4, <1>5, <1>6, <1>7, <1>8

(* The count is rolled back; the client may carry one interest too many.   *)
LEMMA AddFailsSafe ==
  ASSUME FeedInv, AddFails
  PROVE  FeedInv'
  <1> USE NamesAssumption
      DEF FeedInv, TypeOK, Tasks, CallerPhases, ListenerPhases, Running,
          CallerMoves, callerVars, bookVars, taskVars, linkVars, AddFails,
          Rollback
  <1>1. TypeOK'
    BY DEF BooksAgree, LockHeld
  <1>2. BooksAgree'
    BY DEF BooksAgree
  <1>3. LockHeld'
    BY DEF LockHeld
  <1>4. Roles'
    BY DEF Roles
  <1>5. Hands'
    BY DEF Hands
  <1>6. Carried'
    BY DEF Carried
  <1>7. NothingLeaks'
    BY DEF NothingLeaks
  <1>8. ClosedIsFinal'
    BY DEF ClosedIsFinal
  <1>9. QED
    BY <1>1, <1>2, <1>3, <1>4, <1>5, <1>6, <1>7, <1>8

-----------------------------------------------------------------------------
(* A call of unsubscribe waits for the lock.                               *)
LEMMA UnsubscribeSafe ==
  ASSUME FeedInv, NEW i \in Interests, Unsubscribe(i)
  PROVE  FeedInv'
  <1> USE NamesAssumption
      DEF FeedInv, TypeOK, Tasks, CallerPhases, ListenerPhases, Running,
          CallerMoves, callerVars, bookVars, taskVars, linkVars, Unsubscribe
  <1>1. TypeOK'
    OBVIOUS
  <1>2. BooksAgree'
    BY DEF BooksAgree
  <1>3. LockHeld'
    BY DEF LockHeld
  <1>4. Roles'
    BY DEF Roles
  <1>5. Hands'
    BY DEF Hands
  <1>6. Carried'
    BY DEF Carried
  <1>7. NothingLeaks'
    BY DEF NothingLeaks
  <1>8. ClosedIsFinal'
    BY DEF ClosedIsFinal
  <1>9. QED
    BY <1>1, <1>2, <1>3, <1>4, <1>5, <1>6, <1>7, <1>8

(* An unknown interest: the call returns.                                  *)
LEMMA UnsubscribeUnknownSafe ==
  ASSUME FeedInv, UnsubscribeUnknown
  PROVE  FeedInv'
  <1> USE NamesAssumption
      DEF FeedInv, TypeOK, Tasks, CallerPhases, ListenerPhases, Running,
          CallerMoves, callerVars, bookVars, taskVars, linkVars,
          UnsubscribeUnknown
  <1>1. TypeOK'
    OBVIOUS
  <1>2. BooksAgree'
    BY DEF BooksAgree
  <1>3. LockHeld'
    BY DEF LockHeld
  <1>4. Roles'
    BY DEF Roles
  <1>5. Hands'
    BY DEF Hands
  <1>6. Carried'
    BY DEF Carried
  <1>7. NothingLeaks'
    BY DEF NothingLeaks
  <1>8. ClosedIsFinal'
    BY DEF ClosedIsFinal
  <1>9. QED
    BY <1>1, <1>2, <1>3, <1>4, <1>5, <1>6, <1>7, <1>8

(* The interest goes from the books before the network call; without a     *)
(* client the last one detaches the listener.                              *)
LEMMA UnsubscribeCountsSafe ==
  ASSUME FeedInv, UnsubscribeCounts
  PROVE  FeedInv'
  <1> USE NamesAssumption
      DEF FeedInv, TypeOK, Tasks, CallerPhases, ListenerPhases, Running,
          CallerMoves, callerVars, bookVars, taskVars, linkVars,
          UnsubscribeCounts, Detach
  <1>1. TypeOK'
    OBVIOUS
  <1>2. BooksAgree'
    BY DEF BooksAgree
  <1>3. LockHeld'
    BY DEF LockHeld
  <1>4. Roles'
    BY DEF Roles, BooksAgree, LockHeld
  <1>5. Hands'
    BY DEF Hands
  <1>6. Carried'
    BY DEF Carried
  <1>7. NothingLeaks'
    BY DEF NothingLeaks
  <1>8. ClosedIsFinal'
    BY DEF ClosedIsFinal
  <1>9. QED
    BY <1>1, <1>2, <1>3, <1>4, <1>5, <1>6, <1>7, <1>8

(* After the network call the last interest detaches client and listener:  *)
(* the client goes into the hands of the caller.                           *)
LEMMA RemovedSafe ==
  ASSUME FeedInv, Removed
  PROVE  FeedInv'
  <1> USE NamesAssumption
      DEF FeedInv, TypeOK, Tasks, CallerPhases, ListenerPhases, Running,
          CallerMoves, callerVars, bookVars, taskVars, linkVars, Removed, Detach
  <1>1. TypeOK'
    BY DEF BooksAgree, LockHeld
  <1>2. BooksAgree'
    BY DEF BooksAgree
  <1>3. LockHeld'
    BY DEF LockHeld
  <1>4. Roles'
    BY DEF Roles, BooksAgree, LockHeld
  <1>5. Hands'
    BY DEF Hands
  <1>6. Carried'
    BY DEF Carried, BooksAgree
  <1>7. NothingLeaks'
    BY DEF NothingLeaks
  <1>8. ClosedIsFinal'
    BY DEF ClosedIsFinal
  <1>9. QED
    BY <1>1, <1>2, <1>3, <1>4, <1>5, <1>6, <1>7, <1>8

(* A call of close waits for the lock.                                     *)
LEMMA CloseSafe ==
  ASSUME FeedInv, Close
  PROVE  FeedInv'
  <1> USE NamesAssumption
      DEF FeedInv, TypeOK, Tasks, CallerPhases, ListenerPhases, Running,
          CallerMoves, callerVars, bookVars, taskVars, linkVars, Close
  <1>1. TypeOK'
    OBVIOUS
  <1>2. BooksAgree'
    BY DEF BooksAgree
  <1>3. LockHeld'
    BY DEF LockHeld
  <1>4. Roles'
    BY DEF Roles
  <1>5. Hands'
    BY DEF Hands
  <1>6. Carried'
    BY DEF Carried
  <1>7. NothingLeaks'
    BY DEF NothingLeaks
  <1>8. ClosedIsFinal'
    BY DEF ClosedIsFinal
  <1>9. QED
    BY <1>1, <1>2, <1>3, <1>4, <1>5, <1>6, <1>7, <1>8

(* close clears the books and detaches client and listener.                *)
LEMMA CloseDetachesSafe ==
  ASSUME FeedInv, CloseDetaches
  PROVE  FeedInv'
  <1> USE NamesAssumption
      DEF FeedInv, TypeOK, Tasks, CallerPhases, ListenerPhases, Running,
          CallerMoves, callerVars, bookVars, taskVars, linkVars, CloseDetaches,
          Detach
  <1>1. TypeOK'
    OBVIOUS
  <1>2. BooksAgree'
    BY DEF BooksAgree
  <1>3. LockHeld'
    BY DEF LockHeld
  <1>4. Roles'
    BY DEF Roles, LockHeld
  <1>5. Hands'
    BY DEF Hands
  <1>6. Carried'
    BY DEF Carried
  <1>7. NothingLeaks'
    BY DEF NothingLeaks
  <1>8. ClosedIsFinal'
    BY DEF ClosedIsFinal
  <1>9. QED
    BY <1>1, <1>2, <1>3, <1>4, <1>5, <1>6, <1>7, <1>8

(* The detached listener has ended, so none runs.                          *)
LEMMA CancelledSafe ==
  ASSUME FeedInv, Cancelled
  PROVE  FeedInv'
  <1> USE NamesAssumption
      DEF FeedInv, TypeOK, Tasks, CallerPhases, ListenerPhases, Running,
          CallerMoves, callerVars, bookVars, taskVars, linkVars, Cancelled
  <1>1. TypeOK'
    OBVIOUS
  <1>2. BooksAgree'
    BY DEF BooksAgree
  <1>3. LockHeld'
    BY DEF LockHeld
  <1>4. Roles'
    BY DEF Roles
  <1>5. Hands'
    BY DEF Hands
  <1>6. Carried'
    BY DEF Carried
  <1>7. NothingLeaks'
    BY DEF NothingLeaks
  <1>8. ClosedIsFinal'
    BY DEF ClosedIsFinal
  <1>9. QED
    BY <1>1, <1>2, <1>3, <1>4, <1>5, <1>6, <1>7, <1>8

(* The detached client is closed; it was the last one.                     *)
LEMMA CallerDoneSafe ==
  ASSUME FeedInv, CallerDone
  PROVE  FeedInv'
  <1> USE NamesAssumption
      DEF FeedInv, TypeOK, Tasks, CallerPhases, ListenerPhases, Running,
          CallerMoves, callerVars, bookVars, taskVars, linkVars, CallerDone,
          CloseMine
  <1>1. TypeOK'
    OBVIOUS
  <1>2. BooksAgree'
    BY DEF BooksAgree
  <1>3. LockHeld'
    BY DEF LockHeld
  <1>4. Roles'
    BY DEF Roles
  <1>5. Hands'
    BY DEF Hands
  <1>6. Carried'
    BY DEF Carried, Roles
  <1>7. NothingLeaks'
    BY DEF NothingLeaks
  <1>8. ClosedIsFinal'
    BY DEF ClosedIsFinal, Roles, NothingLeaks
  <1>9. QED
    BY <1>1, <1>2, <1>3, <1>4, <1>5, <1>6, <1>7, <1>8

-----------------------------------------------------------------------------
(* A listener starts to listen to the current client, or ends if it is the *)
(* detached one.                                                           *)
LEMMA ListenerStartsSafe ==
  ASSUME FeedInv, NEW l \in Listeners, ListenerStarts(l)
  PROVE  FeedInv'
  <1> USE NamesAssumption
      DEF FeedInv, TypeOK, Tasks, CallerPhases, ListenerPhases, Running,
          ListenerMoves, callerVars, bookVars, taskVars, linkVars, ListenerStarts,
          Idle
  <1>1. TypeOK'
    OBVIOUS
  <1>2. BooksAgree'
    BY DEF BooksAgree
  <1>3. LockHeld'
    BY DEF LockHeld
  <1>4. Roles'
    BY DEF Roles, BooksAgree, LockHeld
  <1>5. Hands'
    BY DEF Hands
  <1>6. Carried'
    BY DEF Carried
  <1>7. NothingLeaks'
    BY DEF NothingLeaks
  <1>8. ClosedIsFinal'
    BY DEF ClosedIsFinal
  <1>9. QED
    BY <1>1, <1>2, <1>3, <1>4, <1>5, <1>6, <1>7, <1>8

(* The connection is lost; the lock is not taken yet.                      *)
LEMMA ConnectionLostSafe ==
  ASSUME FeedInv, NEW l \in Listeners, ConnectionLost(l)
  PROVE  FeedInv'
  <1> USE NamesAssumption
      DEF FeedInv, TypeOK, Tasks, CallerPhases, ListenerPhases, Running,
          ListenerMoves, callerVars, bookVars, taskVars, linkVars, ConnectionLost
  <1>1. TypeOK'
    OBVIOUS
  <1>2. BooksAgree'
    BY DEF BooksAgree
  <1>3. LockHeld'
    BY DEF LockHeld
  <1>4. Roles'
    BY DEF Roles
  <1>5. Hands'
    BY DEF Hands
  <1>6. Carried'
    BY DEF Carried
  <1>7. NothingLeaks'
    BY DEF NothingLeaks
  <1>8. ClosedIsFinal'
    BY DEF ClosedIsFinal
  <1>9. QED
    BY <1>1, <1>2, <1>3, <1>4, <1>5, <1>6, <1>7, <1>8

(* The listener takes the client out of _client, or ends.                  *)
LEMMA ListenerGivesUpSafe ==
  ASSUME FeedInv, NEW l \in Listeners, ListenerGivesUp(l)
  PROVE  FeedInv'
  <1> USE NamesAssumption
      DEF FeedInv, TypeOK, Tasks, CallerPhases, ListenerPhases, Running,
          ListenerMoves, callerVars, bookVars, taskVars, linkVars,
          ListenerGivesUp, Idle
  <1>1. TypeOK'
    OBVIOUS
  <1>2. BooksAgree'
    BY DEF BooksAgree
  <1>3. LockHeld'
    BY DEF LockHeld
  <1>4. Roles'
    BY DEF Roles, BooksAgree, LockHeld
  <1>5. Hands'
    BY DEF BooksAgree, LockHeld, Roles, Hands, Carried, NothingLeaks, ClosedIsFinal
  <1>6. Carried'
    BY DEF Carried
  <1>7. NothingLeaks'
    BY DEF NothingLeaks
  <1>8. ClosedIsFinal'
    BY DEF ClosedIsFinal
  <1>9. QED
    BY <1>1, <1>2, <1>3, <1>4, <1>5, <1>6, <1>7, <1>8

(* It closes the client it gave up.                                        *)
LEMMA ListenerClosedSafe ==
  ASSUME FeedInv, NEW l \in Listeners, ListenerClosed(l)
  PROVE  FeedInv'
  <1> USE NamesAssumption
      DEF FeedInv, TypeOK, Tasks, CallerPhases, ListenerPhases, Running,
          ListenerMoves, callerVars, bookVars, taskVars, linkVars, ListenerClosed,
          CloseMine
  <1>1. TypeOK'
    OBVIOUS
  <1>2. BooksAgree'
    BY DEF BooksAgree
  <1>3. LockHeld'
    BY DEF LockHeld
  <1>4. Roles'
    BY DEF Roles
  <1>5. Hands'
    BY DEF Hands, Roles
  <1>6. Carried'
    BY DEF Carried, Hands
  <1>7. NothingLeaks'
    BY DEF NothingLeaks
  <1>8. ClosedIsFinal'
    BY DEF ClosedIsFinal
  <1>9. QED
    BY <1>1, <1>2, <1>3, <1>4, <1>5, <1>6, <1>7, <1>8

(* It has slept.                                                           *)
LEMMA ListenerWakesSafe ==
  ASSUME FeedInv, NEW l \in Listeners, ListenerWakes(l)
  PROVE  FeedInv'
  <1> USE NamesAssumption
      DEF FeedInv, TypeOK, Tasks, CallerPhases, ListenerPhases, Running,
          ListenerMoves, callerVars, bookVars, taskVars, linkVars, ListenerWakes
  <1>1. TypeOK'
    OBVIOUS
  <1>2. BooksAgree'
    BY DEF BooksAgree
  <1>3. LockHeld'
    BY DEF LockHeld
  <1>4. Roles'
    BY DEF Roles
  <1>5. Hands'
    BY DEF Hands
  <1>6. Carried'
    BY DEF Carried
  <1>7. NothingLeaks'
    BY DEF NothingLeaks
  <1>8. ClosedIsFinal'
    BY DEF ClosedIsFinal
  <1>9. QED
    BY <1>1, <1>2, <1>3, <1>4, <1>5, <1>6, <1>7, <1>8

(* It makes a client only with the lock held and _client None.             *)
LEMMA ReconnectChecksSafe ==
  ASSUME FeedInv, NEW l \in Listeners, ReconnectChecks(l)
  PROVE  FeedInv'
  <1> USE NamesAssumption
      DEF FeedInv, TypeOK, Tasks, CallerPhases, ListenerPhases, Running,
          ListenerMoves, callerVars, bookVars, taskVars, linkVars,
          ReconnectChecks, Idle, Create, Fresh
  <1>1. TypeOK'
    OBVIOUS
  <1>2. BooksAgree'
    BY DEF BooksAgree
  <1>3. LockHeld'
    BY DEF LockHeld
  <1>4. Roles'
    BY DEF Roles, BooksAgree, LockHeld
  <1>5. Hands'
    BY DEF Hands
  <1>6. Carried'
    BY DEF Carried
  <1>7. NothingLeaks'
    BY DEF NothingLeaks
  <1>8. ClosedIsFinal'
    BY DEF ClosedIsFinal
  <1>9. QED
    BY <1>1, <1>2, <1>3, <1>4, <1>5, <1>6, <1>7, <1>8

(* A reconnected client is subscribed to what is counted.                  *)
LEMMA ReconnectDoneSafe ==
  ASSUME FeedInv, NEW l \in Listeners, ReconnectDone(l)
  PROVE  FeedInv'
  <1> USE NamesAssumption
      DEF FeedInv, TypeOK, Tasks, CallerPhases, ListenerPhases, Running,
          ListenerMoves, callerVars, bookVars, taskVars, linkVars, ReconnectDone
  <1>1. TypeOK'
    OBVIOUS
  <1>2. BooksAgree'
    BY DEF BooksAgree
  <1>3. LockHeld'
    BY DEF LockHeld
  <1>4. Roles'
    BY DEF Roles
  <1>5. Hands'
    BY DEF Hands, Roles
  <1>6. Carried'
    BY DEF Carried, BooksAgree, Hands
  <1>7. NothingLeaks'
    BY DEF NothingLeaks, LockHeld
  <1>8. ClosedIsFinal'
    BY DEF ClosedIsFinal
  <1>9. QED
    BY <1>1, <1>2, <1>3, <1>4, <1>5, <1>6, <1>7, <1>8

(* The failed client is still in the listener's hands.                     *)
LEMMA ReconnectFailsSafe ==
  ASSUME FeedInv, NEW l \in Listeners, ReconnectFails(l)
  PROVE  FeedInv'
  <1> USE NamesAssumption
      DEF FeedInv, TypeOK, Tasks, CallerPhases, ListenerPhases, Running,
          ListenerMoves, callerVars, bookVars, taskVars, linkVars, ReconnectFails
  <1>1. TypeOK'
    OBVIOUS
  <1>2. BooksAgree'
    BY DEF BooksAgree
  <1>3. LockHeld'
    BY DEF LockHeld
  <1>4. Roles'
    BY DEF Roles
  <1>5. Hands'
    BY DEF Hands
  <1>6. Carried'
    BY DEF Carried
  <1>7. NothingLeaks'
    BY DEF NothingLeaks
  <1>8. ClosedIsFinal'
    BY DEF ClosedIsFinal
  <1>9. QED
    BY <1>1, <1>2, <1>3, <1>4, <1>5, <1>6, <1>7, <1>8

(* A cancelled listener ends; what it was closing counts as closed.        *)
LEMMA CancelDeliveredSafe ==
  ASSUME FeedInv, NEW l \in Listeners, CancelDelivered(l)
  PROVE  FeedInv'
  <1> USE NamesAssumption
      DEF FeedInv, TypeOK, Tasks, CallerPhases, ListenerPhases, Running,
          callerVars, bookVars, taskVars, linkVars, CancelDelivered
  <1>1. TypeOK'
    OBVIOUS
  <1>2. BooksAgree'
    BY DEF BooksAgree
  <1>3. LockHeld'
    BY DEF LockHeld, Roles
  <1>4. Roles'
    BY DEF Roles
  <1>5. Hands'
    BY DEF Hands, Roles
  <1>6. Carried'
    BY DEF Carried, Roles
  <1>7. NothingLeaks'
    BY DEF NothingLeaks, Roles
  <1>8. ClosedIsFinal'
    BY DEF ClosedIsFinal
  <1>9. QED
    BY <1>1, <1>2, <1>3, <1>4, <1>5, <1>6, <1>7, <1>8

(* A cancelled listener whose cancellation is swallowed runs on, detached. *)
LEMMA CancelSwallowedSafe ==
  ASSUME FeedInv, NEW l \in Listeners, CancelSwallowed(l)
  PROVE  FeedInv'
  <1> USE NamesAssumption
      DEF FeedInv, TypeOK, Tasks, CallerPhases, ListenerPhases, Running,
          callerVars, bookVars, taskVars, linkVars, CancelSwallowed
  <1>1. TypeOK'
    OBVIOUS
  <1>2. BooksAgree'
    BY DEF BooksAgree
  <1>3. LockHeld'
    BY DEF LockHeld
  <1>4. Roles'
    BY DEF Roles
  <1>5. Hands'
    BY DEF Hands
  <1>6. Carried'
    BY DEF Carried
  <1>7. NothingLeaks'
    BY DEF NothingLeaks
  <1>8. ClosedIsFinal'
    BY DEF ClosedIsFinal
  <1>9. QED
    BY <1>1, <1>2, <1>3, <1>4, <1>5, <1>6, <1>7, <1>8

-----------------------------------------------------------------------------
(* Every step of the caller and of the listeners keeps the invariant.      *)
LEMMA NextSafe == FeedInv /\ [Next]_vars => FeedInv'
  <1> SUFFICES ASSUME FeedInv, [Next]_vars PROVE FeedInv'
    OBVIOUS
  <1>1. CASE Called
    BY <1>1, SubscribeSafe, UnsubscribeSafe, CloseSafe DEF Called
  <1>2. CASE CallerLocks
    BY <1>2, SubscribeAgainSafe, SubscribeCountsSafe, UnsubscribeUnknownSafe,
       UnsubscribeCountsSafe, CloseDetachesSafe DEF CallerLocks
  <1>3. CASE CallerStep
    BY <1>3, ConnectDoneSafe, ConnectFailsSafe, DiscardedSafe, AddDoneSafe,
       AddFailsSafe, RemovedSafe, CancelledSafe, CallerDoneSafe DEF CallerStep
  <1>4. ASSUME NEW l \in Listeners, ListenerLocks(l)
        PROVE  FeedInv'
    BY <1>4, ListenerStartsSafe, ListenerGivesUpSafe, ReconnectChecksSafe
    DEF ListenerLocks
  <1>5. ASSUME NEW l \in Listeners, ListenerStep(l) \/ ConnectionLost(l)
        PROVE  FeedInv'
    BY <1>5, ListenerClosedSafe, ListenerWakesSafe, ReconnectDoneSafe,
       ReconnectFailsSafe, CancelDeliveredSafe, CancelSwallowedSafe,
       ConnectionLostSafe DEF ListenerStep
  <1>6. CASE Rests \/ UNCHANGED vars
    BY <1>6, StutterSafe DEF Rests
  <1>7. QED
    BY <1>1, <1>2, <1>3, <1>4, <1>5, <1>6 DEF Next

(* The books, the lock, the listener tasks and the clients agree, for any  *)
(* number of interests and however often the connection breaks.            *)
THEOREM FeedCorrect == Spec => []FeedInv
  BY InitSafe, NextSafe, PTL DEF Spec

(* Whatever client a provider has is subscribed to all it has accepted.    *)
THEOREM CarriedCorrect == Spec => []Carried
  <1>1. FeedInv => Carried
    BY DEF FeedInv
  <1>2. QED
    BY <1>1, FeedCorrect, PTL

(* At most one listener task of a provider runs.                           *)
THEOREM OneListenerCorrect == Spec => []OneListener
  <1>1. FeedInv => OneListener
    <2> SUFFICES ASSUME FeedInv, NEW l \in Running, NEW m \in Running
                 PROVE  l = m
      BY DEF OneListener
    <2>1. l \in Listeners /\ m \in Listeners
      BY DEF Running
    <2>2. CASE victim = None
      BY <2>1, <2>2, NamesAssumption DEF FeedInv, Roles
    <2>3. CASE victim # None
      <3>1. interests = {} /\ caller = "cancelling"
        BY <2>3 DEF FeedInv, Roles
      <3>2. listener = None
        BY <3>1 DEF FeedInv, Roles
      <3>3. QED
        BY <2>1, <3>2, NamesAssumption DEF FeedInv, Roles
    <2>4. QED
      BY <2>2, <2>3
  <1>2. QED
    BY <1>1, FeedCorrect, PTL

(* While a provider has interests a listener task is there for them.       *)
THEOREM SupervisedCorrect == Spec => []Supervised
  <1>1. FeedInv => Supervised
    BY DEF FeedInv, Roles, Supervised, Running
  <1>2. QED
    BY <1>1, FeedCorrect, PTL

(* No connection is left open without anybody who will close it.           *)
THEOREM NothingLeaksCorrect == Spec => []NothingLeaks
  <1>1. FeedInv => NothingLeaks
    BY DEF FeedInv
  <1>2. QED
    BY <1>1, FeedCorrect, PTL

(* close leaves neither a connection nor a task behind.                    *)
THEOREM ClosedCorrect == Spec => []ClosedIsFinal
  <1>1. FeedInv => ClosedIsFinal
    BY DEF FeedInv
  <1>2. QED
    BY <1>1, FeedCorrect, PTL
=============================================================================
