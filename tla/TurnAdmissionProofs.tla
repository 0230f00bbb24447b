------------------------- MODULE TurnAdmissionProofs -------------------------
(***************************************************************************)
(* Admission, cancellation and recording of chat turns, for any number of  *)
(* requests and sessions.  Exclusive follows from two facts: two turns of  *)
(* the ledger never meet in a session or in create mode, and a turn that   *)
(* works, unless it is late, is in the ledger.  The second needs to know   *)
(* who is to take it out: a lease while its generators run (LeaseInv),     *)
(* afterwards a callback of its agent (AgentInv).                          *)
(***************************************************************************)
EXTENDS TurnAdmission, TLAPS

\* Where a stream has not been left, nothing is registered on the agent's end;
\* where no request has come, nothing is known of it.
FreshInv(t) ==
  /\ at[t] = "none" => t \notin creates
  /\ at[t] \in {"none", "refused", "handler", "handed"} => agent[t] = "none"
  /\ at[t] \in {"none", "refused", "handler", "handed", "stream", "tail"} =>
       callbacks[t] = {} /\ t \notin dropping
  /\ at[t] # "over" => t \notin detached /\ t \notin unreachable /\ callbacks[t] \subseteq {"drop"}
  /\ at[t] = "tail" => ~ Alive(t)

\* A lease that can still be released belongs to a turn that its handler or its
\* stream has in hand, and that is in the ledger.
LeaseInv(t) ==
  /\ at[t] = "none" => lease[t] = "none"
  /\ at[t] = "handler" => lease[t] = "held"
  /\ at[t] \in {"handed", "stream", "tail"} => lease[t] \in {"held", "handed", "expired"}
  /\ lease[t] \in {"held", "handed"} =>
       t \in ledger /\ at[t] \in {"handler", "handed", "stream", "tail"}

\* An agent that outlives its generators, or its record to come, keeps the turn
\* in the ledger by a callback; what is being dropped works no more.
AgentInv(t) ==
  /\ callbacks[t] # {} => agent[t] # "none"
  /\ Alive(t) /\ at[t] \in {"unwinding", "over"} /\ ~ Late(t) => "drop" \in callbacks[t]
  /\ "record" \in callbacks[t] /\ ~ Late(t) => "drop" \in callbacks[t]
  /\ "drop" \in callbacks[t] => t \in ledger
  /\ t \in dropping => ~ Alive(t) /\ callbacks[t] = {}

\* One record: at the end of the stream, or to come with the end of the agent.
RecordInv(t) ==
  /\ at[t] \in {"none", "refused", "handler", "handed", "stream"} => records[t] = 0
  /\ at[t] = "tail" => records[t] = 1
  /\ at[t] = "unwinding" /\ Alive(t) => records[t] = 0
  /\ "record" \in callbacks[t] => records[t] = 0
  /\ t \in detached =>
       \/ "record" \in callbacks[t]
       \/ ~ Alive(t) /\ (agent[t] = "answered" => records[t] = 1)

\* Who works, and who is still to be recorded, has a key, unless it is lost.
KeyInv(t) ==
  /\ at[t] \in {"stream", "tail", "unwinding"} => t \in keys
  /\ agent[t] = "working" /\ t \notin unreachable => t \in keys
  /\ "record" \in callbacks[t] /\ t \notin unreachable => t \in keys

\* LedgerBacked, of one turn.
BackedInv(t) ==
  t \in ledger =>
     \/ lease[t] \in {"held", "handed"} /\ at[t] \in {"handler", "handed", "stream", "tail"}
     \/ agent[t] # "none" /\ "drop" \in callbacks[t]
     \/ t \in dropping

TurnInv(t) ==
  FreshInv(t) /\ LeaseInv(t) /\ AgentInv(t) /\ RecordInv(t) /\ KeyInv(t) /\ BackedInv(t)

\* The ledger holds one turn of a session and one in create mode.
LedgerInv ==
  \A t, u \in ledger : t # u =>
     /\ session[t] # session[u] \/ session[t] = NoId
     /\ ~ (t \in creates /\ u \in creates)

IInv == TypeOK /\ (\A t \in Turn : TurnInv(t)) /\ LedgerInv

\* A step of one turn leaves every other as it is.
Same(u) ==
  /\ at'[u] = at[u] /\ lease'[u] = lease[u] /\ agent'[u] = agent[u]
  /\ callbacks'[u] = callbacks[u] /\ records'[u] = records[u] /\ session'[u] = session[u]
  /\ (u \in ledger' <=> u \in ledger) /\ (u \in dropping' <=> u \in dropping)
  /\ (u \in keys' <=> u \in keys) /\ (u \in detached' <=> u \in detached)
  /\ (u \in creates' <=> u \in creates) /\ (u \in unreachable' <=> u \in unreachable)

\* What a step of turn t has to do for the invariant; only an arrival puts a
\* turn into the ledger or changes what it asks for.
Keeps(t) ==
  /\ TypeOK' /\ TurnInv(t)'
  /\ \A u \in Turn \ {t} : Same(u)

Stays(t) ==
  /\ t \in ledger' => t \in ledger
  /\ session'[t] = session[t] /\ (t \in creates' => t \in creates)
-----------------------------------------------------------------------------
(* What the parts of several actions do. *)

Calls == {"free key", "record", "drop"}
Leases == {"none", "held", "handed", "expired", "released"}
Agents == {"none", "working", "cancelling", "answered", "failed", "cancelled"}

\* Which calls are registered, and whether the turn is in the ledger, once its
\* admission is released.
LEMMA ReleaseEffect ==
  ASSUME TypeOK, NEW t \in Turn, NEW todo \in SUBSET Calls, Release(t, todo)
  PROVE  /\ ledger' \subseteq Turn /\ callbacks' \in [Turn -> SUBSET Calls]
         /\ \A u \in Turn \ {t} : /\ callbacks'[u] = callbacks[u]
                                  /\ u \in ledger' <=> u \in ledger
         /\ callbacks'[t] = IF Alive(t) THEN todo \cup {"drop"} ELSE todo
         /\ t \in ledger' <=> t \in ledger /\ Alive(t)
<1> DEFINE calls == IF Alive(t) THEN todo \cup {"drop"} ELSE todo
<1>1. callbacks' = [callbacks EXCEPT ![t] = calls]
  BY DEF Release
<1>2. calls \in SUBSET Calls
  BY DEF Calls
<1>3. callbacks \in [Turn -> SUBSET Calls] /\ ledger \subseteq Turn
  BY DEF TypeOK, Calls
<1>4. ledger' = IF Alive(t) THEN ledger ELSE ledger \ {t}
  BY DEF Release
<1> HIDE DEF calls
<1>5. callbacks' \in [Turn -> SUBSET Calls] /\ callbacks'[t] = calls
      /\ \A u \in Turn \ {t} : callbacks'[u] = callbacks[u]
  BY <1>1, <1>2, <1>3
<1> QED
  BY <1>3, <1>4, <1>5 DEF calls

LEMMA LeaseEndsEffect ==
  ASSUME TypeOK, NEW t \in Turn, NEW todo \in SUBSET Calls, LeaseEnds(t, todo)
  PROVE  /\ ledger' \subseteq Turn /\ callbacks' \in [Turn -> SUBSET Calls]
         /\ lease' \in [Turn -> Leases]
         /\ \A u \in Turn \ {t} : /\ callbacks'[u] = callbacks[u] /\ lease'[u] = lease[u]
                                  /\ u \in ledger' <=> u \in ledger
         /\ lease[t] \in {"held", "handed"} =>
              /\ lease'[t] = "released"
              /\ callbacks'[t] = IF Alive(t) THEN todo \cup {"drop"} ELSE todo
              /\ t \in ledger' <=> t \in ledger /\ Alive(t)
         /\ lease[t] \notin {"held", "handed"} =>
              /\ lease'[t] = lease[t] /\ callbacks'[t] = todo
              /\ t \in ledger' <=> t \in ledger
<1>1. CASE lease[t] \in {"held", "handed"}
  <2>1. Release(t, todo) /\ lease' = [lease EXCEPT ![t] = "released"]
    BY <1>1 DEF LeaseEnds
  <2>2. lease' \in [Turn -> Leases] /\ lease'[t] = "released"
        /\ \A u \in Turn \ {t} : lease'[u] = lease[u]
    BY <2>1 DEF TypeOK, Leases
  <2> QED
    BY <1>1, <2>1, <2>2, ReleaseEffect
<1>2. CASE lease[t] \notin {"held", "handed"}
  <2>1. lease' = lease /\ ledger' = ledger /\ callbacks' = [callbacks EXCEPT ![t] = todo]
    BY <1>2 DEF LeaseEnds
  <2> QED
    BY <1>2, <2>1 DEF TypeOK, Calls, Leases
<1> QED
  BY <1>1, <1>2

LEMMA InnerFinallyEffect ==
  ASSUME TypeOK, NEW t \in Turn, InnerFinally(t)
  PROVE  /\ keys' \cup detached' \subseteq Turn /\ flagged' \subseteq keys'
         /\ agent' \in [Turn -> Agents]
         /\ \A u \in Turn \ {t} : /\ agent'[u] = agent[u] /\ (u \in keys' <=> u \in keys)
                                  /\ u \in detached' <=> u \in detached
         /\ agent'[t] = IF Alive(t) /\ ~ Detaches(t) THEN "cancelling" ELSE agent[t]
         /\ t \in keys' <=> t \in keys /\ Detaches(t)
         /\ t \in detached' <=> t \in detached \/ Detaches(t)
<1>1. CASE Detaches(t)
  <2>1. detached' = detached \cup {t} /\ keys' = keys /\ flagged' = flagged /\ agent' = agent
    BY <1>1 DEF InnerFinally
  <2>2. t \in keys' <=> t \in keys
    BY <2>1
  <2> QED
    BY <1>1, <2>1 DEF TypeOK, Agents
<1>2. CASE ~ Detaches(t)
  <2>1. /\ detached' = detached /\ keys' = keys \ {t} /\ flagged' = flagged \ {t}
        /\ agent' = IF Alive(t) THEN [agent EXCEPT ![t] = "cancelling"] ELSE agent
    BY <1>2 DEF InnerFinally, FreeKey
  <2> QED
    BY <1>2, <2>1 DEF TypeOK, Agents
<1> QED
  BY <1>1, <1>2

\* The calls registered on the end of an agent that goes on.
LEMMA RegisteredCalls ==
  ASSUME TypeOK, NEW t \in Turn
  PROVE  /\ callbacks[t] \in SUBSET Calls /\ Registered(t) \in SUBSET Calls
         /\ "record" \in Registered(t) <=> "record" \in callbacks[t] \/ Detaches(t)
         /\ "drop" \in Registered(t) <=> "drop" \in callbacks[t]
         /\ ~ Detaches(t) => Registered(t) = callbacks[t]
         /\ Detaches(t) => Alive(t)
BY DEF TypeOK, Registered, Calls, Detaches

-----------------------------------------------------------------------------
\* A handler hands its lease over with the stream.
LEMMA HandingOver ==
  ASSUME TypeOK, NEW t \in Turn, TurnInv(t), HandOver(t)
  PROVE  Keeps(t) /\ Stays(t)
<1> USE DEF TypeOK, HandOver
<1>1. TypeOK'
  BY DEF Places
<1>2. \A u \in Turn \ {t} : Same(u)
  BY DEF Same
<1>3. FreshInv(t)'
  BY DEF TurnInv, FreshInv, Alive
<1>4. LeaseInv(t)'
  BY DEF TurnInv, LeaseInv, Alive, FreshInv
<1>5. AgentInv(t)'
  BY DEF TurnInv, AgentInv, Alive, FreshInv, LeaseInv, Late
<1>6. RecordInv(t)'
  BY DEF TurnInv, RecordInv, Alive, FreshInv, AgentInv
<1>7. KeyInv(t)'
  BY DEF TurnInv, KeyInv, Alive, FreshInv
<1>8. BackedInv(t)'
  BY DEF TurnInv, BackedInv, Alive, FreshInv, LeaseInv, AgentInv
<1>9. Stays(t)
  BY DEF Stays
<1> QED
  BY <1>1, <1>2, <1>3, <1>4, <1>5, <1>6, <1>7, <1>8, <1>9 DEF Keeps, TurnInv

\* A stream enters cancel_scope.
LEMMA StreamStarting ==
  ASSUME TypeOK, NEW t \in Turn, TurnInv(t), StreamStarts(t)
  PROVE  Keeps(t) /\ Stays(t)
<1> USE DEF TypeOK, StreamStarts
<1>1. TypeOK'
  <2>1. at' \in [Turn -> Places]
    BY DEF Places
  <2>2. keys' \subseteq Turn /\ flagged \subseteq keys'
    OBVIOUS
  <2> QED
    BY <2>1, <2>2
<1>2. \A u \in Turn \ {t} : Same(u)
  BY DEF Same
<1>3. FreshInv(t)'
  BY DEF TurnInv, FreshInv, Alive
<1>4. LeaseInv(t)'
  BY DEF TurnInv, LeaseInv, Alive, FreshInv
<1>5. AgentInv(t)'
  BY DEF TurnInv, AgentInv, Alive, FreshInv, LeaseInv, Late
<1>6. RecordInv(t)'
  BY DEF TurnInv, RecordInv, Alive, FreshInv, AgentInv
<1>7. KeyInv(t)'
  BY DEF TurnInv, KeyInv, Alive, FreshInv
<1>8. BackedInv(t)'
  BY DEF TurnInv, BackedInv, Alive, FreshInv, LeaseInv, AgentInv
<1>9. Stays(t)
  BY DEF Stays
<1> QED
  BY <1>1, <1>2, <1>3, <1>4, <1>5, <1>6, <1>7, <1>8, <1>9 DEF Keeps, TurnInv

\* An agent starts in a stream that has its key.
LEMMA AgentStarting ==
  ASSUME TypeOK, NEW t \in Turn, TurnInv(t), NEW s \in BOOLEAN, AgentStarts(t, s)
  PROVE  Keeps(t) /\ Stays(t)
<1> USE DEF TypeOK, AgentStarts
<1>1. TypeOK'
  BY ZenonT(30) DEF Places
<1>2. \A u \in Turn \ {t} : Same(u)
  BY DEF Same
<1>3. FreshInv(t)'
  BY DEF TurnInv, FreshInv, Alive
<1>4. LeaseInv(t)'
  BY DEF TurnInv, LeaseInv, Alive, FreshInv
<1>5. AgentInv(t)'
  BY DEF TurnInv, AgentInv, Alive, FreshInv, LeaseInv, Late
<1>6. RecordInv(t)'
  BY DEF TurnInv, RecordInv, Alive, FreshInv, AgentInv
<1>7. KeyInv(t)'
  BY DEF TurnInv, KeyInv, Alive, FreshInv
<1>8. BackedInv(t)'
  BY DEF TurnInv, BackedInv, Alive, FreshInv, LeaseInv, AgentInv
<1>9. Stays(t)
  BY DEF Stays
<1> QED
  BY <1>1, <1>2, <1>3, <1>4, <1>5, <1>6, <1>7, <1>8, <1>9 DEF Keeps, TurnInv

\* It ends; what waits for its end is registered.
LEMMA AgentEnding ==
  ASSUME TypeOK, NEW t \in Turn, TurnInv(t), NEW r \in {"answered", "failed", "cancelled"}, AgentEnds(t, r)
  PROVE  Keeps(t) /\ Stays(t)
<1> USE DEF TypeOK, AgentEnds
<1>1. TypeOK'
  BY DEF Places
<1>2. \A u \in Turn \ {t} : Same(u)
  BY DEF Same
<1>3. FreshInv(t)'
  BY DEF TurnInv, FreshInv, Alive
<1>4. LeaseInv(t)'
  BY DEF TurnInv, LeaseInv, Alive, FreshInv
<1>5. AgentInv(t)'
  BY DEF TurnInv, AgentInv, Alive, FreshInv, LeaseInv, Late
<1>6. RecordInv(t)'
  BY DEF TurnInv, RecordInv, Alive, FreshInv, AgentInv
<1>7. KeyInv(t)'
  BY DEF TurnInv, KeyInv, Alive, FreshInv
<1>8. BackedInv(t)'
  BY DEF TurnInv, BackedInv, Alive, FreshInv, LeaseInv, AgentInv
<1>9. Stays(t)
  BY DEF Stays
<1> QED
  BY <1>1, <1>2, <1>3, <1>4, <1>5, <1>6, <1>7, <1>8, <1>9 DEF Keeps, TurnInv

LEMMA SeeingCancel ==
  ASSUME TypeOK, NEW t \in Turn, TurnInv(t), CancelSeen(t)
  PROVE  Keeps(t) /\ Stays(t)
<1> USE DEF TypeOK, CancelSeen
<1>1. TypeOK'
  BY DEF Places
<1>2. \A u \in Turn \ {t} : Same(u)
  BY DEF Same
<1>3. FreshInv(t)'
  BY DEF TurnInv, FreshInv, Alive
<1>4. LeaseInv(t)'
  BY DEF TurnInv, LeaseInv, Alive, FreshInv
<1>5. AgentInv(t)'
  BY DEF TurnInv, AgentInv, Alive, FreshInv, LeaseInv, Late
<1>6. RecordInv(t)'
  BY DEF TurnInv, RecordInv, Alive, FreshInv, AgentInv
<1>7. KeyInv(t)'
  BY DEF TurnInv, KeyInv, Alive, FreshInv
<1>8. BackedInv(t)'
  BY DEF TurnInv, BackedInv, Alive, FreshInv, LeaseInv, AgentInv
<1>9. Stays(t)
  BY DEF Stays
<1> QED
  BY <1>1, <1>2, <1>3, <1>4, <1>5, <1>6, <1>7, <1>8, <1>9 DEF Keeps, TurnInv

\* _drop takes out a turn that works no more.
LEMMA Dropping ==
  ASSUME TypeOK, NEW t \in Turn, TurnInv(t), Drop(t)
  PROVE  Keeps(t) /\ Stays(t)
<1> USE DEF TypeOK, Drop, turnVars
<1>1. TypeOK'
  BY DEF Places
<1>2. \A u \in Turn \ {t} : Same(u)
  BY DEF Same
<1>3. FreshInv(t)'
  BY DEF TurnInv, FreshInv, Alive
<1>4. LeaseInv(t)'
  BY DEF TurnInv, LeaseInv, Alive, FreshInv
<1>5. AgentInv(t)'
  BY DEF TurnInv, AgentInv, Alive, FreshInv, LeaseInv, Late
<1>6. RecordInv(t)'
  BY DEF TurnInv, RecordInv, Alive, FreshInv, AgentInv
<1>7. KeyInv(t)'
  BY DEF TurnInv, KeyInv, Alive, FreshInv
<1>8. BackedInv(t)'
  BY DEF TurnInv, BackedInv, Alive, FreshInv, LeaseInv, AgentInv
<1>9. Stays(t)
  BY DEF Stays
<1> QED
  BY <1>1, <1>2, <1>3, <1>4, <1>5, <1>6, <1>7, <1>8, <1>9 DEF Keeps, TurnInv

LEMMA Cancelling ==
  ASSUME TypeOK, NEW t \in Turn, TurnInv(t), RequestCancel(t)
  PROVE  Keeps(t) /\ Stays(t)
<1> USE DEF TypeOK, RequestCancel, turnVars
<1>1. TypeOK'
  BY DEF Places
<1>2. \A u \in Turn \ {t} : Same(u)
  BY DEF Same
<1>3. FreshInv(t)'
  BY DEF TurnInv, FreshInv, Alive
<1>4. LeaseInv(t)'
  BY DEF TurnInv, LeaseInv, Alive, FreshInv
<1>5. AgentInv(t)'
  BY DEF TurnInv, AgentInv, Alive, FreshInv, LeaseInv, Late
<1>6. RecordInv(t)'
  BY DEF TurnInv, RecordInv, Alive, FreshInv, AgentInv
<1>7. KeyInv(t)'
  BY DEF TurnInv, KeyInv, Alive, FreshInv
<1>8. BackedInv(t)'
  BY DEF TurnInv, BackedInv, Alive, FreshInv, LeaseInv, AgentInv
<1>9. Stays(t)
  BY DEF Stays
<1> QED
  BY <1>1, <1>2, <1>3, <1>4, <1>5, <1>6, <1>7, <1>8, <1>9 DEF Keeps, TurnInv

\* A handler without a stream takes the turn out: it has no agent.
LEMMA HandlerReturning ==
  ASSUME TypeOK, NEW t \in Turn, TurnInv(t), HandlerReturns(t)
  PROVE  Keeps(t) /\ Stays(t)
<1>1. /\ at[t] = "handler" /\ at'[t] = "over" /\ lease'[t] = "released"
      /\ agent'[t] = agent[t]
      /\ records'[t] = records[t] /\ session'[t] = session[t] /\ (t \in creates' <=> t \in creates)
      /\ callbacks'[t] = IF Alive(t) THEN callbacks[t] \cup {"drop"} ELSE callbacks[t]
      /\ t \in ledger' <=> t \in ledger /\ Alive(t)
      /\ t \in dropping' <=> t \in dropping
      /\ t \in detached' <=> t \in detached
      /\ t \in unreachable' <=> t \in unreachable
      /\ t \in keys' <=> t \in keys
  BY RegisteredCalls, ReleaseEffect DEF HandlerReturns, TypeOK
<1>2. \A u \in Turn \ {t} : Same(u)
  BY <1>1, RegisteredCalls, ReleaseEffect DEF HandlerReturns, TypeOK, Same
<1>3. TypeOK'
  <2>1. ledger' \subseteq Turn /\ callbacks' \in [Turn -> SUBSET Calls]
    BY RegisteredCalls, ReleaseEffect DEF HandlerReturns, TypeOK
  <2> QED
    BY <2>1 DEF HandlerReturns, TypeOK, Places, Calls
<1>4. FreshInv(t)'
  BY <1>1 DEF TurnInv, FreshInv, Alive
<1>5. LeaseInv(t)'
  BY <1>1 DEF TurnInv, LeaseInv, Alive, FreshInv
<1>6. AgentInv(t)'
  BY <1>1 DEF TurnInv, AgentInv, Alive, FreshInv, LeaseInv, Late
<1>7. RecordInv(t)'
  BY <1>1 DEF TurnInv, RecordInv, Alive, FreshInv, AgentInv
<1>8. KeyInv(t)'
  BY <1>1 DEF TurnInv, KeyInv, Alive, FreshInv
<1>9. BackedInv(t)'
  BY <1>1 DEF TurnInv, BackedInv, Alive, FreshInv, LeaseInv, AgentInv
<1>10. Stays(t)
  BY <1>1 DEF Stays
<1> QED
  BY <1>2, <1>3, <1>4, <1>5, <1>6, <1>7, <1>8, <1>9, <1>10 DEF Keeps, TurnInv

\* So does the timer of a lease whose stream has not started.
LEMMA Expiring ==
  ASSUME TypeOK, NEW t \in Turn, TurnInv(t), Expire(t)
  PROVE  Keeps(t) /\ Stays(t)
<1>1. /\ at[t] = "handed" /\ at'[t] = "handed" /\ lease'[t] = "expired"
      /\ agent'[t] = agent[t]
      /\ records'[t] = records[t] /\ session'[t] = session[t] /\ (t \in creates' <=> t \in creates)
      /\ callbacks'[t] = IF Alive(t) THEN callbacks[t] \cup {"drop"} ELSE callbacks[t]
      /\ t \in ledger' <=> t \in ledger /\ Alive(t)
      /\ t \in dropping' <=> t \in dropping
      /\ t \in detached' <=> t \in detached
      /\ t \in unreachable' <=> t \in unreachable
      /\ t \in keys' <=> t \in keys
  BY RegisteredCalls, ReleaseEffect DEF Expire, TypeOK
<1>2. \A u \in Turn \ {t} : Same(u)
  BY <1>1, RegisteredCalls, ReleaseEffect DEF Expire, TypeOK, Same
<1>3. TypeOK'
  <2>1. ledger' \subseteq Turn /\ callbacks' \in [Turn -> SUBSET Calls]
    BY RegisteredCalls, ReleaseEffect DEF Expire, TypeOK
  <2> QED
    BY <2>1 DEF Expire, TypeOK, Places, Calls
<1>4. FreshInv(t)'
  BY <1>1 DEF TurnInv, FreshInv, Alive
<1>5. LeaseInv(t)'
  BY <1>1 DEF TurnInv, LeaseInv, Alive, FreshInv
<1>6. AgentInv(t)'
  BY <1>1 DEF TurnInv, AgentInv, Alive, FreshInv, LeaseInv, Late
<1>7. RecordInv(t)'
  BY <1>1 DEF TurnInv, RecordInv, Alive, FreshInv, AgentInv
<1>8. KeyInv(t)'
  BY <1>1 DEF TurnInv, KeyInv, Alive, FreshInv
<1>9. BackedInv(t)'
  BY <1>1 DEF TurnInv, BackedInv, Alive, FreshInv, LeaseInv, AgentInv
<1>10. Stays(t)
  BY <1>1 DEF Stays
<1> QED
  BY <1>2, <1>3, <1>4, <1>5, <1>6, <1>7, <1>8, <1>9, <1>10 DEF Keeps, TurnInv

\* The stream has been read to its end.
LEMMA StreamEnding ==
  ASSUME TypeOK, NEW t \in Turn, TurnInv(t), StreamEnds(t)
  PROVE  Keeps(t) /\ Stays(t)
<1>1. /\ at[t] = "tail" /\ at'[t] = "over"
      /\ agent'[t] = agent[t]
      /\ records'[t] = records[t] /\ session'[t] = session[t] /\ (t \in creates' <=> t \in creates)
      /\ lease[t] \in {"held", "handed"} =>
           /\ lease'[t] = "released" /\ (t \in ledger' <=> t \in ledger /\ Alive(t))
           /\ callbacks'[t] = IF Alive(t) THEN callbacks[t] \cup {"drop"} ELSE callbacks[t]
      /\ lease[t] \notin {"held", "handed"} =>
           /\ lease'[t] = lease[t] /\ (t \in ledger' <=> t \in ledger)
           /\ callbacks'[t] = callbacks[t]
      /\ t \in dropping' <=> t \in dropping
      /\ t \in detached' <=> t \in detached
      /\ t \in unreachable' <=> t \in unreachable
      /\ t \notin keys'
  BY RegisteredCalls, LeaseEndsEffect DEF StreamEnds, FreeKey, TypeOK
<1>2. \A u \in Turn \ {t} : Same(u)
  BY <1>1, RegisteredCalls, LeaseEndsEffect, ZenonT(30) DEF StreamEnds, FreeKey, TypeOK, Same
<1>3. TypeOK'
  <2>1. ledger' \subseteq Turn /\ callbacks' \in [Turn -> SUBSET Calls] /\ lease' \in [Turn -> Leases]
    BY RegisteredCalls, LeaseEndsEffect DEF StreamEnds, FreeKey, TypeOK
  <2> QED
    BY <2>1, ZenonT(30) DEF StreamEnds, FreeKey, TypeOK, Places, Calls, Leases
<1>4. FreshInv(t)'
  BY <1>1 DEF TurnInv, FreshInv, Alive
<1>5. LeaseInv(t)'
  BY <1>1 DEF TurnInv, LeaseInv, Alive, FreshInv
<1>6. AgentInv(t)'
  BY <1>1 DEF TurnInv, AgentInv, Alive, FreshInv, LeaseInv, Late
<1>7. RecordInv(t)'
  BY <1>1 DEF TurnInv, RecordInv, Alive, FreshInv, AgentInv
<1>8. KeyInv(t)'
  BY <1>1 DEF TurnInv, KeyInv, Alive, FreshInv
<1>9. BackedInv(t)'
  BY <1>1 DEF TurnInv, BackedInv, Alive, FreshInv, LeaseInv, AgentInv
<1>10. Stays(t)
  BY <1>1 DEF Stays
<1> QED
  BY <1>2, <1>3, <1>4, <1>5, <1>6, <1>7, <1>8, <1>9, <1>10 DEF Keeps, TurnInv

\* The outer generator is closed first.
LEMMA LosingOutside ==
  ASSUME TypeOK, NEW t \in Turn, TurnInv(t), DisconnectOutside(t)
  PROVE  Keeps(t) /\ Stays(t)
<1>1. /\ at[t] \in {"stream", "tail"} /\ at'[t] = "unwinding"
      /\ agent'[t] = agent[t]
      /\ records'[t] = records[t] /\ session'[t] = session[t] /\ (t \in creates' <=> t \in creates)
      /\ lease[t] \in {"held", "handed"} =>
           /\ lease'[t] = "released" /\ (t \in ledger' <=> t \in ledger /\ Alive(t))
           /\ callbacks'[t] = IF Alive(t) THEN callbacks[t] \cup {"drop"} ELSE callbacks[t]
      /\ lease[t] \notin {"held", "handed"} =>
           /\ lease'[t] = lease[t] /\ (t \in ledger' <=> t \in ledger)
           /\ callbacks'[t] = callbacks[t]
      /\ t \in dropping' <=> t \in dropping
      /\ t \in detached' <=> t \in detached
      /\ t \in unreachable' <=> t \in unreachable
      /\ t \in keys' <=> t \in keys
  BY RegisteredCalls, LeaseEndsEffect DEF DisconnectOutside, TypeOK
<1>2. \A u \in Turn \ {t} : Same(u)
  BY <1>1, RegisteredCalls, LeaseEndsEffect, ZenonT(30) DEF DisconnectOutside, TypeOK, Same
<1>3. TypeOK'
  <2>1. ledger' \subseteq Turn /\ callbacks' \in [Turn -> SUBSET Calls] /\ lease' \in [Turn -> Leases]
    BY RegisteredCalls, LeaseEndsEffect DEF DisconnectOutside, TypeOK
  <2> QED
    BY <2>1 DEF DisconnectOutside, TypeOK, Places, Calls, Leases
<1>4. FreshInv(t)'
  BY <1>1 DEF TurnInv, FreshInv, Alive
<1>5. LeaseInv(t)'
  BY <1>1 DEF TurnInv, LeaseInv, Alive, FreshInv
<1>6. AgentInv(t)'
  BY <1>1 DEF TurnInv, AgentInv, Alive, FreshInv, LeaseInv, Late
<1>7. RecordInv(t)'
  BY <1>1 DEF TurnInv, RecordInv, Alive, FreshInv, AgentInv
<1>8. KeyInv(t)'
  BY <1>1 DEF TurnInv, KeyInv, Alive, FreshInv
<1>9. BackedInv(t)'
  BY <1>1 DEF TurnInv, BackedInv, Alive, FreshInv, LeaseInv, AgentInv
<1>10. Stays(t)
  BY <1>1 DEF Stays
<1> QED
  BY <1>2, <1>3, <1>4, <1>5, <1>6, <1>7, <1>8, <1>9, <1>10 DEF Keeps, TurnInv

\* Then the inner one hands its agent over, or cancels it.
LEMMA InnerClosing ==
  ASSUME TypeOK, NEW t \in Turn, TurnInv(t), InnerCloses(t)
  PROVE  Keeps(t) /\ Stays(t)
<1> DEFINE left == Alive(t) /\ t \in staged
<1>0. /\ at[t] = "unwinding" /\ at' = [at EXCEPT ![t] = "over"]
      /\ keys' = keys \ {t} /\ flagged' = flagged \ {t}
      /\ detached' = IF left THEN detached \cup {t} ELSE detached
      /\ unreachable' = IF left THEN unreachable \cup {t} ELSE unreachable
      /\ callbacks' = IF left THEN [callbacks EXCEPT ![t] = @ \cup {"record"}] ELSE callbacks
      /\ agent' = IF Alive(t) /\ ~ left THEN [agent EXCEPT ![t] = "cancelling"] ELSE agent
      /\ UNCHANGED <<lease, session, creates, ledger, staged, dropping, records, shutdown>>
  BY DEF InnerCloses, FreeKey
<1>1. /\ at[t] = "unwinding" /\ at'[t] = "over" /\ lease'[t] = lease[t] /\ (t \in ledger' <=> t \in ledger)
      /\ records'[t] = records[t] /\ session'[t] = session[t] /\ (t \in creates' <=> t \in creates)
      /\ callbacks'[t] = IF left THEN callbacks[t] \cup {"record"} ELSE callbacks[t]
      /\ agent'[t] = IF Alive(t) /\ ~ left THEN "cancelling" ELSE agent[t]
      /\ t \notin keys'
      /\ t \in detached' <=> t \in detached \/ left
      /\ t \in unreachable' <=> t \in unreachable \/ left
      /\ left => Alive(t)
      /\ t \in dropping' <=> t \in dropping
  BY <1>0 DEF TypeOK
<1>2. \A u \in Turn \ {t} : Same(u)
  BY <1>0 DEF TypeOK, Same
<1>3. TypeOK'
  <2>1. agent' \in [Turn -> Agents]
    BY <1>0 DEF TypeOK, Agents
  <2>2. callbacks' \in [Turn -> SUBSET Calls]
    BY <1>0 DEF TypeOK, Calls
  <2>3. keys' \cup detached' \cup unreachable' \subseteq Turn /\ flagged' \subseteq keys'
    BY <1>0 DEF TypeOK
  <2>4. at' \in [Turn -> Places]
    BY <1>0 DEF TypeOK, Places
  <2> HIDE DEF left
  <2> QED
    BY <1>0, <2>1, <2>2, <2>3, <2>4 DEF TypeOK, Calls, Agents
<1> HIDE DEF left
<1>4. FreshInv(t)'
  BY <1>1 DEF TurnInv, FreshInv, Alive
<1>5. LeaseInv(t)'
  BY <1>1 DEF TurnInv, LeaseInv, Alive, FreshInv
<1>6. AgentInv(t)'
  BY <1>1 DEF TurnInv, AgentInv, Alive, FreshInv, LeaseInv, Late
<1>7. RecordInv(t)'
  BY <1>1 DEF TurnInv, RecordInv, Alive, FreshInv, AgentInv
<1>8. KeyInv(t)'
  BY <1>1 DEF TurnInv, KeyInv, Alive, FreshInv
<1>9. BackedInv(t)'
  BY <1>1 DEF TurnInv, BackedInv, Alive, FreshInv, LeaseInv, AgentInv
<1>10. Stays(t)
  BY <1>1 DEF Stays
<1> QED
  BY <1>2, <1>3, <1>4, <1>5, <1>6, <1>7, <1>8, <1>9, <1>10 DEF Keeps, TurnInv

\* Both in the other order: the agent is handed over before the lease ends.
LEMMA LosingInside ==
  ASSUME TypeOK, NEW t \in Turn, TurnInv(t), DisconnectInside(t)
  PROVE  Keeps(t) /\ Stays(t)
<1>1. /\ at[t] \in {"stream", "tail"} /\ at'[t] = "over"
      /\ records'[t] = records[t] /\ session'[t] = session[t] /\ (t \in creates' <=> t \in creates)
      /\ lease[t] \in {"held", "handed"} =>
           /\ lease'[t] = "released" /\ (t \in ledger' <=> t \in ledger /\ Alive(t))
           /\ callbacks'[t] = IF Alive(t) THEN Registered(t) \cup {"drop"} ELSE Registered(t)
      /\ lease[t] \notin {"held", "handed"} =>
           /\ lease'[t] = lease[t] /\ (t \in ledger' <=> t \in ledger)
           /\ callbacks'[t] = Registered(t)
      /\ agent'[t] = IF Alive(t) /\ ~ Detaches(t) THEN "cancelling" ELSE agent[t]
      /\ t \in keys' <=> t \in keys /\ Detaches(t)
      /\ t \in detached' <=> t \in detached \/ Detaches(t)
      /\ t \in unreachable' <=> t \in unreachable
      /\ "record" \in Registered(t) <=> "record" \in callbacks[t] \/ Detaches(t)
      /\ "drop" \in Registered(t) <=> "drop" \in callbacks[t]
      /\ ~ Detaches(t) => Registered(t) = callbacks[t]
      /\ Detaches(t) => Alive(t)
      /\ t \in dropping' <=> t \in dropping
  BY RegisteredCalls, LeaseEndsEffect, InnerFinallyEffect, ZenonT(30) DEF DisconnectInside, TypeOK
<1>2. \A u \in Turn \ {t} : Same(u)
  BY <1>1, RegisteredCalls, LeaseEndsEffect, InnerFinallyEffect, ZenonT(30) DEF DisconnectInside, TypeOK, Same
<1>3. TypeOK'
  <2>1. /\ ledger' \subseteq Turn /\ callbacks' \in [Turn -> SUBSET Calls] /\ lease' \in [Turn -> Leases]
        /\ agent' \in [Turn -> Agents] /\ keys' \cup detached' \subseteq Turn /\ flagged' \subseteq keys'
    BY RegisteredCalls, LeaseEndsEffect, InnerFinallyEffect DEF DisconnectInside, TypeOK
  <2> QED
    BY <2>1 DEF DisconnectInside, TypeOK, Places, Calls, Leases, Agents
<1>4. FreshInv(t)'
  BY <1>1 DEF TurnInv, FreshInv, Alive
<1>5. LeaseInv(t)'
  BY <1>1 DEF TurnInv, LeaseInv, Alive, FreshInv
<1>6. AgentInv(t)'
  BY <1>1 DEF TurnInv, AgentInv, Alive, FreshInv, LeaseInv, Late
<1>7. RecordInv(t)'
  BY <1>1 DEF TurnInv, RecordInv, Alive, FreshInv, AgentInv
<1>8. KeyInv(t)'
  BY <1>1 DEF TurnInv, KeyInv, Alive, FreshInv
<1>9. BackedInv(t)'
  BY <1>1 DEF TurnInv, BackedInv, Alive, FreshInv, LeaseInv, AgentInv
<1>10. Stays(t)
  BY <1>1 DEF Stays
<1> QED
  BY <1>2, <1>3, <1>4, <1>5, <1>6, <1>7, <1>8, <1>9, <1>10 DEF Keeps, TurnInv

\* The end of the stream records the turn, once.
LEMMA Finalizing ==
  ASSUME TypeOK, NEW t \in Turn, TurnInv(t), Finalize(t)
  PROVE  Keeps(t) /\ Stays(t)
<1>0. records[t] = 0 /\ records[t] + 1 = 1
  BY DEF Finalize, TurnInv, RecordInv
<1>1. /\ at[t] = "stream" /\ at'[t] = "tail" /\ ~ Alive(t) /\ records[t] = 0 /\ records'[t] = 1
      /\ agent'[t] = agent[t] /\ session'[t] = session[t] /\ (t \in creates' <=> t \in creates)
      /\ lease'[t] = lease[t] /\ (t \in ledger' <=> t \in ledger) /\ callbacks'[t] = callbacks[t]
      /\ t \in dropping' <=> t \in dropping
      /\ t \in detached' <=> t \in detached
      /\ t \in unreachable' <=> t \in unreachable
      /\ t \in keys' <=> t \in keys
  BY <1>0 DEF Finalize, TypeOK
<1>2. \A u \in Turn \ {t} : Same(u)
  BY <1>1, <1>0 DEF Finalize, TypeOK, Same
<1>3. TypeOK'
  BY <1>1 DEF Finalize, TypeOK, Places
<1>4. FreshInv(t)'
  BY <1>1 DEF TurnInv, FreshInv, Alive
<1>5. LeaseInv(t)'
  BY <1>1 DEF TurnInv, LeaseInv, Alive, FreshInv
<1>6. AgentInv(t)'
  BY <1>1 DEF TurnInv, AgentInv, Alive, FreshInv, LeaseInv, Late
<1>7. RecordInv(t)'
  BY <1>1 DEF TurnInv, RecordInv, Alive, FreshInv, AgentInv
<1>8. KeyInv(t)'
  BY <1>1 DEF TurnInv, KeyInv, Alive, FreshInv
<1>9. BackedInv(t)'
  BY <1>1 DEF TurnInv, BackedInv, Alive, FreshInv, LeaseInv, AgentInv
<1>10. Stays(t)
  BY <1>1 DEF Stays
<1> QED
  BY <1>2, <1>3, <1>4, <1>5, <1>6, <1>7, <1>8, <1>9, <1>10 DEF Keeps, TurnInv

\* The agent's end frees the key, records the turn and drops it, in one step.
LEMMA CallingBack ==
  ASSUME TypeOK, NEW t \in Turn, TurnInv(t), RunCallbacks(t)
  PROVE  Keeps(t) /\ Stays(t)
<1>0. "record" \in callbacks[t] => records[t] + 1 = 1
  BY DEF TurnInv, RecordInv
<1>1. /\ agent[t] # "none" /\ ~ Alive(t) /\ callbacks[t] # {} /\ callbacks'[t] = {}
      /\ at'[t] = at[t]
      /\ records'[t] = IF "record" \in callbacks[t] /\ agent[t] = "answered" THEN 1 ELSE records[t]
      /\ agent'[t] = agent[t] /\ session'[t] = session[t] /\ (t \in creates' <=> t \in creates)
      /\ lease'[t] = lease[t] /\ (t \in ledger' <=> t \in ledger)
      /\ t \in dropping' <=> t \in dropping \/ "drop" \in callbacks[t]
      /\ t \in detached' <=> t \in detached
      /\ t \in unreachable' <=> t \in unreachable
      /\ t \in keys' <=> t \in keys /\ "free key" \notin callbacks[t]
  BY <1>0 DEF RunCallbacks, FreeKey, TypeOK
<1>2. \A u \in Turn \ {t} : Same(u)
  BY <1>1, <1>0, ZenonT(30) DEF RunCallbacks, FreeKey, TypeOK, Same
<1>3. TypeOK'
  <2>1. records' \in [Turn -> {0, 1}]
    BY <1>0 DEF RunCallbacks, TypeOK
  <2>2. keys' \cup dropping' \subseteq Turn /\ flagged' \subseteq keys'
    BY DEF RunCallbacks, FreeKey, TypeOK
  <2>3. callbacks' \in [Turn -> SUBSET Calls]
    BY DEF RunCallbacks, TypeOK, Calls
  <2> QED
    BY <2>1, <2>2, <2>3 DEF RunCallbacks, TypeOK, Calls
<1>4. FreshInv(t)'
  BY <1>1 DEF TurnInv, FreshInv, Alive
<1>5. LeaseInv(t)'
  BY <1>1 DEF TurnInv, LeaseInv, Alive, FreshInv
<1>6. AgentInv(t)'
  BY <1>1 DEF TurnInv, AgentInv, Alive, FreshInv, LeaseInv, Late
<1>7. RecordInv(t)'
  BY <1>1 DEF TurnInv, RecordInv, Alive, FreshInv, AgentInv
<1>8. KeyInv(t)'
  BY <1>1 DEF TurnInv, KeyInv, Alive, FreshInv
<1>9. BackedInv(t)'
  BY <1>1 DEF TurnInv, BackedInv, Alive, FreshInv, LeaseInv, AgentInv
<1>10. Stays(t)
  BY <1>1 DEF Stays
<1> QED
  BY <1>2, <1>3, <1>4, <1>5, <1>6, <1>7, <1>8, <1>9, <1>10 DEF Keeps, TurnInv

\* try_admit: a request comes in only where the ledger has nobody it would meet.
LEMMA Arriving ==
  ASSUME TypeOK, LedgerInv, NEW t \in Turn, TurnInv(t),
         NEW s \in Session \cup {NoId}, NEW c \in BOOLEAN, Arrive(t, s, c)
  PROVE  Keeps(t) /\ LedgerInv'
<1>0. /\ at[t] = "none" /\ session' = [session EXCEPT ![t] = s]
      /\ creates' = IF c THEN creates \cup {t} ELSE creates
      /\ UNCHANGED <<agent, staged, callbacks, dropping, keys, flagged, detached, records,
                   unreachable, shutdown>>
  BY DEF Arrive
<1>1. /\ agent'[t] = agent[t] /\ records'[t] = records[t]
      /\ callbacks'[t] = callbacks[t] /\ (t \in dropping' <=> t \in dropping)
      /\ (t \in keys' <=> t \in keys) /\ (t \in detached' <=> t \in detached)
      /\ (t \in unreachable' <=> t \in unreachable)
  BY <1>0
<1>2. agent[t] = "none" /\ callbacks[t] = {} /\ t \notin ledger /\ t \notin creates
  BY <1>0 DEF TurnInv, FreshInv, LeaseInv, BackedInv
<1>3. session'[t] = s /\ \A u \in Turn \ {t} : session'[u] = session[u]
  BY <1>0 DEF TypeOK
<1>4. \A u \in Turn \ {t} : u \in creates' <=> u \in creates
  BY <1>0
<1>5. session' \in [Turn -> Session \cup {NoId}] /\ creates' \subseteq Turn
  BY <1>0 DEF TypeOK
<1>6. CASE Busy(s, c)
  <2>1. /\ ledger' = ledger
        /\ at' = [at EXCEPT ![t] = "refused"] /\ lease' = [lease EXCEPT ![t] = "released"]
    BY <1>6 DEF Arrive
  <2>2. at'[t] = "refused" /\ lease'[t] = "released"
    BY <2>1 DEF TypeOK
  <2>3. TypeOK'
    BY <1>0, <1>5, <2>1 DEF TypeOK, Places
  <2>4. \A u \in Turn \ {t} : Same(u)
    BY <1>0, <1>3, <1>4, <2>1 DEF Same, TypeOK
  <2>5. TurnInv(t)'
    BY <1>0, <1>1, <1>2, <2>1, <2>2
       DEF TurnInv, FreshInv, LeaseInv, AgentInv, RecordInv, KeyInv, BackedInv, Alive, Late
  <2>6. LedgerInv'
    <3>1. \A u \in ledger' : u \in Turn \ {t} /\ u \in ledger
      BY <1>2, <2>1 DEF TypeOK
    <3> QED
      BY <1>3, <1>4, <3>1 DEF LedgerInv
  <2> QED
    BY <2>3, <2>4, <2>5, <2>6 DEF Keeps
<1>7. CASE ~ Busy(s, c)
  <2>1. /\ ledger' = ledger \cup {t}
        /\ at' = [at EXCEPT ![t] = "handler"] /\ lease' = [lease EXCEPT ![t] = "held"]
    BY <1>7 DEF Arrive
  <2>2. at'[t] = "handler" /\ lease'[t] = "held"
    BY <2>1 DEF TypeOK
  <2>3. TypeOK'
    <3>1. /\ at' \in [Turn -> Places]
          /\ lease' \in [Turn -> {"none", "held", "handed", "expired", "released"}]
      BY <2>1 DEF TypeOK, Places
    <3>2. ledger' \subseteq Turn /\ flagged \subseteq keys
      BY <2>1 DEF TypeOK
    <3> QED
      BY <1>0, <1>5, <3>1, <3>2 DEF TypeOK
  <2>4. \A u \in Turn \ {t} : Same(u)
    BY <1>0, <1>3, <1>4, <2>1 DEF Same, TypeOK
  <2>5. TurnInv(t)'
    BY <1>0, <1>1, <1>2, <2>1, <2>2
       DEF TurnInv, FreshInv, LeaseInv, AgentInv, RecordInv, KeyInv, BackedInv, Alive, Late
  <2>6. \A u \in ledger : /\ session[u] # s \/ s = NoId
                         /\ ~ (t \in creates' /\ u \in creates)
    BY <1>0, <1>2, <1>7 DEF Busy
  <2>7. LedgerInv'
    <3>1. \A u \in ledger : u \in Turn \ {t} /\ (u \in creates' <=> u \in creates)
                          /\ session'[u] = session[u]
      BY <1>2, <1>3, <1>4 DEF TypeOK
    <3> QED
      BY <1>3, <2>1, <2>6, <3>1 DEF LedgerInv
  <2> QED
    BY <2>3, <2>4, <2>5, <2>7 DEF Keeps
<1> QED
  BY <1>6, <1>7

-----------------------------------------------------------------------------

\* What a turn's step does to it is done to no other.
LEMMA OthersKeep ==
  ASSUME NEW u \in Turn, TurnInv(u), Same(u)
  PROVE  TurnInv(u)'
BY DEF Same, TurnInv, FreshInv, LeaseInv, AgentInv, RecordInv, KeyInv, BackedInv, Alive, Late

\* A turn that only leaves the ledger meets nobody new in it.
LEMMA StaysApart ==
  ASSUME TypeOK, LedgerInv, NEW t \in Turn, Keeps(t), Stays(t)
  PROVE  LedgerInv'
<1>1. ledger' \subseteq Turn
  BY DEF Keeps, TypeOK
<1>2. \A u \in ledger' : u \in ledger /\ session'[u] = session[u] /\ (u \in creates' => u \in creates)
  BY <1>1 DEF Keeps, Stays, Same
<1> QED
  BY <1>2 DEF LedgerInv

TurnStep(t) ==
  \/ Requested(t) \/ HandlerStep(t) \/ Expire(t) \/ StreamStep(t)
  \/ AgentStep(t) \/ CancelSeen(t) \/ DisconnectInside(t)
  \/ DisconnectOutside(t) \/ RunCallbacks(t) \/ Drop(t) \/ RequestCancel(t)

LEMMA TurnStepKeeps ==
  ASSUME IInv, NEW t \in Turn, TurnStep(t)
  PROVE  IInv'
<1> USE DEF IInv
<1>1. Keeps(t) /\ LedgerInv'
  <2>1. CASE Requested(t)
    BY <2>1, Arriving DEF Requested
  <2>2. ASSUME Keeps(t), Stays(t) PROVE Keeps(t) /\ LedgerInv'
    BY <2>2, StaysApart
  <2>3. CASE HandlerStep(t)
    BY <2>2, <2>3, HandlerReturning, HandingOver, StreamStarting DEF HandlerStep
  <2>4. CASE StreamStep(t)
    BY <2>2, <2>4, Finalizing, StreamEnding, InnerClosing DEF StreamStep
  <2>5. CASE AgentStep(t)
    BY <2>2, <2>5, AgentStarting, AgentEnding DEF AgentStep
  <2>6. CASE Expire(t) \/ CancelSeen(t)
    BY <2>2, <2>6, Expiring, SeeingCancel
  <2>7. CASE DisconnectInside(t) \/ DisconnectOutside(t)
    BY <2>2, <2>7, LosingInside, LosingOutside
  <2>8. CASE RunCallbacks(t) \/ Drop(t) \/ RequestCancel(t)
    BY <2>2, <2>8, CallingBack, Dropping, Cancelling
  <2> QED
    BY <2>1, <2>3, <2>4, <2>5, <2>6, <2>7, <2>8 DEF TurnStep
<1>2. ASSUME NEW u \in Turn PROVE TurnInv(u)'
  <2>1. CASE u = t
    BY <1>1, <2>1 DEF Keeps
  <2>2. CASE u # t
    BY <1>1, <2>2, OthersKeep DEF Keeps
  <2> QED
    BY <2>1, <2>2
<1> QED
  BY <1>1, <1>2 DEF Keeps

\* A shutdown raises flags and waits: it changes nothing else.
LEMMA ShutdownKeeps ==
  ASSUME IInv, AskShutdown \/ CancelAll \/ TurnsFinished
  PROVE  IInv'
<1> USE DEF IInv, AskShutdown, CancelAll, TurnsFinished, turnVars
<1>1. TypeOK'
  BY DEF TypeOK
<1>2. \A u \in Turn : Same(u)
  BY DEF Same
<1>3. LedgerInv'
  BY DEF LedgerInv
<1> QED
  BY <1>1, <1>2, <1>3, OthersKeep

LEMMA IInvHolds == Spec => []IInv
<1>1. Init => IInv
  <2> SUFFICES ASSUME Init PROVE IInv
    OBVIOUS
  <2>1. TypeOK
    BY DEF Init, TypeOK, Places
  <2>2. LedgerInv
    BY DEF Init, LedgerInv
  <2>3. ASSUME NEW t \in Turn PROVE TurnInv(t)
    BY DEF Init, TurnInv, FreshInv, LeaseInv, AgentInv, RecordInv, KeyInv, BackedInv, Alive, Late
  <2> QED
    BY <2>1, <2>2, <2>3 DEF IInv
<1>2. IInv /\ [Next]_vars => IInv'
  <2> SUFFICES ASSUME IInv, [Next]_vars PROVE IInv'
    OBVIOUS
  <2>1. ASSUME NEW t \in Turn, TurnStep(t) PROVE IInv'
    BY <2>1, TurnStepKeeps
  <2>2. CASE AskShutdown \/ CancelAll \/ TurnsFinished
    BY <2>2, ShutdownKeeps
  <2>3. CASE UNCHANGED vars
    <3> USE <2>3 DEF vars
    <3>1. TypeOK' /\ LedgerInv'
      BY DEF IInv, TypeOK, LedgerInv
    <3>2. \A u \in Turn : Same(u)
      BY DEF Same
    <3> QED
      BY <3>1, <3>2, OthersKeep DEF IInv
  <2> QED
    BY <2>1, <2>2, <2>3 DEF Next, TurnStep
<1> QED
  BY <1>1, <1>2, PTL DEF Spec

-----------------------------------------------------------------------------

\* The state of the admission is well typed, a turn's count of records included.
THEOREM TurnsTyped == Spec => []TypeOK
<1>1. IInv => TypeOK
  BY DEF IInv
<1> QED
  BY <1>1, IInvHolds, PTL

\* Two turns of one session, or two create turns, never work at once, but for a
\* stream that started too late (TurnAdmission, try_admit).
THEOREM TurnsExclude == Spec => []Exclusive
<1>1. IInv => Exclusive
  <2> SUFFICES ASSUME IInv, NEW t \in Turn, NEW u \in Turn, t # u,
                      Working(t), Working(u), ~ Late(t), ~ Late(u)
               PROVE  /\ session[t] # session[u] \/ session[t] = NoId
                      /\ ~ (t \in creates /\ u \in creates)
    BY DEF Exclusive
  <2>1. ASSUME NEW v \in Turn, Working(v), ~ Late(v) PROVE v \in ledger
    <3>1. TurnInv(v) /\ at[v] \in Places
      BY DEF IInv, TypeOK
    <3> QED
      BY <2>1, <3>1 DEF TurnInv, FreshInv, LeaseInv, AgentInv, Working, Late, Alive, Places
  <2> QED
    BY <2>1 DEF IInv, LedgerInv
<1> QED
  BY <1>1, IInvHolds, PTL

\* An agent that works can be cancelled (cancel_scope, retain_cancel_scope), but
\* for one detached by a generator that the loop closed.
THEOREM CancelAlwaysReaches == Spec => []CancelReaches
<1>1. IInv => CancelReaches
  BY DEF IInv, TurnInv, KeyInv, CancelReaches
<1> QED
  BY <1>1, IInvHolds, PTL

\* No turn is recorded twice, none that ends or is answered once detached is not
\* recorded (stream_meta_cognitive, _detach_agent_task).
THEOREM TurnsRecordedOnce == Spec => []RecordedOnce
<1>1. IInv => RecordedOnce
  <2> SUFFICES ASSUME IInv, NEW t \in Turn
               PROVE  /\ records[t] <= 1
                      /\ at[t] = "tail" => records[t] = 1
                      /\ t \in detached /\ agent[t] = "answered" /\ callbacks[t] = {}
                           => records[t] = 1
    BY DEF RecordedOnce
  <2>1. records[t] \in {0, 1} /\ RecordInv(t)
    BY DEF IInv, TypeOK, TurnInv
  <2> QED
    BY <2>1 DEF RecordInv
<1> QED
  BY <1>1, IInvHolds, PTL

\* Whoever is in the ledger has somebody to take it out (TurnAdmission.release).
THEOREM LedgerIsBacked == Spec => []LedgerBacked
<1>1. IInv => LedgerBacked
  BY DEF IInv, TypeOK, TurnInv, BackedInv, LedgerBacked
<1> QED
  BY <1>1, IInvHolds, PTL

\* A shutdown goes on only when no agent works and no record is to come, but for
\* the same exception (_wait_turns_finished).
THEOREM ShutdownHasWaited == Spec => ShutdownWaits
<1>1. IInv /\ [Next]_vars =>
        [TurnsFinished => \A t \in Turn \ unreachable :
                            agent[t] # "working" /\ "record" \notin callbacks[t]]_vars
  BY DEF IInv, TurnInv, KeyInv, TurnsFinished
<1> QED
  BY <1>1, IInvHolds, PTL DEF Spec, ShutdownWaits
=============================================================================
