----------------------------- MODULE WebProofs ------------------------------
(***************************************************************************)
(* Proofs about Web, for any number of requests and threads: its type      *)
(* invariant, LockIsBrief, and what its liveness rests on.  The argument:  *)
(* what a thread has left to do is always bracketed, each "acquire"        *)
(* followed at once by its "release", and an operation that may wait comes *)
(* between no two of them.                                                 *)
(***************************************************************************)
EXTENDS Web, SequenceTheorems, FiniteSetTheorems, TLAPS

Bracketed(s) ==
  \A i \in 1..Len(s) : /\ s[i] = "acquire" => i < Len(s) /\ s[i + 1] = "release"
                       /\ s[i] = "release" /\ i > 1 => s[i - 1] = "acquire"

\* A list of operations that nobody has begun on.
Whole(s) == /\ s \in Seq(Operations)
            /\ Bracketed(s)
            /\ s # <<>> => Head(s) # "release"

\* What every thread has left to do, with the queries and the lock.
Listed == /\ todo \in [Threads -> Seq(Operations)]
          /\ \A t \in Threads : Bracketed(todo[t])
          /\ querying \subseteq Threads
          /\ \A t \in querying : todo[t] # <<>> /\ Head(todo[t]) = "mysql"
          /\ LockIsBrief

\* A request whose handler has not begun has nothing to do yet.
Idle == \A r \in Requests :
          place[r] \in {"none", "arrived", "authenticated"} => todo[r] = <<>>

IInv == TypeOK /\ Idle /\ Listed

-----------------------------------------------------------------------------

LEMMA TailBracketed ==
  ASSUME NEW s \in Seq(Operations), s # <<>>, Bracketed(s)
  PROVE  /\ Tail(s) \in Seq(Operations)
         /\ Bracketed(Tail(s))
         /\ Head(s) = "acquire" => Tail(s) # <<>> /\ Head(Tail(s)) = "release"
         /\ Head(s) # "acquire" /\ Tail(s) # <<>> => Head(Tail(s)) # "release"
<1>1. Tail(s) \in Seq(Operations) /\ Len(Tail(s)) = Len(s) - 1 /\ Len(s) \in Nat \ {0}
  OBVIOUS
<1>2. \A i \in 1..Len(Tail(s)) : Tail(s)[i] = s[i + 1]
  BY <1>1
<1>3. Bracketed(Tail(s))
  <2> SUFFICES ASSUME NEW i \in 1..Len(Tail(s))
               PROVE  /\ Tail(s)[i] = "acquire" =>
                           i < Len(Tail(s)) /\ Tail(s)[i + 1] = "release"
                      /\ Tail(s)[i] = "release" /\ i > 1 => Tail(s)[i - 1] = "acquire"
    BY DEF Bracketed
  <2>1. i + 1 \in 1..Len(s) /\ Tail(s)[i] = s[i + 1]
    BY <1>1, <1>2
  <2>2. ASSUME Tail(s)[i] = "acquire"
        PROVE  i < Len(Tail(s)) /\ Tail(s)[i + 1] = "release"
    <3>1. i + 1 < Len(s) /\ s[i + 2] = "release"
      BY <2>1, <2>2, <1>1 DEF Bracketed
    <3>2. i + 1 \in 1..Len(Tail(s))
      BY <3>1, <1>1
    <3> QED BY <3>1, <3>2, <1>1, <1>2
  <2>3. ASSUME Tail(s)[i] = "release", i > 1
        PROVE  Tail(s)[i - 1] = "acquire"
    <3>1. s[i] = "acquire"
      BY <2>1, <2>3, <1>1 DEF Bracketed
    <3>2. i - 1 \in 1..Len(Tail(s))
      BY <2>3, <1>1
    <3> QED BY <3>1, <3>2, <1>1, <1>2
  <2> QED BY <2>2, <2>3
<1>4. Head(s) = s[1] /\ (Tail(s) # <<>> => Head(Tail(s)) = s[2] /\ 2 \in 1..Len(s))
  BY <1>1, <1>2
<1>5. Head(s) = "acquire" => Tail(s) # <<>> /\ Head(Tail(s)) = "release"
  <2> SUFFICES ASSUME s[1] = "acquire"
               PROVE  Tail(s) # <<>> /\ Head(Tail(s)) = "release"
    BY <1>4
  <2>1. 1 < Len(s) /\ s[1 + 1] = "release"
    <3>1. 1 \in 1..Len(s)
      BY <1>1
    <3> QED BY <3>1 DEF Bracketed
  <2>2. Tail(s) # <<>>
    <3>1. Len(Tail(s)) # 0
      BY <2>1, <1>1
    <3> QED BY <3>1, <1>1, EmptySeq
  <2> QED BY <2>1, <2>2, <1>4
<1>6. Head(s) # "acquire" /\ Tail(s) # <<>> => Head(Tail(s)) # "release"
  BY <1>1, <1>4 DEF Bracketed
<1> QED BY <1>1, <1>3, <1>5, <1>6

LEMMA WholeLists ==
  /\ \A k \in Kinds : Whole(Work(k))
  /\ Whole(Boot)
  /\ Whole(Job)
  /\ Whole(<<"acquire", "release">>)
  /\ Whole(<<>>)
<1>1. Whole(<<>>)
  BY DEF Whole, Bracketed
<1>2. Whole(<<"acquire", "release">>)
  BY DEF Whole, Bracketed, Operations
<1>3. Whole(Boot)
  BY DEF Whole, Bracketed, Operations, Boot
<1>4. Whole(Job)
  BY DEF Whole, Bracketed, Operations, Job
<1>5. Whole(<<"mysql">>) /\ Whole(<<"web">>) /\ Whole(<<"web", "mysql">>)
  BY DEF Whole, Bracketed, Operations
<1>6. Whole(<<"mysql", "acquire", "release">>)
  BY DEF Whole, Bracketed, Operations
<1>7. Whole(<<"web", "mysql", "web", "mysql">>)
  BY DEF Whole, Bracketed, Operations
<1>8. ASSUME NEW k \in Kinds
      PROVE  Whole(Work(k))
  BY <1>1, <1>2, <1>5, <1>6, <1>7 DEF Kinds, Async, Sync, Work
<1> QED BY <1>1, <1>2, <1>3, <1>4, <1>8

LEMMA InitInvariant == Init => IInv
<1> SUFFICES ASSUME Init PROVE IInv
  OBVIOUS
<1>1. \A t \in Threads : Whole(todo[t])
  BY WholeLists DEF Init, Threads
<1>2. TypeOK
  BY <1>1, ThreadsAssumption DEF Init, TypeOK, Threads, Places, Whole
<1>3. LockIsBrief
  BY <1>1 DEF Init, LockIsBrief, Is, Whole
<1> QED BY <1>1, <1>2, <1>3, ThreadsAssumption DEF IInv, Idle, Listed, Whole, Init, Threads

-----------------------------------------------------------------------------
(* A thread gets a list that nobody has begun on, and waits for nothing. *)

LEMMA NewList ==
  ASSUME IInv, NEW t \in Threads, NEW s, Whole(s), ~Is(t, "release"),
         todo' = [todo EXCEPT ![t] = s], querying' \subseteq querying \ {t},
         UNCHANGED lock
  PROVE  Listed'
<1>1. todo \in [Threads -> Seq(Operations)] /\ querying \subseteq Threads
  BY DEF IInv, TypeOK
<1>2. /\ todo'[t] = s
      /\ \A u \in Threads \ {t} : todo'[u] = todo[u]
      /\ todo' \in [Threads -> Seq(Operations)]
  BY <1>1 DEF Whole
<1>3. \A u \in Threads : Bracketed(todo'[u])
  BY <1>2 DEF IInv, Listed, Whole
<1>4. \A u \in querying' : u # t /\ todo'[u] # <<>> /\ Head(todo'[u]) = "mysql"
  BY <1>1, <1>2 DEF IInv, TypeOK
<1>5. lock # None => lock # t /\ lock \in Threads
  BY DEF IInv, TypeOK, Listed, LockIsBrief
<1>6. LockIsBrief'
  <2>1. ASSUME NEW u \in Threads, Is(u, "release")'
        PROVE  lock' = u
    <3>1. u # t
      BY <2>1, <1>2 DEF Is, Whole
    <3>2. Is(u, "release")
      BY <2>1, <3>1, <1>2 DEF Is
    <3> QED BY <3>2 DEF IInv, Listed, LockIsBrief
  <2>2. lock' # None => Is(lock, "release")' /\ lock' \notin querying'
    BY <1>2, <1>5 DEF IInv, Listed, LockIsBrief, Is
  <2> QED BY <2>1, <2>2 DEF LockIsBrief, Threads
<1>7. querying' \subseteq Threads
  BY <1>1
<1> QED BY <1>2, <1>3, <1>4, <1>6, <1>7 DEF Listed, Threads

LEMMA Leftovers ==
  ASSUME IInv, NEW t \in Threads, Is(t, "mysql") \/ Is(t, "web")
  PROVE  Whole(Tail(todo[t])) /\ Whole(AfterFailure(t))
<1>1. todo[t] \in Seq(Operations) /\ todo[t] # <<>> /\ Bracketed(todo[t])
  BY DEF IInv, TypeOK, Listed, Is
<1>2. Whole(Tail(todo[t]))
  BY <1>1, TailBracketed DEF Whole, Is
<1>3. Whole(AfterFailure(t))
  BY <1>2, WholeLists DEF AfterFailure
<1> QED BY <1>2, <1>3

\* An operation leaves the requests where they are, and only a thread that has
\* something to do takes it.
LEMMA Stays ==
  ASSUME IInv, NEW t \in Threads, todo[t] # <<>>, UNCHANGED <<kind, place, loop, silent>>,
         \A u \in Threads \ {t} : todo'[u] = todo[u],
         Listed', lock' \in Threads \cup {None}
  PROVE  IInv'
<1>1. TypeOK'
  BY DEF IInv, TypeOK, Listed
<1>2. Idle'
  BY DEF IInv, Idle, Threads
<1> QED BY <1>1, <1>2 DEF IInv

LEMMA OperationKeeps ==
  ASSUME IInv, NEW t \in Threads, Operation(t)
  PROVE  IInv'
<1>1. /\ todo \in [Threads -> Seq(Operations)] /\ querying \subseteq Threads
      /\ lock \in Threads \cup {None}
      /\ \A u \in querying : Is(u, "mysql")
      /\ \A u \in Threads : Bracketed(todo[u])
  BY DEF IInv, TypeOK, Is, Listed
<1>2. CASE Connect(t)
  <2>1. LockIsBrief'
    BY <1>1, <1>2 DEF Connect, IInv, Listed, LockIsBrief, Is
  <2>2. Listed'
    BY <2>1, <1>1, <1>2 DEF Connect, Listed, Is, Threads
  <2> QED BY <2>2, <1>1, <1>2, Stays DEF Connect, Is
<1>3. CASE ConnectFails(t)
  <2>1. Whole(AfterFailure(t))
    BY <1>3, Leftovers DEF ConnectFails
  <2>2. Listed'
    BY <2>1, <1>3, NewList DEF ConnectFails, Fail, Is
  <2> QED BY <2>2, <1>1, <1>3, Stays DEF ConnectFails, Fail, Is
<1>4. CASE QueryEnds(t)
  <2>1. Is(t, "mysql")
    BY <1>1, <1>4 DEF QueryEnds
  <2>2. PICK s : Whole(s) /\ todo' = [todo EXCEPT ![t] = s]
    BY <2>1, <1>4, Leftovers DEF QueryEnds, Done, Fail
  <2>3. Listed'
    BY <2>1, <2>2, <1>4, NewList DEF QueryEnds, Is
  <2> QED BY <2>1, <2>2, <2>3, <1>1, <1>4, Stays DEF QueryEnds, Is
<1>5. CASE WebEnds(t)
  <2>1. Is(t, "web") /\ t \notin querying
    BY <1>1, <1>5 DEF WebEnds, Is
  <2>2. PICK s : Whole(s) /\ todo' = [todo EXCEPT ![t] = s]
    BY <2>1, <1>5, Leftovers DEF WebEnds, Done, Fail
  <2>3. Listed'
    BY <2>1, <2>2, <1>5, NewList DEF WebEnds, Is
  <2> QED BY <2>1, <2>2, <2>3, <1>1, <1>5, Stays DEF WebEnds, Is
<1>6. CASE Acquire(t) \/ Release(t)
  <2>1. /\ todo[t] \in Seq(Operations) /\ todo[t] # <<>> /\ t \notin querying
        /\ todo' = [todo EXCEPT ![t] = Tail(todo[t])]
        /\ UNCHANGED <<kind, place, querying, loop, silent>>
    BY <1>1, <1>6 DEF Acquire, Release, Done, Is
  <2>2. /\ Tail(todo[t]) \in Seq(Operations) /\ Bracketed(Tail(todo[t]))
        /\ Head(todo[t]) = "acquire" =>
             Tail(todo[t]) # <<>> /\ Head(Tail(todo[t])) = "release"
        /\ Head(todo[t]) # "acquire" /\ Tail(todo[t]) # <<>> =>
             Head(Tail(todo[t])) # "release"
    BY <2>1, <1>1, TailBracketed
  <2>3. /\ todo' \in [Threads -> Seq(Operations)] /\ todo'[t] = Tail(todo[t])
        /\ \A u \in Threads \ {t} : todo'[u] = todo[u]
    BY <2>1, <2>2, <1>1
  <2>4. \A u \in Threads : Bracketed(todo'[u])
    BY <2>2, <2>3, <1>1
  <2>5. \A u \in querying : todo'[u] # <<>> /\ Head(todo'[u]) = "mysql"
    BY <2>1, <2>3, <1>1 DEF Is
  <2>6. LockIsBrief' /\ lock' \in Threads \cup {None}
    <3>1. CASE Acquire(t)
      <4>1. /\ Is(t, "release")' /\ lock' = t
            /\ \A u \in Threads : ~Is(u, "release")
        <5>1. None \notin Threads
          BY ThreadsAssumption DEF Threads
        <5> QED BY <5>1, <3>1, <2>2, <2>3 DEF Acquire, Is, IInv, Listed, LockIsBrief
      <4> QED BY <4>1, <2>1, <2>3 DEF Is, LockIsBrief, Threads
    <3>2. CASE Release(t)
      <4>1. /\ ~Is(t, "release")' /\ lock' = None
            /\ \A u \in Threads \ {t} : ~Is(u, "release")
        BY <3>2, <2>2, <2>3 DEF Release, Is, IInv, Listed, LockIsBrief
      <4> QED BY <4>1, <2>3 DEF Is, LockIsBrief, Threads
    <3> QED BY <3>1, <3>2, <1>6
  <2>7. Listed'
    BY <1>1, <2>1, <2>3, <2>4, <2>5, <2>6 DEF Listed, Threads
  <2> QED BY <2>1, <2>3, <2>6, <2>7, Stays
<1> QED BY <1>2, <1>3, <1>4, <1>5, <1>6 DEF Operation

-----------------------------------------------------------------------------
(* Requests, and the threads that begin *)

\* A request that enters a thread, or the loop, has begun on nothing.
LEMMA EnterKeeps ==
  ASSUME IInv, NEW r \in Requests, EnterPool(r) \/ EnterLoop(r) \/ EnterExecutor(r)
  PROVE  IInv'
<1>1. /\ kind[r] \in Kinds /\ todo[r] = <<>> /\ r \in Threads /\ r \notin querying
      /\ loop = None /\ loop' \in {None, r}
      /\ todo' = [todo EXCEPT ![r] = Work(kind[r])]
      /\ UNCHANGED <<kind, querying, lock, silent>>
      /\ place' = [place EXCEPT ![r] = place'[r]]
      /\ place[r] \in {"arrived", "authenticated"}
      /\ place'[r] \in {"loop", "pool", "executor"}
      /\ loop' = r <=> place'[r] = "loop"
  BY ThreadsAssumption DEF EnterPool, EnterLoop, EnterExecutor, IInv, TypeOK, Idle, Threads, Kinds
<1>2. Listed'
  BY <1>1, WholeLists, NewList DEF Is
<1>3. /\ place' \in [Requests -> Places] /\ kind' \in [Requests -> Kinds \cup {"none"}]
      /\ \A q \in Requests \ {r} : place'[q] = place[q] /\ place[q] # "loop" /\ loop' # q
  BY <1>1, ThreadsAssumption DEF IInv, TypeOK, Places
<1>4. TypeOK'
  <2>1. \A q \in Requests : /\ kind'[q] = "none" <=> place'[q] = "none"
                            /\ loop' = q <=> place'[q] = "loop"
    <3> SUFFICES ASSUME NEW q \in Requests
                 PROVE  /\ kind'[q] = "none" <=> place'[q] = "none"
                        /\ loop' = q <=> place'[q] = "loop"
      OBVIOUS
    <3>1. CASE q = r
      BY <3>1, <1>1, ThreadsAssumption DEF Kinds, Async, Sync
    <3>2. CASE q # r
      BY <3>2, <1>1, <1>3 DEF IInv, TypeOK
    <3> QED BY <3>1, <3>2
  <2>2. loop' \in Requests \cup {None} /\ lock' \in Threads \cup {None} /\ silent' \in BOOLEAN
    BY <1>1 DEF IInv, TypeOK
  <2> QED BY <2>1, <2>2, <1>2, <1>3 DEF TypeOK, Listed, Threads
<1>5. Idle'
  BY <1>1, <1>3, ThreadsAssumption DEF IInv, Idle, TypeOK, Threads
<1> QED BY <1>2, <1>4, <1>5 DEF IInv

LEMMA MoveKeeps ==
  ASSUME IInv, NEW r \in Requests,
         Authenticate(r) \/ Refuse(r) \/ Answer(r) \/ \E k \in Kinds : Arrive(r, k)
  PROVE  IInv'
<1>1. /\ kind \in [Requests -> Kinds \cup {"none"}] /\ place \in [Requests -> Places]
      /\ loop \in Requests \cup {None}
      /\ \A q \in Requests : /\ kind[q] = "none" <=> place[q] = "none"
                             /\ loop = q <=> place[q] = "loop"
      /\ place[r] \in {"none", "arrived", "authenticated"} => todo[r] = <<>>
      /\ "none" \notin Kinds
      /\ None \notin Requests
  <2>1. "none" \notin Kinds /\ None \notin Requests
    BY ThreadsAssumption DEF Kinds, Async, Sync
  <2>2. place[r] \in {"none", "arrived", "authenticated"} => todo[r] = <<>>
    BY DEF IInv, Idle
  <2>3. /\ kind \in [Requests -> Kinds \cup {"none"}] /\ place \in [Requests -> Places]
        /\ loop \in Requests \cup {None}
        /\ \A q \in Requests : /\ kind[q] = "none" <=> place[q] = "none"
                               /\ loop = q <=> place[q] = "loop"
    BY DEF IInv, TypeOK
  <2> QED BY <2>1, <2>2, <2>3
<1>2. \E k, p :
        /\ todo[r] = <<>> /\ UNCHANGED <<todo, querying, lock, silent>>
        /\ kind' = [kind EXCEPT ![r] = k] /\ k \in Kinds \cup {"none"}
        /\ place' = [place EXCEPT ![r] = p] /\ p \in {"none", "arrived", "authenticated"}
        /\ k = "none" <=> p = "none"
        /\ loop' \in Requests \cup {None} /\ loop' # r
        /\ \A q \in Requests \ {r} : loop' = q <=> loop = q
  <2>1. CASE Authenticate(r) /\ place' = [place EXCEPT ![r] = "authenticated"] /\ UNCHANGED kind
    <3>1. kind' = [kind EXCEPT ![r] = kind[r]] /\ kind[r] \in Kinds
      BY <2>1, <1>1 DEF Authenticate
    <3>2. todo[r] = <<>> /\ loop' # r
      BY <2>1, <1>1 DEF Authenticate
    <3> QED BY <2>1, <3>1, <3>2, <1>1 DEF Authenticate
  <2>2. CASE (Authenticate(r) /\ Gone(r)) \/ Refuse(r)
    BY <2>2, <1>1 DEF Authenticate, Refuse, Gone
  <2>3. CASE Answer(r)
    BY <2>3, <1>1 DEF Answer, Gone
  <2>4. ASSUME NEW k \in Kinds, Arrive(r, k)
        PROVE  \E kk, p :
                 /\ todo[r] = <<>> /\ UNCHANGED <<todo, querying, lock, silent>>
                 /\ kind' = [kind EXCEPT ![r] = kk] /\ kk \in Kinds \cup {"none"}
                 /\ place' = [place EXCEPT ![r] = p] /\ p \in {"none", "arrived", "authenticated"}
                 /\ kk = "none" <=> p = "none"
                 /\ loop' \in Requests \cup {None} /\ loop' # r
                 /\ \A q \in Requests \ {r} : loop' = q <=> loop = q
    BY <2>4, <1>1 DEF Arrive
  <2> QED BY <2>1, <2>2, <2>3, <2>4 DEF Authenticate
<1>3. PICK k, p :
        /\ todo[r] = <<>> /\ UNCHANGED <<todo, querying, lock, silent>>
        /\ kind' = [kind EXCEPT ![r] = k] /\ k \in Kinds \cup {"none"}
        /\ place' = [place EXCEPT ![r] = p] /\ p \in {"none", "arrived", "authenticated"}
        /\ k = "none" <=> p = "none"
        /\ loop' \in Requests \cup {None} /\ loop' # r
        /\ \A q \in Requests \ {r} : loop' = q <=> loop = q
  BY <1>2
<1>4. \A q \in Requests : /\ kind'[q] = "none" <=> place'[q] = "none"
                          /\ loop' = q <=> place'[q] = "loop"
  <2> SUFFICES ASSUME NEW q \in Requests
               PROVE  /\ kind'[q] = "none" <=> place'[q] = "none"
                      /\ loop' = q <=> place'[q] = "loop"
    OBVIOUS
  <2>1. CASE q = r
    BY <2>1, <1>1, <1>3
  <2>2. CASE q # r
    BY <2>2, <1>1, <1>3
  <2> QED BY <2>1, <2>2
<1>5. TypeOK'
  <2>1. place' \in [Requests -> Places] /\ kind' \in [Requests -> Kinds \cup {"none"}]
    BY <1>1, <1>3 DEF Places
  <2> QED BY <2>1, <1>3, <1>4 DEF IInv, TypeOK
<1>6. Idle'
  BY <1>1, <1>3 DEF IInv, Idle
<1>7. Listed'
  BY <1>3 DEF IInv, Listed, LockIsBrief, Is
<1> QED BY <1>5, <1>6, <1>7 DEF IInv

LEMMA StartKeeps == IInv /\ (Fire \/ StartJob) => IInv'
<1> SUFFICES ASSUME IInv, Fire \/ StartJob PROVE IInv'
  OBVIOUS
<1>1. PICK t \in {"fire", "worker"} : \E s :
        /\ todo[t] = <<>> /\ Whole(s) /\ todo' = [todo EXCEPT ![t] = s]
        /\ UNCHANGED <<kind, place, querying, loop, lock, silent>>
  BY WholeLists DEF Fire, StartJob
<1>2. t \in Threads /\ t \notin querying /\ t \notin Requests
  BY <1>1, ThreadsAssumption DEF IInv, TypeOK, Threads
<1>3. Listed' /\ \A u \in Threads \ {t} : todo'[u] = todo[u]
  <2>1. PICK s : /\ todo[t] = <<>> /\ Whole(s) /\ todo' = [todo EXCEPT ![t] = s]
                 /\ UNCHANGED <<kind, place, querying, loop, lock, silent>>
    BY <1>1
  <2>2. Listed'
    BY <2>1, <1>2, NewList DEF Is
  <2>3. todo \in [Threads -> Seq(Operations)]
    BY DEF IInv, TypeOK
  <2> QED BY <2>1, <2>2, <2>3
<1>4. TypeOK'
  BY <1>1, <1>3 DEF IInv, TypeOK, Listed
<1>5. Idle'
  BY <1>1, <1>2, <1>3 DEF IInv, Idle, Threads
<1> QED BY <1>3, <1>4, <1>5 DEF IInv

LEMMA MysqlKeeps == IInv /\ (MysqlChanges \/ UNCHANGED vars) => IInv'
BY DEF IInv, TypeOK, Idle, Listed, LockIsBrief, Is, MysqlChanges, vars

LEMMA NextInvariant == IInv /\ [Next]_vars => IInv'
<1> SUFFICES ASSUME IInv, [Next]_vars PROVE IInv'
  OBVIOUS
<1>1. ASSUME NEW r \in Requests, RequestStep(r)
      PROVE  IInv'
  BY <1>1, EnterKeeps, MoveKeeps, OperationKeeps DEF RequestStep, Threads
<1>2. ASSUME NEW r \in Requests, NEW k \in Kinds, Arrive(r, k)
      PROVE  IInv'
  BY <1>2, MoveKeeps
<1>3. ASSUME NEW t \in {"boot", "fire", "worker"}, Operation(t)
      PROVE  IInv'
  BY <1>3, OperationKeeps DEF Threads
<1> QED BY <1>1, <1>2, <1>3, StartKeeps, MysqlKeeps DEF Next

-----------------------------------------------------------------------------

(* The invariant above holds in every state.                               *)
THEOREM Invariance == Spec => []IInv
BY InitInvariant, NextInvariant, PTL DEF Spec

(* Every variable keeps its type: a request is on the loop exactly when    *)
(* the loop runs it, and a thread in a query has that query to do.         *)
THEOREM TypeCorrect == Spec => []TypeOK
<1>1. IInv => TypeOK
  BY DEF IInv
<1> QED BY <1>1, Invariance, PTL

(* Whoever holds the queue's lock is about to release it and waits for     *)
(* nothing, for any number of requests and pool threads.                   *)
THEOREM LockIsBriefAlways == Spec => []LockIsBrief
<1>1. IInv => LockIsBrief
  BY DEF IInv, Listed
<1> QED BY <1>1, Invariance, PTL

-----------------------------------------------------------------------------
(* Who is in whose way.  LightRequestsAnswered and EveryRequestAnswered    *)
(* need that the process never comes to a standstill, and that no step is  *)
(* taken for ever; both are stated here without ENABLED.                   *)

LightKinds == {"healthz", "form", "run"}

InExecutor == {r \in Requests : place[r] = "executor"}

\* A light request, and a test of BlueWave, have no query to make.
Seated ==
  /\ \A r \in Requests :
       /\ \A i \in 1..Len(todo[r]) :
            todo[r][i] = "mysql" => kind[r] \notin LightKinds \cup {"test_bluewave"}
       /\ place[r] = "loop" => kind[r] \in Async
       /\ place[r] = "authenticated" => kind[r] # "healthz"
  /\ IsFiniteSet(InPool)
  /\ Cardinality(InPool) <= PoolSize

\* An operation of t, and a step of request r to its next place, need only this.
CanOperate(t) == /\ todo[t] # <<>>
                 /\ Is(t, "acquire") => lock = None
                 /\ t \in querying => ~silent

CanMove(r) ==
  \/ /\ place[r] = "arrived"
     /\ loop = None
     /\ Cardinality(InPool) < PoolSize
  \/ /\ place[r] = "authenticated"
     /\ loop = None
     /\ kind[r] \in Sync => Cardinality(InPool) < PoolSize
     /\ kind[r] = "dry" => Cardinality(InExecutor) < DryThreads
  \/ /\ place[r] \in {"loop", "pool", "executor"}
     /\ todo[r] = <<>>
     /\ loop \in {None, r}

Going(t) == CanOperate(t) \/ (t \in Requests /\ CanMove(t))

\* Those that request r can have to wait for.
Ahead(r) == {r} \cup InPool \cup ({loop, lock} \ {None})

\* Some thread that a light request waits for can go on, unless MySQL keeps the
\* loop or the pool.
LightWaitsForMysqlOnly ==
  \A r \in Requests : kind[r] \in LightKinds =>
    MysqlHoldsTheWeb \/ \E t \in Ahead(r) : Going(t)

\* While MySQL answers, some thread that a request waits for can go on.
NoCircularWait ==
  ~silent => \A r \in Requests : kind[r] # "none" =>
               \E t \in Ahead(r) \cup InExecutor : Going(t)

Left(t) == 2 * Len(todo[t]) - (IF t \in querying THEN 1 ELSE 0)

Stage(p) == CASE p = "none"          -> 0
              [] p = "arrived"       -> 3
              [] p = "authenticated" -> 2
              [] OTHER               -> 1

\* Each step of a request brings it nearer its answer, and no other step sends
\* it back.
RequestsShorten ==
  \A r \in Requests : kind[r] # "none" =>
    IF RequestStep(r)
    THEN \/ Stage(place'[r]) < Stage(place[r])
         \/ place'[r] = place[r] /\ Left(r)' < Left(r)
    ELSE UNCHANGED <<kind[r], place[r], todo[r], r \in querying>>

\* What an operation of t leaves.
LEMMA OperationLeaves ==
  ASSUME IInv, NEW t \in Threads, Operation(t)
  PROVE  /\ UNCHANGED <<kind, place, loop, silent>>
         /\ \A u \in Threads \ {t} : todo'[u] = todo[u] /\ (u \in querying' <=> u \in querying)
         /\ todo[t] # <<>>
         /\ \/ todo'[t] = todo[t] /\ t \notin querying /\ t \in querying'
            \/ /\ t \in Requests => todo'[t] \in {Tail(todo[t]), <<>>}
               /\ t \notin querying'
<1>1. /\ todo \in [Threads -> Seq(Operations)]
      /\ \A u \in querying : Is(u, "mysql")
  BY DEF IInv, TypeOK, Is
<1>2. t \in Requests => AfterFailure(t) \in {Tail(todo[t]), <<>>}
  BY ThreadsAssumption DEF AfterFailure
<1>3. CASE Connect(t)
  BY <1>3 DEF Connect, Is
<1>4. CASE ConnectFails(t) \/ QueryEnds(t)
  BY <1>1, <1>2, <1>4 DEF ConnectFails, QueryEnds, Done, Fail, Is
<1>5. CASE WebEnds(t)
  BY <1>1, <1>2, <1>5 DEF WebEnds, Done, Fail, Is
<1>6. CASE Acquire(t) \/ Release(t)
  BY <1>1, <1>6 DEF Acquire, Release, Done, Is
<1> QED BY <1>3, <1>4, <1>5, <1>6 DEF Operation

LEMMA WorkSeated ==
  ASSUME NEW k \in Kinds, NEW i \in 1..Len(Work(k)), Work(k)[i] = "mysql"
  PROVE  k \notin LightKinds \cup {"test_bluewave"}
BY DEF Kinds, Async, Sync, Work, LightKinds

LEMMA InitSeated == Init => Seated
<1> SUFFICES ASSUME Init PROVE Seated
  OBVIOUS
<1>1. InPool = {}
  BY DEF Init, InPool
<1>2. \A r \in Requests : todo[r] = <<>> /\ place[r] = "none"
  BY ThreadsAssumption DEF Init, Threads
<1> QED BY <1>1, <1>2, FS_EmptySet, ThreadsAssumption DEF Seated

\* A request that leaves its place, or does not enter the pool, makes room in it.
LEMMA PoolShrinks ==
  ASSUME Seated, \A r \in Requests : place'[r] = "pool" => place[r] = "pool"
  PROVE  IsFiniteSet(InPool)' /\ (Cardinality(InPool) <= PoolSize)'
<1>1. InPool' \subseteq InPool
  BY DEF InPool
<1>2. IsFiniteSet(InPool') /\ Cardinality(InPool') <= Cardinality(InPool)
  BY <1>1, FS_Subset DEF Seated
<1>3. Cardinality(InPool) \in Nat /\ Cardinality(InPool') \in Nat
  BY <1>2, FS_CardinalityType DEF Seated
<1> QED BY <1>2, <1>3, ThreadsAssumption DEF Seated

LEMMA OneMore ==
  ASSUME NEW S, IsFiniteSet(S), NEW x
  PROVE  IsFiniteSet(S \cup {x}) /\ Cardinality(S \cup {x}) <= Cardinality(S) + 1
<1>1. Cardinality(S) \in Nat
  BY FS_CardinalityType
<1>2. CASE x \in S
  <2>1. S \cup {x} = S
    BY <1>2
  <2>2. Cardinality(S) <= Cardinality(S) + 1
    BY <1>1
  <2> QED BY <2>1, <2>2
<1>3. CASE x \notin S
  <2>1. IsFiniteSet(S \cup {x}) /\ Cardinality(S \cup {x}) = Cardinality(S) + 1
    BY <1>3, FS_AddElement
  <2> QED BY <2>1, <1>1
<1> QED BY <1>2, <1>3

LEMMA OperationSeats ==
  ASSUME IInv, Seated, NEW t \in Threads, Operation(t)
  PROVE  Seated'
<1>1. /\ UNCHANGED <<kind, place>>
      /\ \A u \in Threads \ {t} : todo'[u] = todo[u]
      /\ t \in Requests => todo'[t] \in {todo[t], Tail(todo[t]), <<>>}
      /\ todo[t] # <<>>
  BY OperationLeaves
<1>2. ASSUME NEW r \in Requests, NEW i \in 1..Len(todo'[r]), todo'[r][i] = "mysql"
      PROVE  kind'[r] \notin LightKinds \cup {"test_bluewave"}
  <2>1. r \in Threads /\ todo[r] \in Seq(Operations)
    BY DEF Threads, IInv, TypeOK
  <2>2. CASE todo'[r] = todo[r]
    BY <2>2, <1>1, <1>2 DEF Seated
  <2>3. CASE todo'[r] = Tail(todo[r]) /\ todo[r] # <<>>
    <3>1. i + 1 \in 1..Len(todo[r]) /\ Tail(todo[r])[i] = todo[r][i + 1]
      BY <2>1, <2>3
    <3> QED BY <3>1, <2>3, <1>1, <1>2 DEF Seated
  <2>4. CASE todo'[r] = <<>>
    BY <2>4
  <2> QED BY <2>1, <2>2, <2>3, <2>4, <1>1
<1>3. IsFiniteSet(InPool)' /\ (Cardinality(InPool) <= PoolSize)'
  BY <1>1, PoolShrinks
<1> QED BY <1>1, <1>2, <1>3 DEF Seated

LEMMA EnterSeats ==
  ASSUME IInv, Seated, NEW r \in Requests, EnterPool(r) \/ EnterLoop(r) \/ EnterExecutor(r)
  PROVE  Seated'
<1>1. /\ kind[r] \in Kinds /\ r \in Threads /\ todo' = [todo EXCEPT ![r] = Work(kind[r])]
      /\ UNCHANGED kind
      /\ place' = [place EXCEPT ![r] = place'[r]]
      /\ place'[r] \in {"loop", "pool", "executor"}
      /\ place'[r] = "loop" => kind[r] \in Async
      /\ place'[r] = "pool" => Cardinality(InPool) < PoolSize
  BY DEF EnterPool, EnterLoop, EnterExecutor, IInv, TypeOK, Threads, Kinds
<1>2. /\ todo'[r] = Work(kind[r])
      /\ \A q \in Requests \ {r} : todo'[q] = todo[q] /\ place'[q] = place[q]
  BY <1>1 DEF IInv, TypeOK, Threads
<1>3. ASSUME NEW q \in Requests, NEW i \in 1..Len(todo'[q]), todo'[q][i] = "mysql"
      PROVE  kind'[q] \notin LightKinds \cup {"test_bluewave"}
  <2>1. CASE q = r
    BY <2>1, <1>1, <1>2, <1>3, WorkSeated
  <2>2. CASE q # r
    BY <2>2, <1>1, <1>2, <1>3 DEF Seated
  <2> QED BY <2>1, <2>2
<1>4. IsFiniteSet(InPool)' /\ (Cardinality(InPool) <= PoolSize)'
  <2>1. CASE place'[r] # "pool"
    BY <2>1, <1>2, PoolShrinks
  <2>2. CASE place'[r] = "pool"
    <3>1. InPool' \subseteq InPool \cup {r}
      BY <1>2 DEF InPool
    <3>2. /\ IsFiniteSet(InPool \cup {r})
          /\ Cardinality(InPool \cup {r}) <= Cardinality(InPool) + 1
      BY OneMore DEF Seated
    <3>3. /\ IsFiniteSet(InPool')
          /\ Cardinality(InPool') <= Cardinality(InPool \cup {r})
      BY <3>1, <3>2, FS_Subset
    <3>4. /\ Cardinality(InPool) \in Nat /\ Cardinality(InPool') \in Nat
          /\ Cardinality(InPool \cup {r}) \in Nat
      BY <3>2, <3>3, FS_CardinalityType DEF Seated
    <3> QED BY <3>2, <3>3, <3>4, <2>2, <1>1, ThreadsAssumption
  <2> QED BY <2>1, <2>2
<1> QED BY <1>1, <1>2, <1>3, <1>4 DEF Seated

LEMMA MoveSeats ==
  ASSUME IInv, Seated, NEW r \in Requests,
         Authenticate(r) \/ Refuse(r) \/ Answer(r) \/ \E k \in Kinds : Arrive(r, k)
  PROVE  Seated'
<1>1. /\ UNCHANGED todo /\ todo[r] = <<>>
      /\ \A q \in Requests \ {r} : kind'[q] = kind[q] /\ place'[q] = place[q]
      /\ place'[r] \in {"none", "arrived", "authenticated"}
      /\ place'[r] = "authenticated" => kind'[r] # "healthz"
  BY DEF Authenticate, Refuse, Answer, Arrive, Gone, IInv, TypeOK, Idle
<1>2. IsFiniteSet(InPool)' /\ (Cardinality(InPool) <= PoolSize)'
  BY <1>1, PoolShrinks
<1>3. ASSUME NEW q \in Requests
      PROVE  /\ \A i \in 1..Len(todo'[q]) :
                  todo'[q][i] = "mysql" => kind'[q] \notin LightKinds \cup {"test_bluewave"}
             /\ place'[q] = "loop" => kind'[q] \in Async
             /\ place'[q] = "authenticated" => kind'[q] # "healthz"
  <2>1. CASE q = r
    BY <2>1, <1>1
  <2>2. CASE q # r
    BY <2>2, <1>1 DEF Seated
  <2> QED BY <2>1, <2>2
<1> QED BY <1>2, <1>3 DEF Seated

LEMMA NextSeated == IInv /\ Seated /\ [Next]_vars => Seated'
<1> SUFFICES ASSUME IInv, Seated, [Next]_vars PROVE Seated'
  OBVIOUS
<1>1. ASSUME NEW r \in Requests, RequestStep(r)
      PROVE  Seated'
  BY <1>1, EnterSeats, MoveSeats, OperationSeats DEF RequestStep, Threads
<1>2. ASSUME NEW r \in Requests, NEW k \in Kinds, Arrive(r, k)
      PROVE  Seated'
  BY <1>2, MoveSeats
<1>3. ASSUME NEW t \in {"boot", "fire", "worker"}, Operation(t)
      PROVE  Seated'
  BY <1>3, OperationSeats DEF Threads
<1>4. CASE Fire \/ StartJob
  <2>1. UNCHANGED <<kind, place>> /\ \A r \in Requests : todo'[r] = todo[r]
    BY <1>4, ThreadsAssumption DEF Fire, StartJob, IInv, TypeOK, Threads
  <2> QED BY <2>1 DEF Seated, InPool
<1>5. CASE MysqlChanges \/ UNCHANGED vars
  BY <1>5 DEF MysqlChanges, vars, Seated, InPool
<1> QED BY <1>1, <1>2, <1>3, <1>4, <1>5 DEF Next

-----------------------------------------------------------------------------

\* A thread with something to do goes on, unless it queries a silent server: else
\* only the lock can keep it, and who holds that is about to release it.
LEMMA Unblocked ==
  ASSUME IInv, NEW t \in Threads, todo[t] # <<>>, t \in querying => ~silent
  PROVE  CanOperate(t) \/ (lock # None /\ CanOperate(lock))
BY DEF CanOperate, IInv, Listed, LockIsBrief, Is

\* So does a request that a thread, or the loop, works for.
LEMMA WorkGoesOn ==
  ASSUME IInv, NEW r \in Requests, place[r] \in {"loop", "pool", "executor"},
         loop \in {None, r}, r \in querying => ~silent
  PROVE  Going(r) \/ (lock # None /\ Going(lock))
<1>1. CASE todo[r] = <<>>
  BY <1>1 DEF Going, CanMove
<1>2. CASE todo[r] # <<>>
  BY <1>2, Unblocked DEF Going, Threads
<1> QED BY <1>1, <1>2

\* A pool without room is full of queries, or one of its threads goes on.
LEMMA PoolGoesOn ==
  ASSUME IInv, Seated, loop = None, ~(Cardinality(InPool) < PoolSize)
  PROVE  /\ \/ Cardinality(InPool \cap querying) = PoolSize
            \/ \E t \in InPool \cup ({lock} \ {None}) : Going(t)
         /\ ~silent => \E t \in InPool \cup ({lock} \ {None}) : Going(t)
<1>1. IsFiniteSet(InPool) /\ Cardinality(InPool) = PoolSize
  BY FS_CardinalityType, ThreadsAssumption DEF Seated
<1>2. ASSUME NEW q \in InPool, q \in querying => ~silent
      PROVE  \E t \in InPool \cup ({lock} \ {None}) : Going(t)
  BY <1>2, WorkGoesOn DEF InPool
<1>3. CASE InPool \subseteq querying
  <2>1. InPool \cap querying = InPool
    BY <1>3
  <2>2. InPool # {}
    BY <1>1, FS_EmptySet, ThreadsAssumption
  <2> QED BY <2>1, <2>2, <1>1, <1>2
<1>4. CASE \E q \in InPool : q \notin querying
  BY <1>2, <1>4
<1> QED BY <1>3, <1>4

LEMMA LightWaits == IInv /\ Seated => LightWaitsForMysqlOnly
<1> SUFFICES ASSUME IInv, Seated, NEW r \in Requests, kind[r] \in LightKinds
             PROVE  MysqlHoldsTheWeb \/ \E t \in Ahead(r) : Going(t)
  BY DEF LightWaitsForMysqlOnly
<1>1. /\ loop \in Requests \cup {None} /\ place[r] \in Places /\ place[r] # "none"
      /\ \A q \in Requests : loop = q <=> place[q] = "loop"
      /\ \A q \in querying : todo[q] # <<>> /\ Head(todo[q]) = "mysql"
      /\ \A q \in Requests : todo[q] \in Seq(Operations)
      /\ kind[loop] \in Kinds \/ loop = None
  BY ThreadsAssumption DEF IInv, TypeOK, LightKinds, Threads
<1>2. ASSUME NEW q \in querying \cap Requests
      PROVE  kind[q] \notin LightKinds \cup {"test_bluewave"}
  <2>1. 1 \in 1..Len(todo[q]) /\ todo[q][1] = "mysql"
    BY <1>1
  <2> QED BY <2>1 DEF Seated
<1>3. CASE loop # None
  <2>1. loop \in Requests /\ place[loop] = "loop" /\ kind[loop] \in Async
    BY <1>1, <1>3 DEF Seated
  <2>2. CASE loop \in querying
    <3>1. kind[loop] \in {"save", "test_mysql", "catchup"}
      BY <2>1, <2>2, <1>2 DEF Async, LightKinds
    <3> QED BY <3>1, <2>2, <1>3 DEF MysqlHoldsTheWeb
  <2>3. CASE loop \notin querying
    BY <2>1, <2>3, <1>3, WorkGoesOn DEF Ahead
  <2> QED BY <2>2, <2>3
<1>4. CASE loop = None /\ place[r] \in {"arrived", "authenticated"}
  <2>1. CASE Cardinality(InPool) < PoolSize
    BY <2>1, <1>4 DEF Ahead, Going, CanMove, LightKinds
  <2>2. CASE ~(Cardinality(InPool) < PoolSize)
    BY <2>2, <1>4, PoolGoesOn DEF MysqlHoldsTheWeb, Ahead
  <2> QED BY <2>1, <2>2
<1>5. CASE loop = None /\ place[r] \in {"loop", "pool", "executor"}
  BY <1>5, <1>2, WorkGoesOn DEF Ahead
<1> QED BY <1>1, <1>3, <1>4, <1>5 DEF Places

LEMMA ExecutorGoesOn ==
  ASSUME IInv, ~silent, loop = None, ~(Cardinality(InExecutor) < DryThreads)
  PROVE  \E t \in InExecutor \cup ({lock} \ {None}) : Going(t)
<1>1. InExecutor # {}
  BY FS_EmptySet, ThreadsAssumption
<1>2. PICK q \in InExecutor : TRUE
  BY <1>1
<1> QED BY <1>2, WorkGoesOn DEF InExecutor

LEMMA NobodyWaitsInACircle == IInv /\ Seated => NoCircularWait
<1> SUFFICES ASSUME IInv, Seated, ~silent, NEW r \in Requests, kind[r] # "none"
             PROVE  \E t \in Ahead(r) \cup InExecutor : Going(t)
  BY DEF NoCircularWait
<1>1. /\ loop \in Requests \cup {None} /\ place[r] \in Places /\ place[r] # "none"
      /\ \A q \in Requests : loop = q <=> place[q] = "loop"
  BY DEF IInv, TypeOK
<1>2. CASE loop # None
  BY <1>1, <1>2, WorkGoesOn DEF Ahead
<1>3. CASE loop = None /\ place[r] \in {"loop", "pool", "executor"}
  BY <1>3, WorkGoesOn DEF Ahead
<1>4. CASE loop = None /\ place[r] \in {"arrived", "authenticated"}
  <2>1. CASE ~(Cardinality(InPool) < PoolSize)
    BY <2>1, <1>4, PoolGoesOn DEF Ahead
  <2>2. CASE ~(Cardinality(InExecutor) < DryThreads)
    BY <2>2, <1>4, ExecutorGoesOn DEF Ahead
  <2>3. CASE Cardinality(InPool) < PoolSize /\ Cardinality(InExecutor) < DryThreads
    BY <2>3, <1>4 DEF Ahead, Going, CanMove
  <2> QED BY <2>1, <2>2, <2>3
<1> QED BY <1>1, <1>2, <1>3, <1>4 DEF Places

(* For any number of requests and pool threads: of those that a health     *)
(* check, a form or POST /run can have to wait for, one can go on, unless  *)
(* a save, a MySQL test or a catch-up queries on the loop, or every thread *)
(* of the pool queries.  A run, a dry run or the daily fire never keep     *)
(* them, whatever MySQL does (routes.py, orchestrator.py:73).              *)
THEOREM LightWaitsForMysqlOnlyAlways == Spec => []LightWaitsForMysqlOnly
BY InitInvariant, InitSeated, NextInvariant, NextSeated, LightWaits, PTL DEF Spec

(* While MySQL answers, loop, pool, executor and lock are never waited for *)
(* in a circle: of those that any request can have to wait for, one can    *)
(* go on.                                                                  *)
THEOREM NoCircularWaitAlways == Spec => []NoCircularWait
BY InitInvariant, InitSeated, NextInvariant, NextSeated, NobodyWaitsInACircle, PTL DEF Spec

-----------------------------------------------------------------------------

LEMMA OperationShortens ==
  ASSUME IInv, NEW r \in Requests, Operation(r)
  PROVE  place'[r] = place[r] /\ Left(r)' < Left(r)
<1>1. /\ UNCHANGED place /\ todo[r] # <<>> /\ todo[r] \in Seq(Operations)
      /\ \/ todo'[r] = todo[r] /\ r \notin querying /\ r \in querying'
         \/ todo'[r] \in {Tail(todo[r]), <<>>} /\ r \notin querying'
  BY OperationLeaves DEF Threads, IInv, TypeOK
<1>2. Len(todo[r]) \in Nat \ {0} /\ Len(Tail(todo[r])) = Len(todo[r]) - 1 /\ Len(<<>>) = 0
  BY <1>1
<1>3. CASE todo'[r] = todo[r] /\ r \notin querying /\ r \in querying'
  BY <1>2, <1>3, <1>1 DEF Left
<1>4. CASE todo'[r] \in {Tail(todo[r]), <<>>} /\ r \notin querying'
  <2>1. Len(todo'[r]) \in Nat /\ Len(todo'[r]) <= Len(todo[r]) - 1
    BY <1>2, <1>4
  <2>2. Left(r)' = 2 * Len(todo'[r])
    BY <1>4 DEF Left
  <2>3. Left(r) >= 2 * Len(todo[r]) - 1
    BY <1>2 DEF Left
  <2>4. Left(r) \in Int
    BY <1>2 DEF Left
  <2> QED BY <2>1, <2>2, <2>3, <2>4, <1>2, <1>1
<1> QED BY <1>1, <1>3, <1>4

LEMMA StepShortens ==
  ASSUME IInv, NEW r \in Requests, RequestStep(r)
  PROVE  \/ Stage(place'[r]) < Stage(place[r])
         \/ place'[r] = place[r] /\ Left(r)' < Left(r)
<1>1. CASE Operation(r)
  BY <1>1, OperationShortens
<1>2. CASE ~Operation(r)
  <2>1. \/ place[r] = "arrived" /\ place'[r] \in {"authenticated", "none", "pool"}
        \/ place[r] = "authenticated" /\ place'[r] \in {"pool", "loop", "executor", "none"}
        \/ place[r] \in {"loop", "pool", "executor"} /\ place'[r] = "none"
    BY <1>2 DEF RequestStep, Authenticate, EnterPool, EnterLoop, EnterExecutor, Refuse, Answer,
                Gone, IInv, TypeOK
  <2> QED BY <2>1 DEF Stage
<1> QED BY <1>1, <1>2

\* What is not a request's own step leaves it where it is.
LEMMA OthersKeep ==
  ASSUME IInv, NEW r \in Requests, kind[r] # "none", ~RequestStep(r), [Next]_vars
  PROVE  UNCHANGED <<kind[r], place[r], todo[r], r \in querying>>
<1>1. ASSUME NEW t \in Threads \ {r}, Operation(t)
      PROVE  UNCHANGED <<kind[r], place[r], todo[r], r \in querying>>
  BY <1>1, OperationLeaves DEF Threads
<1>2. ASSUME NEW q \in Requests \ {r}, RequestStep(q)
      PROVE  UNCHANGED <<kind[r], place[r], todo[r], r \in querying>>
  <2>1. CASE Operation(q)
    BY <2>1, <1>1 DEF Threads
  <2>2. CASE EnterPool(q) \/ EnterLoop(q) \/ EnterExecutor(q)
    BY <2>2 DEF EnterPool, EnterLoop, EnterExecutor, IInv, TypeOK, Threads
  <2>3. CASE Authenticate(q) \/ Refuse(q) \/ Answer(q)
    BY <2>3 DEF Authenticate, Refuse, Answer, Gone, IInv, TypeOK
  <2> QED BY <2>1, <2>2, <2>3, <1>2 DEF RequestStep
<1>3. ASSUME NEW q \in Requests, NEW k \in Kinds, Arrive(q, k)
      PROVE  UNCHANGED <<kind[r], place[r], todo[r], r \in querying>>
  BY <1>3 DEF Arrive, IInv, TypeOK
<1>4. ASSUME NEW t \in {"boot", "fire", "worker"}, Operation(t)
      PROVE  UNCHANGED <<kind[r], place[r], todo[r], r \in querying>>
  BY <1>4, <1>1, ThreadsAssumption DEF Threads
<1>5. CASE Fire \/ StartJob \/ MysqlChanges \/ UNCHANGED vars
  BY <1>5, ThreadsAssumption DEF Fire, StartJob, MysqlChanges, vars, IInv, TypeOK, Threads
<1>6. ASSUME NEW q \in Requests, RequestStep(q)
      PROVE  UNCHANGED <<kind[r], place[r], todo[r], r \in querying>>
  BY <1>2, <1>6
<1> QED BY <1>3, <1>4, <1>5, <1>6 DEF Next

(* A request takes finitely many steps: each one moves it to a later stage *)
(* or leaves less of its handler's work, and nothing another thread does   *)
(* sends it back.  With the theorems above, this is what the two liveness  *)
(* properties rest on.                                                     *)
THEOREM RequestsShortenAlways == Spec => [][RequestsShorten]_vars
<1>1. IInv /\ [Next]_vars => RequestsShorten
  BY StepShortens, OthersKeep DEF RequestsShorten
<1> QED BY <1>1, InitInvariant, NextInvariant, PTL DEF Spec

=============================================================================
