--------------------------- MODULE Threads_proofs ---------------------------
(***************************************************************************)
(* Proofs about what threads share: the worker pool, for any number of     *)
(* jobs and instances and whatever fails or panics, and the cache of       *)
(* compiled grammars, for any threads and interpretations.                 *)
(***************************************************************************)
EXTENDS ParsePool, GrammarCache, FiniteSetTheorems, TLAPS

-----------------------------------------------------------------------------
(* There is at least one worker.                                            *)
LEMMA SomeWorker == Workers # {}
<1>1. Jobs \in Nat \ {0} /\ Count \in Nat \ {0}
  BY SomeWork
<1>2. \E x \in {Jobs, Count} : \A y \in {Jobs, Count} : x =< y
  BY <1>1
<1>3. Min({Jobs, Count}) \in {Jobs, Count}
  BY <1>2 DEF Min
<1>4. 1 \in 1..Min({Jobs, Count})
  BY <1>1, <1>3
<1>. QED  BY <1>4 DEF Workers

(* None is not an instance, and NoResult is not a result.                   *)
LEMMA InstanceFacts ==
  /\ Count \in Nat
  /\ Instances \subseteq Nat
  /\ None \notin Instances
  /\ \A i \in Instances : Result(i, "parsed") # NoResult
BY SomeWork DEF Instances, None, Result, NoResult

LEMMA ElementsOfSeq ==
  ASSUME NEW S, NEW s \in Seq(S)
  PROVE  Len(s) \in Nat /\ DOMAIN s = 1..Len(s) /\ \A k \in DOMAIN s : s[k] \in S
OBVIOUS

(* What the type of the channel says of its elements.                       *)
LEMMA ChannelTypes ==
  ASSUME TypeOK
  PROVE  /\ Len(channel) \in Nat
         /\ DOMAIN channel = 1..Len(channel)
         /\ \A k \in DOMAIN channel :
               /\ channel[k] \in [instance : Instances, kind : {"parsed", "error"}]
               /\ channel[k].instance \in Instances
               /\ channel[k].instance \in Nat
<1>1. channel \in Seq([instance : Instances, kind : {"parsed", "error"}])
  BY DEF TypeOK
<1>2. \A k \in DOMAIN channel : channel[k] \in [instance : Instances, kind : {"parsed", "error"}]
  BY <1>1, ElementsOfSeq
<1>3. Len(channel) \in Nat /\ DOMAIN channel = 1..Len(channel)
  BY <1>1, ElementsOfSeq
<1>4. \A k \in DOMAIN channel : channel[k].instance \in Instances
  BY <1>2
<1>. QED  BY <1>2, <1>3, <1>4, InstanceFacts

LEMMA HeadAndTail ==
  ASSUME NEW S, NEW s \in Seq(S), s # <<>>
  PROVE  /\ 1 \in DOMAIN s /\ Head(s) = s[1] /\ Head(s) \in S
         /\ Tail(s) \in Seq(S)
         /\ DOMAIN Tail(s) = 1..(Len(s) - 1)
         /\ \A k \in DOMAIN Tail(s) : Tail(s)[k] = s[k + 1] /\ k + 1 \in DOMAIN s
OBVIOUS

LEMMA InvInit == Init => IInv
<1>. SUFFICES ASSUME Init PROVE IInv
  OBVIOUS
<1>. USE InstanceFacts, SomeWork DEF Init, None
<1>1. TypeOK
  BY DEF TypeOK, Results, NoResult, Result
<1>2. \A w \in Workers : AtWork(w)
  BY DEF AtWork
<1>3. Apart /\ Accounted
  BY DEF Apart, Accounted, Instances
<1>4. Reported /\ FaithfulOutcome
  BY DEF Reported, FaithfulOutcome
<1>. QED  BY <1>1, <1>2, <1>3, <1>4 DEF IInv
-----------------------------------------------------------------------------
(* Steps of the workers and of the main thread.                             *)

LEMMA TakeTaskInv ==
  ASSUME IInv, NEW w \in Workers, TakeTask(w)
  PROVE  IInv'
<1>. USE InstanceFacts DEF IInv, None
<1>1. CASE tasks \in Instances
  <2>. USE <1>1 DEF TakeTask, NextTask, Goto, main
  <2>1. TypeOK'
    <3>1. tasks + 1 \in 1..(Count + 1)
      BY DEF Instances
    <3>. QED  BY <3>1 DEF TypeOK
  <2>2. \A v \in Workers : AtWork(v)'
    <3>1. AtWork(w)'
      BY DEF TypeOK, AtWork
    <3>2. ASSUME NEW v \in Workers, v # w
          PROVE  AtWork(v)'
      <4>1. pc'[v] = pc[v] /\ held'[v] = held[v] /\ sending' = sending /\ fate' = fate
        BY <3>2 DEF TypeOK
      <4>2. pc[v] # "gone"
        BY DEF AtWork, Instances
      <4>. QED  BY <4>1, <4>2 DEF AtWork
    <3>. QED  BY <3>1, <3>2
  <2>3. Apart'
    <3>1. /\ held' = [held EXCEPT ![w] = tasks] /\ held \in [Workers -> Instances \cup {None}]
          /\ tasks \in Nat /\ tasks # None /\ tasks' = tasks + 1
          /\ channel' = channel /\ ordered' = ordered
      BY DEF TypeOK
    <3>2. ordered[tasks] = NoResult
      BY <3>1 DEF Apart
    <3>3. \A k \in DOMAIN channel : channel[k].instance \in Nat /\ channel[k].instance < tasks
      BY ChannelTypes DEF Apart
    <3>4. \A v \in Workers : held[v] # None => held[v] \in Nat /\ held[v] < tasks
      BY DEF TypeOK, Apart
    <3>. QED
      BY ONLY <3>1, <3>2, <3>3, <3>4, Apart, InstanceFacts DEF Apart
  <2>4. Accounted'
    BY DEF TypeOK, Accounted, Received, AtWork, Instances
  <2>5. Reported' /\ FaithfulOutcome'
    BY DEF TypeOK, Reported, FaithfulOutcome
  <2>. QED  BY <2>1, <2>2, <2>3, <2>4, <2>5
<1>2. CASE tasks \notin Instances
  <2>. USE <1>2 DEF TakeTask, Goto, main
  <2>1. TypeOK'
    BY DEF TypeOK
  <2>2. \A v \in Workers : AtWork(v)'
    <3>1. AtWork(w)'
      <4>1. tasks = Count + 1
        BY DEF TypeOK, Instances
      <4>2. held'[w] = None /\ pc'[w] = "gone" /\ tasks' = tasks
        BY DEF TypeOK, AtWork
      <4>. QED  BY ONLY <4>1, <4>2 DEF AtWork
    <3>2. ASSUME NEW v \in Workers, v # w
          PROVE  AtWork(v)'
      <4>1. /\ pc'[v] = pc[v] /\ held' = held /\ sending' = sending
            /\ fate' = fate /\ tasks' = tasks
        BY <3>2 DEF TypeOK
      <4>. QED  BY ONLY <4>1, AtWork(v) DEF AtWork
    <3>. QED  BY <3>1, <3>2
  <2>3. Apart' /\ Accounted'
    BY DEF Apart, Accounted, Received
  <2>4. Reported' /\ FaithfulOutcome'
    BY DEF TypeOK, Reported, FaithfulOutcome
  <2>. QED  BY <2>1, <2>2, <2>3, <2>4
<1>. QED  BY <1>1, <1>2

LEMMA ParseInv ==
  ASSUME IInv, NEW w \in Workers, Parse(w)
  PROVE  IInv'
<1>. USE InstanceFacts DEF IInv, None, Parse, Goto, main
<1>0. held[w] \in Instances /\ fate[held[w]] \in {"parsed", "error", "panic"}
  BY DEF TypeOK, AtWork
<1>1. TypeOK'
  <2>1. fate[held[w]] # "panic" => Result(held[w], fate[held[w]]) \in Results
    BY <1>0 DEF Results, Result
  <2>. QED  BY <1>0, <2>1 DEF TypeOK
<1>2. \A v \in Workers : AtWork(v)'
  BY <1>0 DEF TypeOK, AtWork, Result
<1>3. Apart' /\ Accounted'
  BY DEF Apart, Accounted, Received
<1>4. Reported' /\ FaithfulOutcome'
  BY DEF TypeOK, Reported, FaithfulOutcome
<1>. QED  BY <1>1, <1>2, <1>3, <1>4
LEMMA SendInv ==
  ASSUME IInv, NEW w \in Workers, Send(w)
  PROVE  IInv'
<1>. USE InstanceFacts DEF IInv, None, Send, Goto, main
<1>. DEFINE result == sending[w]
<1>1. /\ held[w] \in Instances /\ result.kind = fate[result.instance] /\ result.instance = held[w]
      /\ result \in [instance : Instances, kind : {"parsed", "error"}]
  <2>1. held[w] \in Instances /\ result = Result(held[w], fate[held[w]])
    BY DEF TypeOK, AtWork
  <2>2. result.kind = fate[held[w]] /\ result.instance = held[w]
    BY <2>1 DEF Result
  <2>3. result.kind \in {"none", "parsed", "error"}
    BY DEF TypeOK, Results
  <2>4. fate[held[w]] \in {"parsed", "error", "panic"}
    BY <2>1 DEF TypeOK
  <2>. QED  BY <2>1, <2>2, <2>3, <2>4 DEF Result
<1>2. /\ Len(channel) \in Nat
      /\ DOMAIN channel = 1..Len(channel)
      /\ DOMAIN channel' = 1..(Len(channel) + 1)
      /\ \A k \in DOMAIN channel : channel'[k] = channel[k]
      /\ channel'[Len(channel) + 1] = result
  BY <1>1 DEF TypeOK
<1>3. TypeOK'
  <2>1. channel' \in Seq([instance : Instances, kind : {"parsed", "error"}])
    BY <1>1 DEF TypeOK
  <2>2. sending' \in [Workers -> Results]
    BY DEF TypeOK, Results, NoResult, Result
  <2>. QED  BY <2>1, <2>2 DEF TypeOK
<1>4. \A v \in Workers : AtWork(v)'
  BY DEF TypeOK, AtWork
<1>5. Apart'
  <2>1. \A k \in DOMAIN channel : channel[k].instance # held[w]
    BY DEF Apart
  <2>2. held' = [held EXCEPT ![w] = None] /\ held \in [Workers -> Instances \cup {None}]
    BY DEF TypeOK
  <2>3. \A k \in DOMAIN channel' : k \in DOMAIN channel \/ k = Len(channel) + 1
    BY <1>2
  <2>4. tasks' = tasks /\ ordered' = ordered
    OBVIOUS
  <2>5. \A v \in Workers : held'[v] = IF v = w THEN None ELSE held[v]
    BY <2>2
  <2>6. \A k \in DOMAIN channel' :
           channel'[k].instance = IF k \in DOMAIN channel THEN channel[k].instance ELSE held[w]
    BY <1>1, <1>2, <2>3
  <2>7. \A j, k \in DOMAIN channel' : channel'[j].instance = channel'[k].instance => j = k
    <3>. HIDE DEF result
    <3>. QED  BY ONLY Apart, <2>1, <2>3, <2>6 DEF Apart
  <2>8. \A v \in Workers : \A k \in DOMAIN channel' : held'[v] # channel'[k].instance
    <3>1. \A k \in DOMAIN channel' : channel'[k].instance # None
      BY <1>1, <2>6, ChannelTypes
    <3>. QED  BY ONLY Apart, <1>1, <2>5, <2>6, <3>1, w \in Workers, InstanceFacts DEF Apart
  <2>9. \A k \in DOMAIN channel' :
           channel'[k].instance < tasks /\ ordered[channel'[k].instance] = NoResult
    BY <1>1, <2>6 DEF Apart
  <2>. QED  BY ONLY Apart, <2>4, <2>5, <2>7, <2>8, <2>9 DEF Apart
<1>6. Accounted'
  <2>1. \A v \in Workers : held'[v] = held[v] \/ v = w
    BY DEF TypeOK
  <2>2. Len(channel) + 1 \in DOMAIN channel' /\ DOMAIN channel \subseteq DOMAIN channel'
    BY <1>2
  <2>3. channel'[Len(channel) + 1].instance = held[w]
    BY <1>1, <1>2
  <2>4. \A k \in DOMAIN channel : channel'[k] = channel[k]
    BY <1>2
  <2>5. tasks' = tasks /\ \A i \in Instances : Received(i) => Received(i)'
    BY DEF Received
  <2>. QED  BY ONLY <2>1, <2>2, <2>3, <2>4, <2>5, Accounted DEF Accounted
<1>7. Reported'
  BY <1>1, <1>2 DEF Reported
<1>8. FaithfulOutcome'
  BY DEF TypeOK, FaithfulOutcome
<1>. QED  BY <1>3, <1>4, <1>5, <1>6, <1>7, <1>8

LEMMA ReceiveInv ==
  ASSUME IInv, Receive
  PROVE  IInv'
<1>. USE InstanceFacts DEF IInv, None, Receive
<1>. DEFINE result == Head(channel)
<1>1. /\ result \in [instance : Instances, kind : {"parsed", "error"}]
      /\ result = channel[1] /\ 1 \in DOMAIN channel
      /\ Len(channel) \in Nat /\ DOMAIN channel = 1..Len(channel)
  BY HeadAndTail, ChannelTypes DEF TypeOK
<1>2. /\ channel' \in Seq([instance : Instances, kind : {"parsed", "error"}])
      /\ DOMAIN channel' = 1..(Len(channel) - 1)
      /\ \A k \in DOMAIN channel' : channel'[k] = channel[k + 1] /\ k + 1 \in DOMAIN channel
  BY <1>1, HeadAndTail DEF TypeOK
<1>3. result.kind = fate[result.instance] /\ ordered[result.instance] = NoResult /\ result.instance < tasks
  BY <1>1 DEF Reported, Apart
<1>4. result.kind = "parsed" => result = Result(result.instance, "parsed")
  BY <1>1 DEF Result
<1>5. TypeOK'
  <2>1. ordered' \in [Instances -> Results]
    BY <1>1 DEF TypeOK, Slot, Results
  <2>2. \A i \in Instances : ordered'[i] \in {NoResult, Result(i, "parsed")}
    BY <1>1, <1>4 DEF TypeOK, Slot
  <2>3. first_error' \in Instances \cup {None}
    BY <1>1 DEF TypeOK
  <2>. QED  BY <1>2, <2>1, <2>2, <2>3 DEF TypeOK
<1>6. \A v \in Workers : AtWork(v)'
  BY DEF AtWork
<1>7. \A i \in Instances \ {result.instance} : ordered'[i] = ordered[i]
  BY <1>1 DEF TypeOK, Slot
<1>8. \A k \in DOMAIN channel' : channel'[k].instance \in Instances \ {result.instance}
  <2>. SUFFICES ASSUME NEW k \in DOMAIN channel'
                PROVE  channel'[k].instance \in Instances \ {result.instance}
    OBVIOUS
  <2>1. k \in Nat \ {0} /\ channel'[k] = channel[k + 1] /\ k + 1 \in DOMAIN channel /\ k + 1 # 1
    BY <1>1, <1>2
  <2>2. channel[k + 1].instance \in Instances
    BY <2>1, ChannelTypes
  <2>3. channel[k + 1].instance # channel[1].instance
    BY <1>1, <2>1 DEF Apart
  <2>. QED  BY <1>1, <2>1, <2>2, <2>3
<1>9. Apart'
  <2>1. \A j, k \in DOMAIN channel' : channel'[j].instance = channel'[k].instance => j = k
    BY <1>1, <1>2 DEF Apart
  <2>2. \A v \in Workers : held[v] # None => held[v] \in Instances \ {result.instance}
    BY <1>1 DEF Apart, TypeOK
  <2>3. \A i \in Instances : ordered'[i] # NoResult => i < tasks
    BY <1>3, <1>7 DEF Apart
  <2>4. \A k \in DOMAIN channel' :
           channel'[k].instance < tasks /\ ordered'[channel'[k].instance] = NoResult
    <3>1. \A k \in DOMAIN channel' : channel'[k] = channel[k + 1] /\ k + 1 \in DOMAIN channel
      BY <1>2
    <3>2. \A k \in DOMAIN channel :
             channel[k].instance < tasks /\ ordered[channel[k].instance] = NoResult
      BY DEF Apart
    <3>. QED  BY ONLY <3>1, <3>2, <1>7, <1>8
  <2>5. \A v \in Workers : \A k \in DOMAIN channel' : held[v] # channel'[k].instance
    BY <1>2 DEF Apart
  <2>6. \A v \in Workers : held[v] # None => held[v] < tasks /\ ordered'[held[v]] = NoResult
    BY <2>2, <1>7 DEF Apart
  <2>7. held' = held /\ tasks' = tasks
    OBVIOUS
  <2>. QED
    BY ONLY <2>1, <2>3, <2>4, <2>5, <2>6, <2>7, Apart DEF Apart, None
<1>10. Accounted'
  <2>. SUFFICES ASSUME NEW i \in Instances, i < tasks
                PROVE  \/ \E w \in Workers : held[w] = i
                       \/ \E k \in DOMAIN channel' : channel'[k].instance = i
                       \/ Received(i)'
    BY DEF Accounted
  <2>1. CASE Received(i)
    BY <2>1, <1>1, <1>3, <1>7 DEF Received
  <2>2. CASE i = result.instance
    <3>1. CASE result.kind = "parsed"
      <4>1. ordered'[i] = result
        BY <2>2, <3>1, <1>1 DEF TypeOK, Slot
      <4>. QED  BY <2>2, <3>1, <4>1, <1>4 DEF Received
    <3>2. CASE result.kind # "parsed"
      BY <2>2, <3>2, <1>1, <1>3 DEF Received
    <3>. QED  BY <3>1, <3>2
  <2>3. ASSUME NEW k \in DOMAIN channel, channel[k].instance = i, i # result.instance
        PROVE  \E j \in DOMAIN channel' : channel'[j].instance = i
    <3>1. k - 1 \in DOMAIN channel' /\ (k - 1) + 1 = k
      BY <2>3, <1>1, <1>2
    <3>. QED  BY <2>3, <3>1, <1>2
  <2>. QED  BY <2>1, <2>2, <2>3 DEF Accounted
<1>11. Reported'
  <2>1. \A k \in DOMAIN channel' : channel'[k].kind = fate[channel'[k].instance]
    BY <1>2 DEF Reported
  <2>2. \A i \in Instances : ordered'[i] # NoResult => fate[i] = "parsed"
    BY <1>1, <1>3, <1>7 DEF Reported, Slot
  <2>3. first_error' # None => fate[first_error'] = "error"
    <3>1. result.kind # "parsed" => fate[result.instance] = "error"
      BY <1>1, <1>3
    <3>. QED  BY <3>1 DEF Reported
  <2>. QED  BY <2>1, <2>2, <2>3 DEF Reported
<1>12. FaithfulOutcome'
  BY DEF FaithfulOutcome
<1>. QED  BY <1>5, <1>6, <1>9, <1>10, <1>11, <1>12

(* When all workers have ended and the channel is empty, every instance     *)
(* has been received, unless a worker panicked.                             *)
LEMMA LeaveInv ==
  ASSUME IInv, Leave
  PROVE  IInv'
<1>. USE InstanceFacts DEF IInv, None, Leave
<1>1. \A w \in Workers : pc[w] \in {"gone", "panicked"}
  BY DEF SendersDropped, Ended
<1>2. TypeOK' /\ Apart' /\ Accounted' /\ Reported'
  BY DEF TypeOK, Apart, Accounted, Received, Reported
<1>3. \A w \in Workers : AtWork(w)'
  BY DEF AtWork
<1>4. FaithfulOutcome'
  <2>1. CASE \E w \in Workers : pc[w] = "panicked"
    <3>1. PICK w \in Workers : pc[w] = "panicked"
      BY <2>1
    <3>2. held[w] \in Instances /\ fate[held[w]] = "panic"
      BY <3>1 DEF TypeOK, AtWork
    <3>. QED  BY <2>1, <3>2 DEF FaithfulOutcome
  <2>2. CASE \A w \in Workers : pc[w] # "panicked"
    <3>1. \A i \in Instances : i < tasks
      <4>1. tasks = Count + 1
        BY <1>1, <2>2, SomeWorker DEF AtWork
      <4>. QED  BY <4>1 DEF Instances
    <3>2. \A w \in Workers : held[w] = None
      BY <1>1, <2>2 DEF AtWork
    <3>3. DOMAIN channel = {}
      BY DEF TypeOK
    <3>4. \A i \in Instances : Received(i)
      BY <3>1, <3>2, <3>3 DEF Accounted
    <3>5. \A i \in Instances : fate[i] # "panic"
      BY <3>4 DEF Received, Reported
    <3>6. CASE first_error # None
      BY <2>2, <3>5, <3>6 DEF FaithfulOutcome, Reported
    <3>7. CASE first_error = None
      <4>1. \A i \in Instances : ordered[i] = Result(i, "parsed") /\ fate[i] = "parsed"
        BY <3>4, <3>7 DEF Received, Reported, TypeOK
      <4>. QED  BY <2>2, <3>7, <4>1 DEF FaithfulOutcome
    <3>. QED  BY <3>6, <3>7
  <2>. QED  BY <2>1, <2>2
<1>. QED  BY <1>2, <1>3, <1>4

-----------------------------------------------------------------------------
LEMMA InvNext == IInv /\ [Next]_vars => IInv'
<1>. SUFFICES ASSUME IInv, [Next]_vars PROVE IInv'
  OBVIOUS
<1>1. CASE Main
  BY <1>1, ReceiveInv, LeaveInv DEF Main
<1>2. ASSUME NEW w \in Workers, Worker(w)
      PROVE  IInv'
  BY <1>2, TakeTaskInv, ParseInv, SendInv DEF Worker
<1>3. CASE UNCHANGED vars
  BY <1>3 DEF vars, IInv, TypeOK, AtWork, Apart, Accounted, Received, Reported,
              FaithfulOutcome
<1>. QED  BY <1>1, <1>2, <1>3 DEF Next

(* The inductive invariant of the pool: where each instance is, and that    *)
(* what has been sent, received or cached is right.                         *)
THEOREM Invariance == Spec => []IInv
<1>. QED  BY InvInit, InvNext, PTL DEF Spec

(* Every variable keeps its type, with any number of workers.               *)
THEOREM TypeCorrect == Spec => []TypeOK
<1>1. IInv => TypeOK
  BY DEF IInv
<1>. QED  BY <1>1, Invariance, PTL

(* The pool returns all results in corpus order, or the error of an         *)
(* instance that fails when none panics, or passes on a panic.              *)
THEOREM Faithfulness == Spec => []FaithfulOutcome
<1>1. IInv => FaithfulOutcome
  BY DEF IInv
<1>. QED  BY <1>1, Invariance, PTL

-----------------------------------------------------------------------------
(* A set without two different elements. *)
LEMMA AtMostOne ==
  ASSUME NEW S, \A x, y \in S : x = y
  PROVE  /\ Cardinality(S) \in {0, 1}
         /\ Cardinality(S) = 0 <=> S = {}
<1>1. CASE S = {}
  BY <1>1, FS_EmptySet
<1>2. CASE S # {}
  <2>1. PICK x \in S : TRUE
    BY <1>2
  <2>2. S = {x}
    BY <2>1
  <2>3. Cardinality(S) = 1
    BY <2>2, FS_Singleton
  <2>. QED  BY <1>2, <2>3
<1>. QED  BY <1>1, <1>2

LEMMA PlacesOfInstance ==
  ASSUME IInv, NEW i \in Instances
  PROVE  /\ Places(i) \in {0, 1}
         /\ Places(i) = 0 <=> /\ \A w \in Workers : held[w] # i
                              /\ \A k \in DOMAIN channel : channel[k].instance # i
<1>. DEFINE H == {w \in Workers : held[w] = i}
            C == {k \in DOMAIN channel : channel[k].instance = i}
<1>1. \A v, w \in H : v = w
  BY InstanceFacts DEF IInv, Apart
<1>2. \A j, k \in C : j = k
  BY DEF IInv, Apart
<1>3. H = {} \/ C = {}
  BY DEF IInv, Apart
<1>4. Places(i) = Cardinality(H) + Cardinality(C)
  BY DEF Places
<1>5. H = {} /\ C = {} <=> /\ \A w \in Workers : held[w] # i
                           /\ \A k \in DOMAIN channel : channel[k].instance # i
  OBVIOUS
<1>6. Cardinality(H) \in {0, 1} /\ (Cardinality(H) = 0 <=> H = {})
  BY <1>1, AtMostOne
<1>7. Cardinality(C) \in {0, 1} /\ (Cardinality(C) = 0 <=> C = {})
  BY <1>2, AtMostOne
<1>. QED  BY ONLY <1>3, <1>4, <1>5, <1>6, <1>7

(* Every instance that was taken is with one worker, in the channel once,   *)
(* or received: none is parsed twice and none is lost.                      *)
THEOREM OnePlace == Spec => []InOnePlace
<1>1. ASSUME IInv
      PROVE  InOnePlace
  <2>. SUFFICES ASSUME NEW i \in Instances
                PROVE  /\ Places(i) <= IF i < tasks THEN 1 ELSE 0
                       /\ Places(i) = 1 => ordered[i] = NoResult
                       /\ i < tasks /\ Places(i) = 0 => ordered[i] # NoResult \/ first_error # None
    BY DEF InOnePlace
  <2>1. Places(i) \in {0, 1}
    BY <1>1, PlacesOfInstance
  <2>2. CASE Places(i) = 0
    <3>1. /\ \A w \in Workers : held[w] # i
          /\ \A k \in DOMAIN channel : channel[k].instance # i
      BY <1>1, <2>2, PlacesOfInstance
    <3>2. i < tasks => Received(i)
      BY <1>1, <3>1 DEF IInv, Accounted
    <3>. QED  BY <2>2, <3>2 DEF Received
  <2>3. CASE Places(i) = 1
    <3>1. \/ \E w \in Workers : held[w] = i
          \/ \E k \in DOMAIN channel : channel[k].instance = i
      BY <1>1, <2>3, PlacesOfInstance
    <3>2. i < tasks /\ ordered[i] = NoResult
      BY <1>1, <3>1, InstanceFacts DEF IInv, Apart
    <3>. QED  BY <2>3, <3>2
  <2>. QED  BY <2>1, <2>2, <2>3
<1>. QED  BY <1>1, Invariance, PTL

-----------------------------------------------------------------------------
(* The compiled grammars that the threads of one Irtg share. *)

LEMMA CacheInvInit == CacheInit => CacheIInv
BY DEF CacheInit, CacheIInv, CacheTypeOK, AnswersAreCached

LEMMA CallInv ==
  ASSUME CacheIInv, NEW t \in Threads, NEW p \in Interpretations, Call(t, p)
  PROVE  CacheIInv'
BY DEF CacheIInv, CacheTypeOK, AnswersAreCached, Call, GoOn

LEMMA LookUpInv ==
  ASSUME CacheIInv, NEW t \in Threads, LookUp(t)
  PROVE  CacheIInv'
BY DEF CacheIInv, CacheTypeOK, AnswersAreCached, LookUp, GoOn, Answer

LEMMA CompileInv ==
  ASSUME CacheIInv, NEW t \in Threads, Compile(t)
  PROVE  CacheIInv'
BY DEF CacheIInv, CacheTypeOK, AnswersAreCached, Compile, Compiles, GoOn, Answer, Grammars

LEMMA InsertInv ==
  ASSUME CacheIInv, NEW t \in Threads, Insert(t)
  PROVE  CacheIInv'
<1>. USE DEF Insert, GoOn, Answer
<1>1. /\ wanted[t] \in compilable /\ wanted[t] \in Interpretations
      /\ Cached(t) \in Grammars
      /\ wanted[t] \in DOMAIN cache => Cached(t) = cache[wanted[t]]
  <2>1. wanted[t] \in compilable /\ wanted[t] \in Interpretations /\ compiled[t] = <<t, wanted[t]>>
    BY DEF CacheIInv, CacheTypeOK
  <2>2. compiled[t] \in Grammars
    BY <2>1 DEF Grammars
  <2>3. wanted[t] \in DOMAIN cache => cache[wanted[t]] \in Grammars
    BY DEF CacheIInv, CacheTypeOK
  <2>. QED  BY <2>1, <2>2, <2>3 DEF Cached
<1>2. /\ DOMAIN cache' = DOMAIN cache \cup {wanted[t]}
      /\ cache'[wanted[t]] = Cached(t)
      /\ \A p \in DOMAIN cache : cache'[p] = cache[p]
  BY <1>1
<1>3. CacheTypeOK'
  <2>1. cache' \in [DOMAIN cache' -> Grammars] /\ DOMAIN cache' \subseteq compilable
    BY <1>1, <1>2 DEF CacheIInv, CacheTypeOK
  <2>2. answers' \in [Interpretations -> SUBSET (Grammars \cup {Error})]
    BY <1>1 DEF CacheIInv, CacheTypeOK
  <2>. QED  BY <1>1, <2>1, <2>2 DEF CacheIInv, CacheTypeOK
<1>4. AnswersAreCached'
  BY <1>1, <1>2 DEF CacheIInv, CacheTypeOK, AnswersAreCached
<1>. QED  BY <1>3, <1>4 DEF CacheIInv, CacheTypeOK

LEMMA CacheInvNext == CacheIInv /\ [CacheNext]_cache_vars => CacheIInv'
<1>. SUFFICES ASSUME CacheIInv, [CacheNext]_cache_vars PROVE CacheIInv'
  OBVIOUS
<1>1. CASE CacheNext
  BY <1>1, CallInv, LookUpInv, CompileInv, InsertInv DEF CacheNext
<1>2. CASE UNCHANGED cache_vars
  BY <1>2 DEF cache_vars, CacheIInv, CacheTypeOK, AnswersAreCached
<1>. QED  BY <1>1, <1>2

(* The inductive invariant of the cache: what calls have returned is what   *)
(* the cache holds, or the error.                                           *)
THEOREM CacheInvariance == CacheSpec => []CacheIInv
<1>. QED  BY CacheInvInit, CacheInvNext, PTL DEF CacheSpec

(* Every variable keeps its type; only what compiles is cached.             *)
THEOREM CacheTypeCorrect == CacheSpec => []CacheTypeOK
<1>1. CacheIInv => CacheTypeOK
  BY DEF CacheIInv
<1>. QED  BY <1>1, CacheInvariance, PTL

(* All calls for one interpretation return the same grammar, however many   *)
(* threads compile it at the same time, or they all return the error.       *)
THEOREM SameGrammar == CacheSpec => []OneAnswer
<1>1. CacheIInv => OneAnswer
  <2>. SUFFICES ASSUME CacheIInv, NEW p \in Interpretations, NEW x \in answers[p], NEW y \in answers[p]
                PROVE  x = y
    BY DEF OneAnswer
  <2>. QED  BY DEF CacheIInv, AnswersAreCached
<1>. QED  BY <1>1, CacheInvariance, PTL
=============================================================================
